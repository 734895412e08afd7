----------------------------- MODULE MCProductCatalog -----------------------------
(* Small instances of ProductCatalog for TLC. *)
EXTENDS ProductCatalog, TLC

CONSTANTS v1, v2, p1

\* One product with variant v1, and v2 to be created.
MCProductOf == [v \in Variants |-> p1]

MCInitialRows ==
  v1 :> [stock |-> 2, reserved |-> 0, price |-> 10] @@
  v2 :> [stock |-> 0, reserved |-> 0, price |-> 10]

MCNewRow == [stock |-> 1, reserved |-> 0, price |-> 11]

Of(q, p) == [quantity |-> q, price |-> p]

\* One unit of v1 for each order, before and after a price change.
MCBaskets == {v1 :> Of(1, 10), v1 :> Of(1, 11)}
================================================================================
