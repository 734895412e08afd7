------------------------------- MODULE MCInventory -------------------------------
(* Small instances of Inventory for TLC. *)
EXTENDS Inventory, TLC

CONSTANTS v1, v2, p1

\* Two variants of one product, and units enough for one basket of each kind.
MCProductOf == v1 :> p1 @@ v2 :> p1

MCInitialRows ==
  v1 :> [stock |-> 3, reserved |-> 0, price |-> 10] @@
  v2 :> [stock |-> 1, reserved |-> 0, price |-> 10]

Of(q, p) == [quantity |-> q, price |-> p]

\* Two baskets that fit together, though no one of them fits twice, and one priced from an
\* outdated page.
MCBaskets == {v1 :> Of(1, 10) @@ v2 :> Of(1, 10), v1 :> Of(2, 10), v1 :> Of(1, 9)}

Symmetry == Permutations(Orders) \cup Permutations(Requests)
================================================================================
