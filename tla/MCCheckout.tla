------------------------------- MODULE MCCheckout -------------------------------
(* Small instances of Checkout for TLC. *)
EXTENDS Checkout, TLC

\* Units enough for all orders: who gets the last one is checked with Inventory.
MCStock == [v \in Variants |-> MaxQuantity * Cardinality(Orders)]

\* One unit of every variant.
MCBaskets == {[v \in Variants |-> [quantity |-> 1, price |-> p]] : p \in Prices}

Symmetry == Permutations(Orders) \cup Permutations(Requests) \cup Permutations(Keys)
              \cup Permutations(Addresses)
================================================================================
