------------------------------ MODULE MCProductFeed ------------------------------
(* A small instance of ProductFeed for TLC: two variants of one product, and another. *)
EXTENDS ProductFeed

CONSTANTS p1, p2, v1, v2, v3

MCProductOf == [v \in Variants |-> IF v = v3 THEN p2 ELSE p1]
MCEvents == Event
MCRowOf == [e \in Event |-> e.product]
================================================================================
