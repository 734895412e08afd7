----------------------------- MODULE MCOrderLifecycle -----------------------------
(* Small instances of OrderLifecycle for TLC. *)
EXTENDS OrderLifecycle, TLC

\* All orders fall due at the same time, after one step of the clock.
MCDeadline == [o \in Orders |-> 1]

Symmetry == Permutations(Orders) \cup Permutations(Requests) \cup Permutations(Keys)
================================================================================
