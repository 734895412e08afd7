------------------------------ MODULE MCAddressBook ------------------------------
(* A small instance of AddressBook for TLC. *)
EXTENDS AddressBook, TLC

\* Requests are interchangeable.
MCSymmetry == Permutations(Requests)
================================================================================
