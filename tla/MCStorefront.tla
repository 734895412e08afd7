------------------------------- MODULE MCStorefront -------------------------------
(* Small instances of Storefront for TLC. *)
EXTENDS Storefront
================================================================================
