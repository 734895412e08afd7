------------------------------- MODULE MCOrderFeed -------------------------------
(* Small instances of OrderFeed for TLC. *)
EXTENDS OrderFeed

MCEvents == Event
MCRowOf == [e \in Event |-> e.order]
MCItems == [o \in Orders |-> Products]
================================================================================
