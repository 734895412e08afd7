------------------------------ MODULE StockLedger ------------------------------
(***************************************************************************)
(* What the inventory of products-service promises its callers, without    *)
(* counters, snapshots or transactions: every order has at most one        *)
(* reservation, a reservation is granted only out of stock that no other   *)
(* reservation holds or has sold, and it is settled exactly once.          *)
(*                                                                         *)
(* Inventory.tla, which models the read, check and compare-and-swap code,  *)
(* implements this specification (Inventory!ImplementsLedger).             *)
(***************************************************************************)
EXTENDS Naturals, FiniteSets

CONSTANTS
  Variants,      \* product variants (SKUs)
  Orders,        \* order ids, the idempotency key of a reservation
  Prices,        \* unit prices
  MaxQuantity,   \* the largest quantity of one line
  Stock,         \* [Variants -> Nat], units on hand at the start
  TTL            \* how long a reservation is kept for its order

VARIABLES
  ledger,        \* [Orders -> Reservation]
  now            \* the clock

Line == [quantity : 1..MaxQuantity, price : Prices]

\* The lines of a reservation: at most one per variant, at least one in all.
Lines == UNION {[S -> Line] : S \in (SUBSET Variants) \ {{}}}

NoLines == [v \in {} |-> 0]

\* InventoryReservationStatus, and ABSENT for an order id without a row.
Statuses == {"ABSENT", "ACTIVE", "CONFIRMED", "RELEASED", "EXPIRED"}

Reservation == [status : Statuses, lines : Lines \cup {NoLines}, expiresAt : Nat]

Absent == [status |-> "ABSENT", lines |-> NoLines, expiresAt |-> 0]

InStatus(s) == {o \in Orders : ledger[o].status = s}

\* The units of variant v that the orders of S ask for, one element per unit.
Units(S, v) ==
  {u \in S \X (1..MaxQuantity) :
     v \in DOMAIN ledger[u[1]].lines /\ u[2] <= ledger[u[1]].lines[v].quantity}

Held(v) == Cardinality(Units(InStatus("ACTIVE"), v))
Sold(v) == Cardinality(Units(InStatus("CONFIRMED"), v))

Init == ledger = [o \in Orders |-> Absent] /\ now = 0

\* The order asked for its lines at time t, some time before they were granted.
Reserve(o, lines, t) ==
  /\ ledger[o].status = "ABSENT"
  /\ ledger' = [ledger EXCEPT ![o] =
                  [status |-> "ACTIVE", lines |-> lines, expiresAt |-> t + TTL]]
  /\ \A v \in DOMAIN lines : lines[v].quantity + Held(v) + Sold(v) <= Stock[v]
  /\ UNCHANGED now

Settle(o, s) ==
  /\ ledger[o].status = "ACTIVE"
  /\ s = "EXPIRED" => now >= ledger[o].expiresAt
  /\ ledger' = [ledger EXCEPT ![o].status = s]
  /\ UNCHANGED now

Tick == now' = now + 1 /\ UNCHANGED ledger

Next ==
  \/ \E o \in Orders, lines \in Lines, t \in 0..now : Reserve(o, lines, t)
  \/ \E o \in Orders, s \in {"CONFIRMED", "RELEASED", "EXPIRED"} : Settle(o, s)
  \/ Tick

vars == <<ledger, now>>

Spec == Init /\ [][Next]_vars
================================================================================
