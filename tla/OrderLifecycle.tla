------------------------------ MODULE OrderLifecycle ------------------------------
(***************************************************************************)
(* The life of an order in cart-service, from checkout to delivery: the    *)
(* use cases that pay, cancel, expire and advance it, the worker that      *)
(* expires what is overdue, and the delivery simulator.  An order owns     *)
(* three records that live apart: its row, the reservation of its stock    *)
(* (products-service, over HTTP) and the reservation of the loyalty points *)
(* it was discounted by.  Every use case reads the order, settles the      *)
(* stock, settles the points and saves the order, one await after another, *)
(* and only Complete compares the order with what is stored by then.       *)
(*                                                                         *)
(* The stock reservation takes each call in one step: that is what         *)
(* Inventory.tla shows of it (Inventory!ImplementsLedger).  The calls are  *)
(* HTTP requests, so one that the caller gave up on may still be served.   *)
(* Every change of a row announces itself in the outbox: OrderFeed.tla.    *)
(***************************************************************************)
EXTENDS Naturals, FiniteSets

CONSTANTS
  Orders,       \* ids of orders that a checkout has created
  Keys,         \* idempotency keys of payment requests
  None,         \* no order
  Requests,     \* slots for the calls of HTTP clients and of the
                \* OrderDeliverySimulatorWorker served at the same time
  Worker,       \* the OrderExpirationWorker
  Deadline,     \* [Orders -> Nat], expiresAt of the order and both reservations
  MaxTime       \* bound on the clock

VARIABLES
  orders,       \* table Order: the status of each
  stock,        \* status of the order's reservation in products-service
  loyalty,      \* table LoyaltyReservation, "NONE" for an order without points
  redeemed,     \* the orders whose REDEEM transaction is written
  payments,     \* table PaymentAttempt: the order each key has paid
  job,          \* what each handler has in memory between two awaits
  sweep,        \* the worker's poll: its phase, reference date and what it read
  refused,      \* the orders whose active reservation products-service refuses
                \* to settle: a price, the offer or a counter has changed
  stray,        \* inventory calls whose caller is gone, not served yet
  now           \* the clock

vars == <<orders, stock, loyalty, redeemed, payments, job, sweep, refused, stray, now>>

ASSUME OrderAssumption ==
  /\ None \notin Orders
  /\ Deadline \in [Orders -> Nat] /\ MaxTime \in Nat
  /\ Worker \notin Requests

Handlers == Requests \cup {Worker}

Fulfilment == {"PAID", "IN_TRANSIT", "OUT_FOR_DELIVERY", "DELIVERED"}
Closed == {"CANCELLED", "EXPIRED"}
OrderStatuses == {"CREATED"} \cup Fulfilment \cup Closed

\* Faulty variant of NextStatus: logistics may confirm a payment.
NextStatusFromCreated(s) ==
  CASE s = "CREATED"          -> "PAID"
    [] s = "PAID"             -> "IN_TRANSIT"
    [] s = "IN_TRANSIT"       -> "OUT_FOR_DELIVERY"
    [] s = "OUT_FOR_DELIVERY" -> "DELIVERED"
    [] OTHER                  -> "none"

\* Order.getNextStatus, for the steps that advanceLogisticsTo can take.
NextStatus(s) ==
  CASE s = "PAID"             -> "IN_TRANSIT"
    [] s = "IN_TRANSIT"       -> "OUT_FOR_DELIVERY"
    [] s = "OUT_FOR_DELIVERY" -> "DELIVERED"
    [] OTHER                  -> "none"

Overdue(o, at) == at >= Deadline[o]

--------------------------------------------------------------------------------
(* A handler between two awaits: the status it wants to give the order, and *)
(* the await it is about to make.                                           *)

Idle == [step |-> "idle"]

Payment ==
  [step : {"attempt", "stock", "loyalty", "prepare", "points", "mark", "save"},
   to : {"PAID"}, order : Orders, seen : OrderStatuses, key : Keys]

Closing ==
  [step : {"stock", "loyalty", "prepare", "points", "save"}, to : Closed, order : Orders]

Advancing == [step : {"save"}, to : Fulfilment \ {"PAID"}, order : Orders]

At(h, step) == job[h].step = step
Go(h, step) == job' = [job EXCEPT ![h].step = step]
Quit(h)     == job' = [job EXCEPT ![h] = Idle]

Begin(h, j) == At(h, "idle") /\ job' = [job EXCEPT ![h] = j]

Rows == <<orders, stock, loyalty, redeemed, payments>>

--------------------------------------------------------------------------------
(* The first await of every use case: read the order *)

Pay(h, o, k) ==
  /\ Begin(h, [step |-> "attempt", to |-> "PAID", order |-> o, seen |-> orders[o], key |-> k])
  /\ UNCHANGED <<Rows, sweep, refused, stray, now>>

Cancel(h, o) ==
  /\ orders[o] = "CREATED"
  /\ Begin(h, [step |-> "stock", to |-> "CANCELLED", order |-> o])
  /\ UNCHANGED <<Rows, sweep, refused, stray, now>>

\* PATCH by an administrator, or the simulator's poll reaching the order.
Advance(h, o, to) ==
  /\ to = NextStatus(orders[o])
  /\ Begin(h, [step |-> "save", to |-> to, order |-> o])
  /\ UNCHANGED <<Rows, sweep, refused, stray, now>>

--------------------------------------------------------------------------------
(* The worker's poll: overdue orders first, overdue points after them *)

NoSweep == [phase |-> "none", due |-> {}, at |-> 0]

AwaitingPayment(at) == {o \in Orders : orders[o] = "CREATED" /\ Overdue(o, at)}

\* Faulty variant of Unused: points come back with the order only.
UnusedOfClosed(at) == {o \in Orders : loyalty[o] = "ACTIVE" /\ orders[o] \in Closed}

Unused(at) == {o \in Orders : loyalty[o] = "ACTIVE" /\ Overdue(o, at)}

Sweep ==
  /\ sweep = NoSweep /\ At(Worker, "idle")
  /\ sweep' = [phase |-> "orders", due |-> AwaitingPayment(now), at |-> now]
  /\ UNCHANGED <<Rows, job, refused, stray, now>>

\* The next order of the list is read again, and left alone unless it still
\* awaits payment.
ExpireOrder(o) ==
  /\ sweep.phase = "orders" /\ o \in sweep.due /\ At(Worker, "idle")
  /\ sweep' = [sweep EXCEPT !.due = @ \ {o}]
  /\ IF orders[o] = "CREATED" /\ Overdue(o, sweep.at)
     THEN Begin(Worker, [step |-> "stock", to |-> "EXPIRED", order |-> o])
     ELSE UNCHANGED job
  /\ UNCHANGED <<Rows, refused, stray, now>>

FindUnused ==
  /\ sweep.phase = "orders" /\ sweep.due = {} /\ At(Worker, "idle")
  /\ sweep' = [sweep EXCEPT !.phase = "loyalty", !.due = Unused(sweep.at)]
  /\ UNCHANGED <<Rows, job, refused, stray, now>>

\* The entity in memory is ACTIVE, and save compares nothing.
ExpireLoyalty(o) ==
  /\ sweep.phase = "loyalty" /\ o \in sweep.due
  /\ sweep' = [sweep EXCEPT !.due = @ \ {o}]
  /\ loyalty' = [loyalty EXCEPT ![o] = "EXPIRED"]
  /\ UNCHANGED <<orders, stock, redeemed, payments, job, refused, stray, now>>

EndSweep ==
  /\ sweep.phase = "loyalty" /\ sweep.due = {}
  /\ sweep' = NoSweep
  /\ UNCHANGED <<Rows, job, refused, stray, now>>

--------------------------------------------------------------------------------
(* Settling the stock *)

\* Faulty variant of Settled: a confirmed reservation may be released.
SettledAgain(o, to) ==
  IF stock[o] \in {"RELEASED", "EXPIRED"} THEN {stock[o]}
  ELSE IF to = "CONFIRMED" /\ Overdue(o, now) THEN {"CONFIRMED", "EXPIRED"} ELSE {to}

\* What products-service may make of a reservation it is told to settle.  It
\* looks at the clock before it commits, so a confirmation that crosses the
\* deadline may still succeed.
Settled(o, to) ==
  IF stock[o] # "ACTIVE" \/ o \in refused THEN {stock[o]}
  ELSE IF to = "CONFIRMED" /\ Overdue(o, now) THEN {"CONFIRMED", "EXPIRED"} ELSE {to}

\* Faulty variants of Accepted: no answer is checked, and a reservation that
\* has expired on its own is not taken for released.
AcceptedUnchecked(to) == {"ACTIVE", "CONFIRMED", "RELEASED", "EXPIRED"}
AcceptedExactly(to) == {to}

\* The settlement that a handler asks for, and the statuses it takes for a yes.
Wanted(j) == IF j.to = "PAID" THEN "CONFIRMED" ELSE "RELEASED"
Accepted(to) == IF to = "CONFIRMED" THEN {"CONFIRMED"} ELSE {"RELEASED", "EXPIRED"}

SettleStock(h) ==
  LET j == job[h] IN
  /\ At(h, "stock")
  /\ \E s \in Settled(j.order, Wanted(j)) : stock' = [stock EXCEPT ![j.order] = s]
  /\ IF stock'[j.order] \in Accepted(Wanted(j)) THEN Go(h, "loyalty") ELSE Quit(h)
  /\ UNCHANGED <<orders, loyalty, redeemed, payments, sweep, refused, stray, now>>

\* A call whose caller has gone is served after all.
ServeStray(o, to) ==
  /\ <<o, to>> \in stray
  /\ \E s \in Settled(o, to) : stock' = [stock EXCEPT ![o] = s]
  /\ stray' = stray \ {<<o, to>>}
  /\ UNCHANGED <<orders, loyalty, redeemed, payments, job, sweep, refused, now>>

\* The expiration worker of products-service.
StockExpires(o) ==
  /\ stock[o] = "ACTIVE" /\ o \notin refused /\ Overdue(o, now)
  /\ stock' = [stock EXCEPT ![o] = "EXPIRED"]
  /\ UNCHANGED <<orders, loyalty, redeemed, payments, job, sweep, refused, stray, now>>

\* The catalogue changes under an active reservation, or changes back: every
\* settlement of it is refused in between (buildVariantChanges).
CatalogChanges(o) ==
  /\ stock[o] = "ACTIVE"
  /\ refused' = IF o \in refused THEN refused \ {o} ELSE refused \cup {o}
  /\ UNCHANGED <<Rows, job, sweep, stray, now>>

--------------------------------------------------------------------------------
(* Settling the loyalty points *)

FindLoyalty(h) ==
  LET j == job[h] IN
  /\ At(h, "loyalty")
  /\ Go(h, IF loyalty[j.order] = "ACTIVE" THEN "prepare"
           ELSE IF j.to = "PAID" THEN "mark" ELSE "save")
  /\ UNCHANGED <<Rows, sweep, refused, stray, now>>

\* A reservation that is overdue is not consumed, one that is CONSUMED or EXPIRED
\* not released.
CanConsume(o) ==
  \/ loyalty[o] = "CONSUMED"
  \/ loyalty[o] = "ACTIVE" /\ ~Overdue(o, now)

CanRelease(o) == loyalty[o] \in {"ACTIVE", "RELEASED"}

CanSettleLoyalty(j) ==
  \/ j.to = "PAID" /\ CanConsume(j.order)
  \/ j.to \in Closed /\ CanRelease(j.order)

\* The use case for the points reads them again.
PrepareLoyalty(h) ==
  /\ At(h, "prepare")
  /\ IF CanSettleLoyalty(job[h]) THEN Go(h, "points") ELSE Quit(h)
  /\ UNCHANGED <<Rows, sweep, refused, stray, now>>

\* PrismaLoyaltyReservationRepository.consume: claimed only if still ACTIVE.
RedeemPoints(h) ==
  LET j == job[h] IN
  /\ At(h, "points") /\ j.to = "PAID"
  /\ IF loyalty[j.order] = "ACTIVE"
     THEN /\ loyalty' = [loyalty EXCEPT ![j.order] = "CONSUMED"]
          /\ redeemed' = redeemed \cup {j.order}
          /\ Go(h, "mark")
     ELSE Quit(h) /\ UNCHANGED <<loyalty, redeemed>>
  /\ UNCHANGED <<orders, stock, payments, sweep, refused, stray, now>>

\* PrismaLoyaltyReservationRepository.save compares nothing.
FreePoints(h) ==
  LET j == job[h] IN
  /\ At(h, "points") /\ j.to \in Closed
  /\ loyalty' = [loyalty EXCEPT ![j.order] = "RELEASED"]
  /\ Go(h, "save")
  /\ UNCHANGED <<orders, stock, redeemed, payments, sweep, refused, stray, now>>

--------------------------------------------------------------------------------
(* The payment itself *)

\* A key that has paid is answered at once: as before, or with an error.
FindAttempt(h) ==
  LET j == job[h] IN
  /\ At(h, "attempt")
  /\ IF payments[j.key] = None THEN Go(h, "stock") ELSE Quit(h)
  /\ UNCHANGED <<Rows, sweep, refused, stray, now>>

\* Faulty variant of MarkAsPaid: the payment window is not checked.
MarkAsPaidLate(h) ==
  LET j == job[h] IN
  /\ At(h, "mark")
  /\ IF j.seen = "CREATED" THEN Go(h, "save") ELSE Quit(h)
  /\ UNCHANGED <<Rows, sweep, refused, stray, now>>

\* Order.markAsPaid, on the order as it was read.
MarkAsPaid(h) ==
  LET j == job[h] IN
  /\ At(h, "mark")
  /\ IF j.seen = "CREATED" /\ ~Overdue(j.order, now) THEN Go(h, "save") ELSE Quit(h)
  /\ UNCHANGED <<Rows, sweep, refused, stray, now>>

\* Faulty variant of Payable: the order is paid whatever its status.
PayableByKey(j) == payments[j.key] = None

Payable(j) == payments[j.key] = None /\ orders[j.order] = "CREATED"

\* PrismaPaymentAttemptRepository.complete, one transaction: the attempt must be
\* new and the order must still await payment.
Complete(h) ==
  LET j == job[h] IN
  /\ At(h, "save") /\ j.to = "PAID"
  /\ IF Payable(j)
     THEN /\ payments' = [payments EXCEPT ![j.key] = j.order]
          /\ orders' = [orders EXCEPT ![j.order] = "PAID"]
     ELSE UNCHANGED <<payments, orders>>
  /\ Quit(h)
  /\ UNCHANGED <<stock, loyalty, redeemed, sweep, refused, stray, now>>

\* PrismaOrderRepository.save: the status in memory overwrites the one stored.
SaveOrder(h) ==
  LET j == job[h] IN
  /\ At(h, "save") /\ j.to # "PAID"
  /\ orders' = [orders EXCEPT ![j.order] = j.to]
  /\ Quit(h)
  /\ UNCHANGED <<stock, loyalty, redeemed, payments, sweep, refused, stray, now>>

--------------------------------------------------------------------------------
\* An answer with an error, an exception, or the end of the process.  The call
\* to products-service may be under way by then.  The worker goes on with the
\* rest of its poll, or loses it.
Fail(h) ==
  LET j == job[h] IN
  /\ ~At(h, "idle")
  /\ Quit(h)
  /\ \/ UNCHANGED stray
     \/ At(h, "stock") /\ stray' = stray \cup {<<j.order, Wanted(j)>>}
  /\ sweep' \in IF h = Worker THEN {sweep, NoSweep} ELSE {sweep}
  /\ UNCHANGED <<Rows, refused, now>>

\* A query of the poll itself fails, or the process stops: the rest is left to
\* the next poll.
LoseSweep ==
  /\ sweep # NoSweep /\ At(Worker, "idle")
  /\ sweep' = NoSweep
  /\ UNCHANGED <<Rows, job, refused, stray, now>>

Tick ==
  /\ now < MaxTime
  /\ now' = now + 1
  /\ UNCHANGED <<Rows, job, sweep, refused, stray>>

--------------------------------------------------------------------------------
\* A checkout that does not learn that its order is saved releases the stock
\* (Checkout!SaveOrder).
Init ==
  /\ orders = [o \in Orders |-> "CREATED"]
  /\ stock \in [Orders -> {"ACTIVE", "RELEASED"}]
  /\ loyalty \in [Orders -> {"NONE", "ACTIVE"}]
  /\ redeemed = {}
  /\ payments = [k \in Keys |-> None]
  /\ job = [h \in Handlers |-> Idle]
  /\ sweep = NoSweep
  /\ refused = {}
  /\ stray = {}
  /\ now = 0

Step(h) ==
  \/ SettleStock(h)
  \/ FindLoyalty(h)
  \/ PrepareLoyalty(h)
  \/ RedeemPoints(h)
  \/ FreePoints(h)
  \/ FindAttempt(h)
  \/ MarkAsPaid(h)
  \/ Complete(h)
  \/ SaveOrder(h)
  \/ Fail(h)

Poll ==
  \/ Sweep
  \/ \E o \in Orders : ExpireOrder(o) \/ ExpireLoyalty(o)
  \/ FindUnused
  \/ EndSweep
  \/ LoseSweep

Next ==
  \/ \E h \in Requests, o \in Orders :
       \/ \E k \in Keys : Pay(h, o, k)
       \/ Cancel(h, o)
       \/ \E to \in Fulfilment : Advance(h, o, to)
  \/ \E h \in Handlers : Step(h)
  \/ Poll
  \/ \E o \in Orders :
       \/ StockExpires(o) \/ CatalogChanges(o)
       \/ ServeStray(o, "CONFIRMED") \/ ServeStray(o, "RELEASED")
  \/ Tick

Spec == Init /\ [][Next]_vars

\* The worker's timer keeps firing, and a step that it tries for an order again
\* and again is not lost to an error or a crash every time.  A settlement that
\* is refused is a step as well, and ends the order's turn.  Requests get no
\* fairness.
For(o, A) == A /\ job[Worker].order = o

Fairness ==
  /\ WF_vars(Sweep)
  /\ SF_vars(FindUnused)
  /\ WF_vars(EndSweep)
  /\ \A o \in Orders :
       /\ SF_vars(ExpireOrder(o))
       /\ SF_vars(For(o, SettleStock(Worker)))
       /\ SF_vars(For(o, FindLoyalty(Worker)))
       /\ SF_vars(For(o, PrepareLoyalty(Worker)))
       /\ SF_vars(For(o, FreePoints(Worker)))
       /\ SF_vars(For(o, SaveOrder(Worker)))
       /\ SF_vars(ExpireLoyalty(o))

FairSpec == Spec /\ Fairness

--------------------------------------------------------------------------------
(* Properties *)

TypeOK ==
  /\ orders \in [Orders -> OrderStatuses]
  /\ stock \in [Orders -> {"ACTIVE", "CONFIRMED", "RELEASED", "EXPIRED"}]
  /\ loyalty \in [Orders -> {"NONE", "ACTIVE", "CONSUMED", "RELEASED", "EXPIRED"}]
  /\ redeemed \subseteq Orders
  /\ payments \in [Keys -> Orders \cup {None}]
  /\ job \in [Handlers -> {Idle} \cup Payment \cup Closing \cup Advancing]
  /\ sweep \in [phase : {"none", "orders", "loyalty"}, due : SUBSET Orders, at : Nat]
  /\ refused \subseteq Orders
  /\ stray \subseteq Orders \X {"CONFIRMED", "RELEASED"}
  /\ now \in Nat

\* An order that is paid for has its stock, whatever cancels or expires it in
\* the meantime (PayOrderUseCase against CancelOrderUseCase, ExpireOrderUseCase
\* and the expiration worker of products-service).
PaidOrderHasStock == \A o \in Orders : orders[o] \in Fulfilment => stock[o] = "CONFIRMED"

\* An order that is cancelled or expired has given its stock back: no unit stays
\* sold to an order that nobody pays.
ClosedOrderReturnsStock ==
  \A o \in Orders : orders[o] \in Closed => stock[o] \in {"RELEASED", "EXPIRED"}

\* However many requests pay an order, with however many keys, exactly one
\* payment is recorded for a paid order and none for any other
\* (PrismaPaymentAttemptRepository.complete).
OnePaymentPerOrder ==
  \A o \in Orders :
    Cardinality({k \in Keys : payments[k] = o}) = IF orders[o] \in Fulfilment THEN 1 ELSE 0

\* A customer who paid an order discounted by points has redeemed them, and one
\* whose order was closed has not.
DiscountIsRedeemed ==
  \A o \in Orders :
    /\ orders[o] \in Fulfilment => loyalty[o] = "NONE" \/ o \in redeemed
    /\ orders[o] \in Closed => o \notin redeemed

\* Once an order is paid no step closes it or has it await payment again, and
\* no closed order is ever paid.
PaidIsFinal ==
  [][\A o \in Orders :
       /\ orders[o] \in Fulfilment => orders'[o] \in Fulfilment
       /\ orders[o] \in Closed => orders'[o] \in Closed]_vars

\* An overdue order does not await payment for ever, unless a payment that was
\* never completed has its stock confirmed, or products-service refuses to
\* release its stock again and again (OrderExpirationWorker).
OverdueOrdersClose ==
  \A o \in Orders :
    (orders[o] = "CREATED" /\ Overdue(o, now))
      ~> (orders[o] # "CREATED" \/ stock[o] = "CONFIRMED" \/ o \in refused)

\* Points reserved for an order come back or are used up in the end
\* (ExpireLoyaltyReservationsUseCase).
PointsAreSettled ==
  \A o \in Orders : (loyalty[o] = "ACTIVE" /\ Overdue(o, now)) ~> (loyalty[o] # "ACTIVE")
================================================================================
