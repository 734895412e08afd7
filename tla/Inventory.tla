-------------------------------- MODULE Inventory --------------------------------
(***************************************************************************)
(* The inventory reservations of products-service: the use cases that      *)
(* reserve, confirm and release the stock of an order, and the worker that *)
(* expires overdue reservations.  Every one of them runs the same three    *)
(* steps, each its own database access, so any number of them interleave:  *)
(*                                                                         *)
(*   look the order's reservation up (Reserve, Confirm, Release, Poll),    *)
(*   read the variants and compute their new counters (Snapshot),          *)
(*   commit both in one serializable transaction that compares every value *)
(*   read before with the value stored now (Commit).                       *)
(*                                                                         *)
(* An early return with an error changes nothing, so it is a stuttering    *)
(* step and has no action of its own.  Catalogue edits by an administrator *)
(* are in ProductCatalog.tla, which extends this module.                   *)
(***************************************************************************)
EXTENDS Naturals, FiniteSets

CONSTANTS
  Variants, Products,   \* product variants and the products they belong to
  ProductOf,            \* [Variants -> Products]
  Orders,               \* order ids, one reservation each
  Prices,               \* unit prices
  MaxQuantity,          \* the largest quantity of a line
  Baskets,              \* the lines that callers ask for
  InitialRows,          \* [Variants -> Row], the catalogue at the start
  InitiallyListed,      \* the variants that have a row at the start
  Requests,             \* slots for HTTP requests served at the same time
  Worker,               \* the InventoryReservationExpirationWorker
  TTL,                  \* INVENTORY_RESERVATION_TTL_MS
  BatchLimit,           \* how many reservations one poll reads (100 in the code)
  MaxTime               \* bound on the clock

VARIABLES
  rows,          \* table ProductVariant: [stock, reserved, price] of each variant
  listed,        \* the variants that have a row in that table
  deleted,       \* the products whose deletedAt is set
  reservations,  \* table InventoryReservation with its lines
  task,          \* what each handler has in memory between two awaits
  batch,         \* orders the worker read in its poll and has yet to handle
  announced,     \* the rows carried by the last PRODUCT_UPDATED put in the outbox
  promised,      \* [Orders -> SUBSET Statuses], what successful answers have said
  now            \* the clock

vars == <<rows, listed, deleted, reservations, task, batch, announced, promised, now>>

\* What the counters of the rows stand for.
Ledger == INSTANCE StockLedger
            WITH ledger <- reservations, Stock <- [v \in Variants |-> InitialRows[v].stock]

Line == Ledger!Line
Lines == Ledger!Lines
Absent == Ledger!Absent

Row == [stock : Nat, reserved : Nat, price : Prices]

ASSUME InventoryAssumption ==
  /\ IsFiniteSet(Orders) /\ IsFiniteSet(Variants)
  /\ MaxQuantity \in Nat /\ TTL \in Nat \ {0} /\ BatchLimit \in Nat \ {0} /\ MaxTime \in Nat
  /\ Baskets \subseteq Lines
  /\ ProductOf \in [Variants -> Products]
  /\ InitialRows \in [Variants -> Row]
  /\ \A v \in Variants : InitialRows[v].reserved = 0
  /\ InitiallyListed \subseteq Variants
  /\ Worker \notin Requests

Handlers == Requests \cup {Worker}

--------------------------------------------------------------------------------
(* The domain entities *)

Exists(o) == reservations[o].status # "ABSENT"

Matches(o, lines) == reservations[o].lines = lines

\* Faulty variant of IsExpired: one tick early.
IsExpiredEarly(o, at) == at + 1 >= reservations[o].expiresAt

IsExpired(o, at) == at >= reservations[o].expiresAt

Available(row) == row.stock - row.reserved

\* Faulty variants of Allowed: no check, and the wrong counter for a release.
AllowedUnchecked(to, row, quantity) == TRUE
AllowedByAvailable(to, row, quantity) == quantity <= Available(row)

\* ProductVariant.reserve, confirmReservation or releaseReservation may run,
\* by the status the reservation is to get.
Allowed(to, row, quantity) ==
  IF to = "ACTIVE" THEN quantity <= Available(row) ELSE quantity <= row.reserved

\* The counters it returns.
After(to, row, quantity) ==
  CASE to = "ACTIVE"    -> [row EXCEPT !.reserved = @ + quantity]
    [] to = "CONFIRMED" -> [row EXCEPT !.stock = @ - quantity, !.reserved = @ - quantity]
    [] OTHER            -> [row EXCEPT !.reserved = @ - quantity]

--------------------------------------------------------------------------------
(* A handler between two awaits *)

Idle == [step |-> "idle"]

\* The InventoryCommit a use case builds up: the status it found the order's
\* reservation in, the one it is to get, and the variants it read.
Task ==
  [step : {"snapshot", "commit"}, order : Orders,
   from : {"ABSENT", "ACTIVE"}, to : {"ACTIVE", "CONFIRMED", "RELEASED", "EXPIRED"},
   lines : Lines, expiresAt : Nat, before : [Variants -> Row]]

Transition(o, to) ==
  [step |-> "snapshot", order |-> o, from |-> "ACTIVE", to |-> to,
   lines |-> reservations[o].lines, expiresAt |-> reservations[o].expiresAt,
   before |-> InitialRows]

Finish(h) == task' = [task EXCEPT ![h] = Idle]

Promise(o, status) == promised' = [promised EXCEPT ![o] = @ \cup {status}]

--------------------------------------------------------------------------------
(* The first step: look the reservation up *)

\* POST reserve, for an order that has no reservation yet.
Reserve(h, o, lines) ==
  /\ h \in Requests /\ task[h] = Idle
  /\ ~Exists(o)
  /\ task' = [task EXCEPT ![h] =
                [step |-> "snapshot", order |-> o, from |-> "ABSENT", to |-> "ACTIVE",
                 lines |-> lines, expiresAt |-> now + TTL, before |-> InitialRows]]
  /\ UNCHANGED <<rows, listed, deleted, reservations, batch, announced, promised, now>>

\* POST reserve again with the same lines: the existing reservation is returned.
ReplayReserve(h, o, lines) ==
  /\ h \in Requests /\ task[h] = Idle
  /\ reservations[o].status \in {"ACTIVE", "CONFIRMED"} /\ Matches(o, lines)
  /\ Promise(o, "ACTIVE")
  /\ UNCHANGED <<rows, listed, deleted, reservations, task, batch, announced, now>>

\* POST confirm.  An overdue reservation is expired on the way, and the caller
\* is told RESERVATION_EXPIRED.
Confirm(h, o) ==
  /\ h \in Requests /\ task[h] = Idle
  /\ \/ /\ reservations[o].status = "ACTIVE"
        /\ task' = [task EXCEPT ![h] =
                      Transition(o, IF IsExpired(o, now) THEN "EXPIRED" ELSE "CONFIRMED")]
        /\ UNCHANGED promised
     \/ /\ reservations[o].status = "CONFIRMED"
        /\ Promise(o, "CONFIRMED")
        /\ UNCHANGED task
  /\ UNCHANGED <<rows, listed, deleted, reservations, batch, announced, now>>

\* POST release.
Release(h, o) ==
  /\ h \in Requests /\ task[h] = Idle
  /\ \/ /\ reservations[o].status = "ACTIVE"
        /\ task' = [task EXCEPT ![h] = Transition(o, "RELEASED")]
        /\ UNCHANGED promised
     \/ /\ reservations[o].status \in {"RELEASED", "EXPIRED"}
        /\ Promise(o, "RELEASED")
        /\ UNCHANGED task
  /\ UNCHANGED <<rows, listed, deleted, reservations, batch, announced, now>>

Due == {o \in Orders : reservations[o].status = "ACTIVE" /\ IsExpired(o, now)}

\* S is the BatchLimit reservations of T with the earliest deadlines.
Earliest(S, T) ==
  /\ S \subseteq T
  /\ Cardinality(S) <= BatchLimit
  /\ S # T => Cardinality(S) = BatchLimit
  /\ \A o \in S, p \in T \ S : reservations[o].expiresAt <= reservations[p].expiresAt

\* The worker's timer fires while no poll is running (its polling flag).
Poll ==
  /\ task[Worker] = Idle /\ batch = {}
  /\ Due # {}
  /\ batch' \in {S \in SUBSET Due : Earliest(S, Due)}
  /\ UNCHANGED <<rows, listed, deleted, reservations, task, announced, promised, now>>

\* The loop body starts on the next reservation of the batch.  What the poll
\* read of it, its lines and deadline, never changes afterwards.
ExpireNext(o) ==
  /\ task[Worker] = Idle /\ o \in batch
  /\ \A p \in batch : reservations[o].expiresAt <= reservations[p].expiresAt
  /\ task' = [task EXCEPT ![Worker] = Transition(o, "EXPIRED")]
  /\ batch' = batch \ {o}
  /\ UNCHANGED <<rows, listed, deleted, reservations, announced, promised, now>>

--------------------------------------------------------------------------------
(* The second step: read the variants *)

Offered(v) == v \in listed /\ ProductOf[v] \notin deleted

\* Every line still names an offered variant at the price the caller accepted.
CatalogMatches(lines) ==
  \A v \in DOMAIN lines : Offered(v) /\ rows[v].price = lines[v].price

\* The variants of the lines as they are now; the others are not looked at.
ReadRows(lines) == [v \in Variants |-> IF v \in DOMAIN lines THEN rows[v] ELSE InitialRows[v]]

\* buildVariantChanges answers with the changes, or with an error code.
Snapshot(h) ==
  LET t == task[h] IN
  /\ t # Idle /\ t.step = "snapshot"
  /\ IF CatalogMatches(t.lines)
          /\ \A v \in DOMAIN t.lines : Allowed(t.to, rows[v], t.lines[v].quantity)
     THEN task' = [task EXCEPT ![h].step = "commit", ![h].before = ReadRows(t.lines)]
     ELSE Finish(h)
  /\ UNCHANGED <<rows, listed, deleted, reservations, batch, announced, promised, now>>

--------------------------------------------------------------------------------
(* The third step: the serializable transaction *)

\* An equivalent commit went first.
IsReplay(t) ==
  Exists(t.order) /\ Matches(t.order, t.lines) /\ reservations[t.order].status = t.to

\* Faulty variant of SameReservation: the status is not in the WHERE.
SameReservationAnyStatus(t) == Exists(t.order) => Matches(t.order, t.lines)

\* The reservation is as the use case found it.
SameReservation(t) ==
  /\ reservations[t.order].status = t.from
  /\ Exists(t.order) => Matches(t.order, t.lines)

\* Faulty variant of SameRows: the counters are not in the WHERE.
SameRowsUnchecked(t) == TRUE

\* The counters are as the use case read them: the WHERE of each updateMany.
SameRows(t) ==
  \A v \in DOMAIN t.lines :
    rows[v].stock = t.before[v].stock /\ rows[v].reserved = t.before[v].reserved

\* Faulty variant of CanApply: the catalogue was checked before the transaction.
CanApplyOldCatalog(t) == SameReservation(t) /\ SameRows(t)

CanApply(t) == SameReservation(t) /\ CatalogMatches(t.lines) /\ SameRows(t)

\* The rows after the transaction: the counters come from memory.
NewRows(t) ==
  [v \in Variants |->
     IF v \in DOMAIN t.lines
     THEN After(t.to, t.before[v], t.lines[v].quantity)
     ELSE rows[v]]

\* Faulty variant of Announce: the product is read before it is updated.
AnnounceBeforeUpdate(t) ==
  announced' = [v \in Variants |->
                  IF \E w \in DOMAIN t.lines : ProductOf[w] = ProductOf[v]
                  THEN rows[v] ELSE announced[v]]

\* enqueueChangedProducts writes every variant of the products concerned.
Announce(t) ==
  announced' = [v \in Variants |->
                  IF \E w \in DOMAIN t.lines : ProductOf[w] = ProductOf[v]
                  THEN rows'[v] ELSE announced[v]]

Apply(t) ==
  /\ CanApply(t)
  /\ rows' = NewRows(t)
  /\ reservations' = [reservations EXCEPT ![t.order] =
                        [status |-> t.to, lines |-> t.lines, expiresAt |-> t.expiresAt]]
  /\ Announce(t)

\* Only an HTTP caller gets an answer, and an overdue confirm gets an error.
Answer(h, t) ==
  IF h \in Requests /\ t.to # "EXPIRED" THEN Promise(t.order, t.to) ELSE UNCHANGED promised

Commit(h) ==
  LET t == task[h] IN
  /\ t # Idle /\ t.step = "commit"
  /\ \/ IsReplay(t) /\ Answer(h, t) /\ UNCHANGED <<rows, reservations, announced>>
     \/ ~IsReplay(t) /\ Apply(t) /\ Answer(h, t)
     \/ ~IsReplay(t) /\ ~CanApply(t)
          /\ UNCHANGED <<rows, reservations, announced, promised>>
  /\ Finish(h)
  /\ UNCHANGED <<listed, deleted, batch, now>>

\* PostgreSQL aborts the transaction (P2034), a query throws, or the process
\* stops: the handler ends without an effect.  The worker loses its batch,
\* unless it was the abort, which commit answers with CONFLICT.
Fail(h) ==
  /\ task[h] # Idle
  /\ Finish(h)
  /\ \/ h = Worker /\ batch' = {}
     \/ (h = Worker => task[h].step = "commit") /\ UNCHANGED batch
  /\ UNCHANGED <<rows, listed, deleted, reservations, announced, promised, now>>

Tick ==
  /\ now < MaxTime
  /\ now' = now + 1
  /\ UNCHANGED <<rows, listed, deleted, reservations, task, batch, announced, promised>>

--------------------------------------------------------------------------------
Init ==
  /\ rows = InitialRows /\ listed = InitiallyListed /\ deleted = {}
  /\ reservations = [o \in Orders |-> Absent]
  /\ task = [h \in Handlers |-> Idle]
  /\ batch = {}
  /\ announced = InitialRows
  /\ promised = [o \in Orders |-> {}]
  /\ now = 0

Lookup(h, o) ==
  \/ \E lines \in Baskets : Reserve(h, o, lines) \/ ReplayReserve(h, o, lines)
  \/ Confirm(h, o)
  \/ Release(h, o)

Next ==
  \/ \E h \in Requests, o \in Orders : Lookup(h, o)
  \/ Poll
  \/ \E o \in Orders : ExpireNext(o)
  \/ \E h \in Handlers : Snapshot(h) \/ Commit(h) \/ Fail(h)
  \/ Tick

Spec == Init /\ [][Next]_vars

--------------------------------------------------------------------------------
(* Properties *)

TypeOK ==
  /\ rows \in [Variants -> Row] /\ announced \in [Variants -> Row]
  /\ listed \subseteq Variants /\ deleted \subseteq Products
  /\ reservations \in [Orders -> Ledger!Reservation]
  /\ task \in [Handlers -> {Idle} \cup Task]
  /\ batch \subseteq Orders
  /\ promised \in [Orders -> SUBSET Ledger!Statuses]
  /\ now \in Nat

\* The reserved stock of a variant is exactly what the active reservations of
\* its orders ask for, and its physical stock has dropped by exactly what the
\* confirmed ones asked for: no interleaving of reads and commits loses or
\* repeats a change (ReserveInventoryUseCase, ConfirmInventoryReservationUseCase,
\* ReleaseInventoryReservationUseCase, ExpireInventoryReservationsUseCase).
Conservation ==
  \A v \in Variants :
    /\ rows[v].reserved = Ledger!Held(v)
    /\ rows[v].stock + Ledger!Sold(v) = InitialRows[v].stock

\* A caller that was told its reservation is confirmed never finds it given
\* back, and one that was told it is released never finds it sold.
PromisesKept ==
  \A o \in Orders :
    /\ "CONFIRMED" \in promised[o] => reservations[o].status = "CONFIRMED"
    /\ "RELEASED" \in promised[o] => reservations[o].status \in {"RELEASED", "EXPIRED"}
    /\ "ACTIVE" \in promised[o] => Exists(o)

\* The last product event in the outbox carries the counters of the table:
\* no commit leaves the read models behind (enqueueChangedProducts).
OutboxCarriesRows == \A v \in Variants : Offered(v) => announced[v] = rows[v]

\* The service implements the promise of StockLedger, so it never oversells, a
\* reservation is settled once, and only an overdue one expires.
ImplementsLedger == Ledger!Spec

================================================================================
