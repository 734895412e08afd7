------------------------------ MODULE InventoryProofs ------------------------------
(***************************************************************************)
(* Theorems about Inventory.tla, and about ProductCatalog.tla which adds   *)
(* the edits of administrators to it, for every value of their constants:  *)
(* the types, the safety properties that the runs check, and that the      *)
(* inventory by itself implements StockLedger.                             *)
(*                                                                         *)
(* The heart of the argument is Conservation, which counts the units of    *)
(* all reservations in a status.  A commit changes one reservation, so     *)
(* CountMoves says what becomes of the two counts concerned, and the       *)
(* compare-and-swap in CanApply says that the counters move by as much.    *)
(* TaskOK says what a handler may rely on of the things it read earlier.   *)
(* An edit overwrites counters, so next to edits only the Core of the      *)
(* invariant is left: every step of the reservations keeps it by itself.   *)
(***************************************************************************)
EXTENDS ProductCatalog, FiniteSetTheorems, TLAPS

--------------------------------------------------------------------------------
(* Counting the units of a function r from orders to reservations *)

Having(r, s) == {o \in Orders : r[o].status = s}

UnitsOf(r, S, v) ==
  {u \in S \X (1..MaxQuantity) :
     v \in DOMAIN r[u[1]].lines /\ u[2] <= r[u[1]].lines[v].quantity}

Count(r, s, v) == Cardinality(UnitsOf(r, Having(r, s), v))

Quantity(lines, v) == IF v \in DOMAIN lines THEN lines[v].quantity ELSE 0

\* There are finitely many units of a variant in a set of reservations.
LEMMA UnitsFinite ==
  ASSUME NEW r, NEW S \in SUBSET Orders, NEW v
  PROVE  IsFiniteSet(UnitsOf(r, S, v))
<1>1. IsFiniteSet(S)
  BY FS_Subset, InventoryAssumption
<1>2. IsFiniteSet(1..MaxQuantity)
  BY FS_Interval, InventoryAssumption
<1>3. IsFiniteSet(S \X (1..MaxQuantity))
  BY <1>1, <1>2, FS_Product
<1>4. UnitsOf(r, S, v) \in SUBSET (S \X (1..MaxQuantity))
  BY DEF UnitsOf
<1> QED
  BY <1>3, <1>4, FS_Subset

\* The units of a variant in one reservation are as many as its line asks for.
LEMMA UnitsOfOne ==
  ASSUME NEW r, NEW o \in Orders, NEW v, r[o].lines \in Lines \cup {Ledger!NoLines}
  PROVE  Cardinality(UnitsOf(r, {o}, v)) = Quantity(r[o].lines, v)
<1> DEFINE q == Quantity(r[o].lines, v)
<1>1. q \in 0..MaxQuantity
  BY InventoryAssumption DEF Quantity, Lines, Ledger!Lines, Ledger!Line, Ledger!NoLines
<1>2. UnitsOf(r, {o}, v) = {o} \X (1..q)
  <2>1. CASE v \in DOMAIN r[o].lines
    BY <1>1, <2>1, InventoryAssumption DEF UnitsOf, Quantity
  <2>2. CASE v \notin DOMAIN r[o].lines
    BY <1>1, <2>2, InventoryAssumption DEF UnitsOf, Quantity
  <2> QED BY <2>1, <2>2
<1>3. IsFiniteSet({o}) /\ Cardinality({o}) = 1
  BY FS_Singleton
<1>4. IsFiniteSet(1..q) /\ Cardinality(1..q) = q
  BY <1>1, FS_Interval, InventoryAssumption
<1>5. Cardinality(UnitsOf(r, {o}, v)) = 1 * q
  <2>1. Cardinality({o} \X (1..q)) = Cardinality({o}) * Cardinality(1..q)
    BY <1>3, <1>4, FS_Product
  <2> HIDE DEF q
  <2> QED BY <1>2, <1>3, <1>4, <2>1
<1>6. q \in Nat
  BY <1>1, InventoryAssumption
<1> QED
  BY <1>5, <1>6

\* r and r2 differ in the reservation of o only.
Differ(r, r2, o) == \A p \in Orders \ {o} : r2[p] = r[p]

\* When only the reservation of o changes and leaves status s, the count of s
\* drops by what its line asks for.
LEMMA CountDrops ==
  ASSUME NEW r, NEW r2, NEW o \in Orders, NEW s, NEW v,
         r[o].lines \in Lines \cup {Ledger!NoLines},
         r[o].status = s, r2[o].status # s,
         Differ(r, r2, o)
  PROVE  /\ Count(r, s, v) = Count(r2, s, v) + Quantity(r[o].lines, v)
         /\ Count(r2, s, v) \in Nat
<1> DEFINE A == UnitsOf(r, Having(r, s), v)
           B == UnitsOf(r2, Having(r2, s), v)
           C == UnitsOf(r, {o}, v)
<1>1. A = B \cup C /\ B \cap C = {}
  BY DEF UnitsOf, Having, Differ
<1>2. IsFiniteSet(B) /\ IsFiniteSet(C)
  BY UnitsFinite DEF Having
<1>3. Cardinality(A) = Cardinality(B) + Cardinality(C) - Cardinality(B \cap C)
  BY <1>1, <1>2, FS_Union
<1>4. Cardinality(B \cap C) = 0
  BY <1>1, FS_EmptySet
<1>5. Cardinality(B) \in Nat /\ Cardinality(C) \in Nat
  BY <1>2, FS_CardinalityType
<1>6. Cardinality(C) = Quantity(r[o].lines, v)
  BY UnitsOfOne
<1> QED
  BY <1>3, <1>4, <1>5, <1>6 DEF Count

\* When only the reservation of o changes and enters status s, the count of s
\* rises by what its line asks for.
LEMMA CountRises ==
  ASSUME NEW r, NEW r2, NEW o \in Orders, NEW s, NEW v,
         r2[o].lines \in Lines \cup {Ledger!NoLines},
         r[o].status # s, r2[o].status = s,
         Differ(r, r2, o)
  PROVE  /\ Count(r2, s, v) = Count(r, s, v) + Quantity(r2[o].lines, v)
         /\ Count(r, s, v) \in Nat
<1>1. Differ(r2, r, o)
  BY DEF Differ
<1> QED
  BY <1>1, CountDrops

\* When only the reservation of o changes, and it has status s neither before
\* nor after, the count of s is the same.
LEMMA CountStays ==
  ASSUME NEW r, NEW r2, NEW o \in Orders, NEW s, NEW v,
         r[o].status # s, r2[o].status # s,
         Differ(r, r2, o)
  PROVE  Count(r2, s, v) = Count(r, s, v)
<1>1. UnitsOf(r2, Having(r2, s), v) = UnitsOf(r, Having(r, s), v)
  BY DEF UnitsOf, Having, Differ
<1> QED
  BY <1>1 DEF Count

\* The count of a status before (r) and after (r2) the reservation of o gets
\* another one: its units leave the one status and enter the other.
LEMMA CountMoves ==
  ASSUME NEW r, NEW r2, NEW o \in Orders, NEW s, NEW v, NEW lines \in Lines,
         Differ(r, r2, o),
         r2[o].lines = lines, r[o].status = s => r[o].lines = lines,
         r[o].status # r2[o].status
  PROVE  /\ Count(r2, s, v) + (IF r[o].status = s THEN Quantity(lines, v) ELSE 0)
              = Count(r, s, v) + (IF r2[o].status = s THEN Quantity(lines, v) ELSE 0)
         /\ Count(r, s, v) \in Nat /\ Count(r2, s, v) \in Nat
<1>1. Count(r, s, v) \in Nat /\ Count(r2, s, v) \in Nat
  <2>1. \A x : IsFiniteSet(UnitsOf(x, Having(x, s), v))
    BY UnitsFinite DEF Having
  <2> QED
    BY <2>1, FS_CardinalityType DEF Count
<1>2. CASE r[o].status = s
  <2>1. /\ r[o].lines = lines /\ r2[o].status # s
        /\ r[o].lines \in Lines \cup {Ledger!NoLines}
    BY <1>2
  <2>2. Count(r, s, v) = Count(r2, s, v) + Quantity(r[o].lines, v)
    BY <1>2, <2>1, CountDrops
  <2> QED
    BY <1>1, <1>2, <2>1, <2>2
<1>3. CASE r[o].status # s /\ r2[o].status = s
  <2>1. r2[o].lines \in Lines \cup {Ledger!NoLines}
    OBVIOUS
  <2>2. Count(r2, s, v) = Count(r, s, v) + Quantity(r2[o].lines, v)
    BY <1>3, <2>1, CountRises
  <2> QED
    BY <1>1, <1>3, <2>2
<1>4. CASE r[o].status # s /\ r2[o].status # s
  <2>1. Count(r2, s, v) = Count(r, s, v)
    BY <1>4, CountStays
  <2> QED
    BY <1>1, <1>4, <2>1
<1> QED
  BY <1>1, <1>2, <1>3, <1>4

\* The counts of the ledger are those counted here.
LEMMA LedgerCounts ==
  /\ \A v : Ledger!Held(v) = Count(reservations, "ACTIVE", v)
  /\ \A v : Ledger!Sold(v) = Count(reservations, "CONFIRMED", v)
<1>1. \A s : Ledger!InStatus(s) = Having(reservations, s)
  BY DEF Ledger!InStatus, Having
<1>2. \A S, v : Ledger!Units(S, v) = UnitsOf(reservations, S, v)
  BY DEF Ledger!Units, UnitsOf
<1>3. \A S : Ledger!Cardinality(S) = Cardinality(S)
  BY DEF Ledger!Cardinality, Cardinality
<1> QED
  BY <1>1, <1>2, <1>3 DEF Ledger!Held, Ledger!Sold, Count

\* The same for the next state.
LEMMA LedgerCountsNext ==
  /\ \A v : Ledger!Held(v)' = Count(reservations', "ACTIVE", v)
  /\ \A v : Ledger!Sold(v)' = Count(reservations', "CONFIRMED", v)
<1>1. \A s : Ledger!InStatus(s)' = Having(reservations', s)
  BY DEF Ledger!InStatus, Having
<1>2. \A S, v : Ledger!Units(S, v)' = UnitsOf(reservations', S, v)
  BY DEF Ledger!Units, UnitsOf
<1>3. \A S : Ledger!Cardinality(S) = Cardinality(S)
  BY DEF Ledger!Cardinality, Cardinality
<1> QED
  BY <1>1, <1>2, <1>3 DEF Ledger!Held, Ledger!Sold, Count

--------------------------------------------------------------------------------
(* The inductive invariant *)

RowsOK == \A v \in Variants : rows[v].reserved <= rows[v].stock

ReservationsOK ==
  \A o \in Orders :
    IF Exists(o) THEN reservations[o].lines \in Lines ELSE reservations[o] = Absent

\* The task t fits the reservations r at time n.
TaskOK(t, r, n) ==
  /\ t.from = "ABSENT" <=> t.to = "ACTIVE"
  /\ t.from = "ABSENT" => \E at \in 0..n : t.expiresAt = at + TTL
  /\ t.from = "ACTIVE" => /\ r[t.order].status # "ABSENT"
                          /\ r[t.order].lines = t.lines
                          /\ r[t.order].expiresAt = t.expiresAt
  /\ t.to = "EXPIRED" => n >= t.expiresAt
  /\ t.step = "commit" =>
       \A v \in DOMAIN t.lines :
         /\ t.before[v].reserved <= t.before[v].stock
         /\ Allowed(t.to, t.before[v], t.lines[v].quantity)

TasksOK == \A h \in Handlers : task[h] # Idle => TaskOK(task[h], reservations, now)

BatchOK == \A o \in batch : Exists(o) /\ IsExpired(o, now)

\* The outbox tells the read models what the table says.
Announced == \A v \in Variants : announced[v] = rows[v]

\* What holds whatever else writes to the table of variants ...
Core == TypeOK /\ RowsOK /\ ReservationsOK /\ TasksOK /\ BatchOK /\ PromisesKept

\* ... and what holds as long as nothing else does.
Inductive == Core /\ Conservation /\ Announced

\* The invariant holds at the start.
LEMMA InductiveInit == Init => Inductive
<1> SUFFICES ASSUME Init PROVE Inductive
  OBVIOUS
<1> USE InventoryAssumption DEF Init
<1>1. \A v \in Variants : InitialRows[v] \in Row
  OBVIOUS
<1>2. Absent \in Ledger!Reservation
  BY DEF Absent, Ledger!Absent, Ledger!Reservation, Ledger!Statuses
<1>3. TypeOK
  BY <1>1, <1>2 DEF TypeOK, Ledger!Statuses
<1>4. RowsOK
  BY <1>1 DEF RowsOK, Row
<1>5. ReservationsOK
  BY DEF ReservationsOK, Exists, Absent, Ledger!Absent
<1>6. TasksOK /\ BatchOK /\ PromisesKept /\ Announced
  BY DEF TasksOK, BatchOK, PromisesKept, Announced
<1>7. Conservation
  <2>1. \A o \in Orders : reservations[o].status = "ABSENT"
    BY DEF Absent, Ledger!Absent
  <2>2. \A v : Ledger!Held(v) = 0 /\ Ledger!Sold(v) = 0
    <3>1. \A v, s : s # "ABSENT" => UnitsOf(reservations, Having(reservations, s), v) = {}
      BY <2>1 DEF UnitsOf, Having
    <3> QED
      BY <3>1, LedgerCounts, FS_EmptySet DEF Count
  <2> QED
    BY <1>1, <2>2 DEF Conservation, Row
<1> QED
  BY <1>3, <1>4, <1>5, <1>6, <1>7 DEF Inductive, Core

--------------------------------------------------------------------------------
(* What every step preserves *)

\* A step neither drops a reservation, nor changes what it is for, nor touches
\* one that has been settled.
Persist ==
  \A o \in Orders :
    /\ Exists(o) => /\ reservations'[o].status # "ABSENT"
                    /\ reservations'[o].lines = reservations[o].lines
                    /\ reservations'[o].expiresAt = reservations[o].expiresAt
    /\ reservations[o].status \in {"CONFIRMED", "RELEASED", "EXPIRED"}
         => reservations'[o].status = reservations[o].status

\* What a handler knows of its reservation outlives the steps of the others.
LEMMA TaskPersists ==
  ASSUME Persist, now \in Nat, now' \in {now, now + 1}, NEW t \in Task, TaskOK(t, reservations, now)
  PROVE  TaskOK(t, reservations', now')
<1>1. t.order \in Orders /\ t.expiresAt \in Nat
  BY DEF Task
<1>2. t.from = "ACTIVE" => /\ reservations'[t.order].status # "ABSENT"
                           /\ reservations'[t.order].lines = t.lines
                           /\ reservations'[t.order].expiresAt = t.expiresAt
  BY <1>1 DEF TaskOK, Persist, Exists
<1>3. t.from = "ABSENT" => \E at \in 0..now' : t.expiresAt = at + TTL
  BY DEF TaskOK
<1>4. t.to = "EXPIRED" => now' >= t.expiresAt
  BY <1>1 DEF TaskOK
<1> QED
  BY <1>2, <1>3, <1>4 DEF TaskOK

\* The reservations the worker has yet to handle exist and stay overdue.
LEMMA BatchPersists ==
  ASSUME Persist, TypeOK, BatchOK, now' \in {now, now + 1}, batch' \subseteq batch
  PROVE  BatchOK'
<1> SUFFICES ASSUME NEW o \in batch' PROVE Exists(o)' /\ IsExpired(o, now)'
  BY DEF BatchOK
<1>1. o \in Orders /\ Exists(o) /\ now >= reservations[o].expiresAt
  BY DEF TypeOK, BatchOK, IsExpired
<1>2. reservations[o].expiresAt \in Nat /\ now \in Nat
  BY <1>1 DEF TypeOK, Ledger!Reservation
<1> QED
  BY <1>1, <1>2 DEF Persist, Exists, IsExpired

\* Answers given earlier stay true.
LEMMA PromisesPersist ==
  ASSUME Persist, PromisesKept, UNCHANGED promised
  PROVE  PromisesKept'
BY DEF Persist, PromisesKept, Exists

\* A step that writes neither counters nor reservations keeps what relates them.
LEMMA StockPersists ==
  ASSUME RowsOK, ReservationsOK, UNCHANGED <<rows, reservations>>
  PROVE  RowsOK' /\ ReservationsOK' /\ Persist
BY DEF RowsOK, ReservationsOK, Persist, Exists

\* When one handler gets a task that fits, the tasks of all handlers fit.
LEMMA TaskChanges ==
  ASSUME TypeOK, TasksOK, Persist, now' \in {now, now + 1}, NEW h \in Handlers,
         NEW t \in Task \cup {Idle}, task' = [task EXCEPT ![h] = t],
         t # Idle => TaskOK(t, reservations', now')
  PROVE  task' \in [Handlers -> {Idle} \cup Task] /\ TasksOK'
<1>1. task' \in [Handlers -> {Idle} \cup Task]
  BY DEF TypeOK
<1>2. ASSUME NEW g \in Handlers, task'[g] # Idle PROVE TaskOK(task'[g], reservations', now')
  <2>1. CASE g = h
    BY <1>2, <2>1 DEF TypeOK
  <2>2. CASE g # h
    <3>1. task'[g] = task[g] /\ task[g] \in Task /\ TaskOK(task[g], reservations, now)
      BY <1>2, <2>2 DEF TypeOK, TasksOK
    <3>2. now \in Nat
      BY DEF TypeOK
    <3> QED
      BY <3>1, <3>2, TaskPersists
  <2> QED
    BY <2>1, <2>2
<1> QED
  BY <1>1, <1>2 DEF TasksOK

\* A step that leaves the handlers alone keeps their tasks fitting.
LEMMA TasksPersist ==
  ASSUME TypeOK, TasksOK, Persist, now' \in {now, now + 1}, UNCHANGED task
  PROVE  TasksOK'
<1> SUFFICES ASSUME NEW g \in Handlers, task[g] # Idle PROVE TaskOK(task[g], reservations', now')
  BY DEF TasksOK
<1>1. task[g] \in Task /\ TaskOK(task[g], reservations, now) /\ now \in Nat
  BY DEF TypeOK, TasksOK
<1> QED
  BY <1>1, TaskPersists

\* A handler that sets out to settle a reservation has a task that fits.
LEMMA TransitionOK ==
  ASSUME TypeOK, ReservationsOK, NEW o \in Orders, Exists(o),
         UNCHANGED <<reservations, now>>,
         NEW to \in {"CONFIRMED", "RELEASED", "EXPIRED"},
         to = "EXPIRED" => IsExpired(o, now)
  PROVE  Transition(o, to) \in Task /\ Transition(o, to) # Idle /\ TaskOK(Transition(o, to), reservations', now')
<1> DEFINE t == Transition(o, to)
<1>1. reservations[o].lines \in Lines /\ reservations[o].expiresAt \in Nat
  BY DEF TypeOK, ReservationsOK, Exists, Ledger!Reservation
<1>2. t \in Task
  BY <1>1, InventoryAssumption DEF Transition, Task
<1>3. /\ t.from = "ACTIVE" /\ t.to = to /\ t.order = o /\ t.step = "snapshot"
      /\ t.lines = reservations[o].lines /\ t.expiresAt = reservations[o].expiresAt
  BY DEF Transition
<1>4. TaskOK(t, reservations', now')
  <2> HIDE DEF t
  <2> QED
    BY <1>1, <1>3 DEF TaskOK, Exists, IsExpired
<1> QED
  BY <1>2, <1>3, <1>4 DEF Idle

\* A new request to reserve keeps the invariant.
LEMMA ReserveStep ==
  ASSUME Core, NEW h \in Requests, NEW o \in Orders, NEW lines \in Baskets,
         Reserve(h, o, lines)
  PROVE  Core'
<1> USE DEF Core
<1> DEFINE t == [step |-> "snapshot", order |-> o, from |-> "ABSENT", to |-> "ACTIVE",
                 lines |-> lines, expiresAt |-> now + TTL, before |-> InitialRows]
<1>1. UNCHANGED <<rows, listed, deleted, reservations, batch, announced, promised, now>>
      /\ task' = [task EXCEPT ![h] = t]
  BY DEF Reserve
<1>2. Persist /\ RowsOK' /\ ReservationsOK'
  BY <1>1, StockPersists
<1>3. t \in Task /\ now \in Nat
  BY InventoryAssumption DEF TypeOK, Task
<1>4. TaskOK(t, reservations', now')
  BY <1>1, <1>3 DEF TaskOK
<1>5. task' \in [Handlers -> {Idle} \cup Task] /\ TasksOK'
  <2> HIDE DEF t
  <2> QED BY <1>1, <1>2, <1>3, <1>4, TaskChanges DEF Handlers
<1>6. TypeOK'
  BY <1>1, <1>5 DEF TypeOK
<1>7. BatchOK' /\ PromisesKept'
  BY <1>1, <1>2, BatchPersists, PromisesPersist
<1> QED
  BY <1>2, <1>5, <1>6, <1>7

\* A handler sets out to settle a reservation.
LEMMA TransitionStep ==
  ASSUME Core, NEW h \in Handlers, NEW o \in Orders, Exists(o),
         NEW to \in {"CONFIRMED", "RELEASED", "EXPIRED"}, to = "EXPIRED" => IsExpired(o, now),
         task' = [task EXCEPT ![h] = Transition(o, to)], batch' \subseteq batch,
         UNCHANGED <<rows, listed, deleted, reservations, announced, promised, now>>
  PROVE  Core'
<1> USE DEF Core
<1>1. Persist /\ RowsOK' /\ ReservationsOK'
  BY StockPersists
<1>2. Transition(o, to) \in Task /\ TaskOK(Transition(o, to), reservations', now')
  BY TransitionOK
<1>3. task' \in [Handlers -> {Idle} \cup Task] /\ TasksOK'
  BY <1>1, <1>2, TaskChanges
<1>4. TypeOK'
  BY <1>3 DEF TypeOK
<1>5. BatchOK' /\ PromisesKept'
  BY <1>1, BatchPersists, PromisesPersist
<1> QED
  BY <1>1, <1>3, <1>4, <1>5

\* An answer that the stored reservation bears out.
LEMMA PromiseKept ==
  ASSUME TypeOK, PromisesKept, Persist,
         NEW o \in Orders, NEW status \in {"ACTIVE", "CONFIRMED", "RELEASED"},
         status = "ACTIVE" => reservations'[o].status # "ABSENT",
         status = "CONFIRMED" => reservations'[o].status = "CONFIRMED",
         status = "RELEASED" => reservations'[o].status \in {"RELEASED", "EXPIRED"},
         Promise(o, status)
  PROVE  PromisesKept' /\ promised' \in [Orders -> SUBSET Ledger!Statuses]
<1>1. promised' \in [Orders -> SUBSET Ledger!Statuses]
  BY DEF TypeOK, Promise, Ledger!Statuses
<1>2. ASSUME NEW p \in Orders
      PROVE  /\ "CONFIRMED" \in promised'[p] => reservations'[p].status = "CONFIRMED"
             /\ "RELEASED" \in promised'[p] => reservations'[p].status \in {"RELEASED", "EXPIRED"}
             /\ "ACTIVE" \in promised'[p] => reservations'[p].status # "ABSENT"
  <2>1. promised'[p] = IF p = o THEN promised[p] \cup {status} ELSE promised[p]
    BY DEF TypeOK, Promise
  <2> QED
    BY <2>1 DEF PromisesKept, Persist, Exists
<1> QED
  BY <1>1, <1>2 DEF PromisesKept, Exists

\* A handler answers about a reservation that is already as the caller wants it.
LEMMA AnswerStep ==
  ASSUME Core, NEW o \in Orders, NEW status \in {"ACTIVE", "CONFIRMED", "RELEASED"},
         status = "ACTIVE" => Exists(o),
         status = "CONFIRMED" => reservations[o].status = "CONFIRMED",
         status = "RELEASED" => reservations[o].status \in {"RELEASED", "EXPIRED"},
         Promise(o, status),
         UNCHANGED <<rows, listed, deleted, reservations, task, batch, announced, now>>
  PROVE  Core'
<1> USE DEF Core
<1>1. Persist /\ RowsOK' /\ ReservationsOK'
  BY StockPersists
<1>2. TasksOK' /\ BatchOK'
  BY <1>1, TasksPersist, BatchPersists
<1>3. PromisesKept' /\ promised' \in [Orders -> SUBSET Ledger!Statuses]
  BY <1>1, PromiseKept DEF Exists
<1>4. TypeOK'
  BY <1>3 DEF TypeOK
<1> QED
  BY <1>1, <1>2, <1>3, <1>4

\* The first step of every use case keeps the invariant.
LEMMA LookupStep ==
  ASSUME Core, NEW h \in Requests, NEW o \in Orders, Lookup(h, o)
  PROVE  Core'
<1>0. h \in Handlers
  BY DEF Handlers
<1>1. ASSUME NEW lines \in Baskets, Reserve(h, o, lines) PROVE Core'
  BY <1>1, ReserveStep
<1>2. ASSUME NEW lines \in Baskets, ReplayReserve(h, o, lines) PROVE Core'
  BY <1>2, AnswerStep DEF ReplayReserve, Exists
<1>3. CASE Confirm(h, o)
  <2>1. CASE reservations[o].status = "ACTIVE"
    <3>1. CASE IsExpired(o, now)
      BY <1>0, <1>3, <2>1, <3>1, TransitionStep DEF Confirm, Exists
    <3>2. CASE ~IsExpired(o, now)
      BY <1>0, <1>3, <2>1, <3>2, TransitionStep DEF Confirm, Exists
    <3> QED
      BY <3>1, <3>2
  <2>2. CASE reservations[o].status # "ACTIVE"
    BY <1>3, <2>2, AnswerStep DEF Confirm
  <2> QED
    BY <2>1, <2>2
<1>4. CASE Release(h, o)
  <2>1. CASE reservations[o].status = "ACTIVE"
    BY <1>0, <1>4, <2>1, TransitionStep DEF Release, Exists
  <2>2. CASE reservations[o].status # "ACTIVE"
    BY <1>4, <2>2, AnswerStep DEF Release
  <2> QED
    BY <2>1, <2>2
<1> QED
  BY <1>1, <1>2, <1>3, <1>4 DEF Lookup

\* The worker's poll keeps the invariant.
LEMMA PollStep ==
  ASSUME Core, Poll
  PROVE  Core'
<1> USE DEF Core
<1>1. UNCHANGED <<rows, listed, deleted, reservations, task, announced, promised, now>>
  BY DEF Poll
<1>2. Persist /\ RowsOK' /\ ReservationsOK'
  BY <1>1, StockPersists
<1>3. TasksOK' /\ PromisesKept'
  BY <1>1, <1>2, TasksPersist, PromisesPersist
<1>4. batch' \subseteq Due
  BY DEF Poll
<1>5. TypeOK'
  BY <1>1, <1>4 DEF TypeOK, Due
<1>6. BatchOK'
  BY <1>1, <1>4 DEF BatchOK, Due, Exists, IsExpired
<1> QED
  BY <1>2, <1>3, <1>5, <1>6

\* The worker taking its next reservation keeps the invariant.
LEMMA ExpireNextStep ==
  ASSUME Core, NEW o \in Orders, ExpireNext(o)
  PROVE  Core'
<1>1. Exists(o) /\ IsExpired(o, now)
  BY DEF ExpireNext, Core, BatchOK
<1> QED
  BY <1>1, TransitionStep DEF ExpireNext, Handlers

\* Reading the variants keeps the invariant: the handler remembers counters
\* that allow its change.
LEMMA SnapshotStep ==
  ASSUME Core, NEW h \in Handlers, Snapshot(h)
  PROVE  Core'
<1> USE DEF Core
<1> DEFINE t == task[h]
           u == [t EXCEPT !.step = "commit", !.before = ReadRows(t.lines)]
           passes == /\ CatalogMatches(t.lines)
                     /\ \A v \in DOMAIN t.lines : Allowed(t.to, rows[v], t.lines[v].quantity)
<1>1. t \in Task /\ t # Idle /\ TaskOK(t, reservations, now)
  BY DEF Snapshot, TypeOK, TasksOK
<1>2. UNCHANGED <<rows, listed, deleted, reservations, batch, announced, promised, now>>
  BY DEF Snapshot
<1>3. Persist /\ RowsOK' /\ ReservationsOK'
  BY <1>2, StockPersists
<1>4. BatchOK' /\ PromisesKept'
  BY <1>2, <1>3, BatchPersists, PromisesPersist
<1>5. task' \in [Handlers -> {Idle} \cup Task] /\ TasksOK'
  <2>1. CASE passes
    <3>1. task' = [task EXCEPT ![h] = u]
      BY <2>1 DEF Snapshot, TypeOK
    <3>2. \A v \in DOMAIN t.lines : v \in Variants /\ ReadRows(t.lines)[v] = rows[v]
      BY <1>1 DEF Task, Lines, Ledger!Lines, ReadRows
    <3>3. ReadRows(t.lines) \in [Variants -> Row]
      BY InventoryAssumption DEF ReadRows, TypeOK
    <3>4. u \in Task
      BY <1>1, <3>3 DEF Task
    <3>5. /\ u.from = t.from /\ u.to = t.to /\ u.order = t.order /\ u.lines = t.lines
          /\ u.expiresAt = t.expiresAt /\ u.before = ReadRows(t.lines)
      BY <1>1 DEF Task
    <3>6. TaskOK(u, reservations', now')
      <4> HIDE DEF u, t
      <4> QED
        BY <1>1, <1>2, <2>1, <3>2, <3>5 DEF TaskOK, RowsOK
    <3> HIDE DEF u
    <3> QED
      BY <1>2, <1>3, <3>1, <3>4, <3>6, TaskChanges
  <2>2. CASE ~passes
    <3>1. task' = [task EXCEPT ![h] = Idle]
      BY <2>2 DEF Snapshot, Finish
    <3> QED
      BY <1>2, <1>3, <3>1, TaskChanges
  <2> QED
    BY <2>1, <2>2
<1>6. TypeOK'
  BY <1>2, <1>5 DEF TypeOK
<1> QED
  BY <1>3, <1>4, <1>5, <1>6

\* How the transaction for the task t moves the counters.
Moves(t) ==
  \A v \in DOMAIN t.lines :
    /\ v \in Variants /\ t.lines[v].quantity \in Nat
    /\ rows'[v].reserved = IF t.to = "ACTIVE" THEN rows[v].reserved + t.lines[v].quantity
                           ELSE rows[v].reserved - t.lines[v].quantity
    /\ rows'[v].stock = IF t.to = "CONFIRMED" THEN rows[v].stock - t.lines[v].quantity
                        ELSE rows[v].stock

\* What the transaction writes fits together, and moves the counters by what
\* the lines ask for.
LEMMA ApplyRows ==
  ASSUME Core, NEW h \in Handlers, task[h] # Idle, task[h].step = "commit", Apply(task[h])
  PROVE  /\ Persist /\ RowsOK' /\ ReservationsOK' /\ Moves(task[h])
         /\ rows' \in [Variants -> Row]
         /\ reservations' \in [Orders -> Ledger!Reservation]
<1> DEFINE t == task[h]
           o == t.order
           q(v) == Quantity(t.lines, v)
<1> USE DEF Core
<1>1. t \in Task /\ TaskOK(t, reservations, now)
  BY DEF TypeOK, TasksOK
<1>2. /\ o \in Orders /\ t.lines \in Lines /\ t.from \in {"ABSENT", "ACTIVE"}
      /\ t.to \in {"ACTIVE", "CONFIRMED", "RELEASED", "EXPIRED"}
      /\ t.expiresAt \in Nat /\ t.before \in [Variants -> Row]
      /\ t.from = "ABSENT" <=> t.to = "ACTIVE"
  BY <1>1 DEF Task, TaskOK
<1>3. /\ reservations[o].status = t.from
      /\ t.from = "ACTIVE" => /\ reservations[o].lines = t.lines
                              /\ reservations[o].expiresAt = t.expiresAt
      /\ \A v \in DOMAIN t.lines : /\ rows[v].stock = t.before[v].stock
                                   /\ rows[v].reserved = t.before[v].reserved
  BY <1>1, <1>2 DEF Apply, CanApply, SameReservation, SameRows, TaskOK
<1>4. reservations' = [reservations EXCEPT ![o] =
                         [status |-> t.to, lines |-> t.lines, expiresAt |-> t.expiresAt]]
  BY DEF Apply
<1>5. /\ reservations'[o].status = t.to /\ reservations'[o].lines = t.lines
      /\ reservations'[o].expiresAt = t.expiresAt
      /\ \A p \in Orders \ {o} : reservations'[p] = reservations[p]
  BY <1>2, <1>4 DEF TypeOK
<1>6. Persist
  BY <1>2, <1>3, <1>5 DEF Persist, Exists
<1>7. reservations' \in [Orders -> Ledger!Reservation]
  BY <1>2, <1>4 DEF TypeOK, Ledger!Reservation, Ledger!Statuses, Lines
<1>8. ReservationsOK'
  BY <1>2, <1>5 DEF ReservationsOK, Exists
<1>9. \A v \in DOMAIN t.lines : /\ v \in Variants
                                /\ t.lines[v].quantity \in 1..MaxQuantity
                                /\ q(v) = t.lines[v].quantity
                                /\ t.before[v] \in Row
  BY <1>2 DEF Lines, Ledger!Lines, Ledger!Line, Quantity
<1>10. \A v \in Variants : rows[v] \in Row
  BY DEF TypeOK
<1>11. \A v \in Variants :
         rows'[v] = IF v \in DOMAIN t.lines THEN After(t.to, t.before[v], t.lines[v].quantity)
                    ELSE rows[v]
  BY DEF Apply, NewRows
<1>12. ASSUME NEW v \in DOMAIN t.lines
       PROVE  /\ rows'[v] \in Row /\ rows'[v].reserved <= rows'[v].stock
              /\ rows'[v].reserved = IF t.to = "ACTIVE" THEN rows[v].reserved + q(v)
                                     ELSE rows[v].reserved - q(v)
              /\ rows'[v].stock = IF t.to = "CONFIRMED" THEN rows[v].stock - q(v)
                                  ELSE rows[v].stock
  <2> DEFINE b == t.before[v]
             n == t.lines[v].quantity
  <2>1. /\ v \in Variants /\ b \in Row /\ n \in Nat /\ q(v) = n
        /\ rows[v].stock = b.stock /\ rows[v].reserved = b.reserved
        /\ b.reserved <= b.stock /\ Allowed(t.to, b, n)
        /\ rows'[v] = After(t.to, b, n)
    BY <1>1, <1>3, <1>9, <1>11, InventoryAssumption DEF TaskOK
  <2> HIDE DEF b, n, t, q
  <2>2. CASE t.to = "ACTIVE"
    BY <2>1, <2>2 DEF After, Allowed, Available, Row
  <2>3. CASE t.to = "CONFIRMED"
    <3>1. /\ rows'[v] = [b EXCEPT !.stock = b.stock - n, !.reserved = b.reserved - n]
          /\ n <= b.reserved
      BY <2>1, <2>3 DEF After, Allowed
    <3>2. b.stock \in Nat /\ b.reserved \in Nat /\ b.price \in Prices
      BY <2>1 DEF Row
    <3>3. b.stock - n \in Nat /\ b.reserved - n \in Nat /\ b.reserved - n <= b.stock - n
      BY <2>1, <3>1, <3>2
    <3>4. /\ rows'[v] = [stock |-> b.stock - n, reserved |-> b.reserved - n, price |-> b.price]
          /\ rows'[v].stock = b.stock - n /\ rows'[v].reserved = b.reserved - n
      BY <2>1, <3>1 DEF Row
    <3> QED
      BY <2>1, <2>3, <3>2, <3>3, <3>4 DEF Row
  <2>4. CASE t.to \in {"RELEASED", "EXPIRED"}
    BY <2>1, <2>4 DEF After, Allowed, Row
  <2> QED
    BY <1>2, <2>2, <2>3, <2>4
<1>13. rows' \in [Variants -> Row] /\ RowsOK'
  <2>1. \A v \in Variants : rows'[v] \in Row /\ rows'[v].reserved <= rows'[v].stock
    BY <1>10, <1>11, <1>12 DEF RowsOK
  <2>2. rows' = [v \in Variants |-> rows'[v]]
    BY DEF Apply, NewRows
  <2> QED
    BY <2>1, <2>2 DEF RowsOK
<1>14. Moves(t)
  BY <1>9, <1>12, InventoryAssumption DEF Moves
<1> QED
  BY <1>6, <1>7, <1>8, <1>13, <1>14

\* The transaction keeps the invariant, whether it applies, replays or refuses.
LEMMA CommitStep ==
  ASSUME Core, NEW h \in Handlers, Commit(h)
  PROVE  Core'
<1> DEFINE t == task[h]
<1> USE DEF Core
<1>1. /\ t # Idle /\ t.step = "commit" /\ t \in Task
      /\ Finish(h) /\ UNCHANGED <<listed, deleted, batch, now>>
  BY DEF Commit, TypeOK
<1>2. t.order \in Orders /\ t.to \in {"ACTIVE", "CONFIRMED", "RELEASED", "EXPIRED"}
  BY <1>1 DEF Task
<1>3. /\ Persist /\ RowsOK' /\ ReservationsOK'
      /\ rows' \in [Variants -> Row] /\ announced' \in [Variants -> Row]
      /\ reservations' \in [Orders -> Ledger!Reservation]
  <2>1. CASE UNCHANGED <<rows, reservations, announced>>
    BY <2>1, StockPersists DEF TypeOK
  <2>2. CASE Apply(t)
    <3>1. /\ Persist /\ RowsOK' /\ ReservationsOK'
          /\ rows' \in [Variants -> Row]
          /\ reservations' \in [Orders -> Ledger!Reservation]
      BY <1>1, <2>2, ApplyRows
    <3>2. announced' \in [Variants -> Row]
      BY <2>2, <3>1 DEF Apply, Announce, TypeOK
    <3> QED
      BY <3>1, <3>2
  <2> QED
    BY <2>1, <2>2 DEF Commit
<1>4. task' \in [Handlers -> {Idle} \cup Task] /\ TasksOK'
  BY <1>1, <1>3, TaskChanges DEF Finish
<1>5. BatchOK'
  BY <1>1, <1>3, BatchPersists
<1>6. PromisesKept' /\ promised' \in [Orders -> SUBSET Ledger!Statuses]
  <2>1. CASE UNCHANGED promised
    BY <1>3, <2>1, PromisesPersist DEF TypeOK
  <2>2. CASE Promise(t.order, t.to) /\ t.to # "EXPIRED" /\ reservations'[t.order].status = t.to
    BY <1>2, <1>3, <2>2, PromiseKept
  <2>3. CASE IsReplay(t)
    <3>1. reservations'[t.order].status = t.to
      BY <2>3 DEF Commit, IsReplay
    <3>2. Answer(h, t)
      BY <2>3 DEF Commit
    <3> QED
      BY <2>1, <2>2, <3>1, <3>2 DEF Answer
  <2>4. CASE ~IsReplay(t) /\ Apply(t) /\ Answer(h, t)
    <3>1. reservations'[t.order].status = t.to
      BY <1>2, <2>4 DEF Apply, TypeOK
    <3> QED
      BY <2>1, <2>2, <2>4, <3>1 DEF Answer
  <2> QED
    BY <2>1, <2>3, <2>4 DEF Commit
<1>7. TypeOK'
  BY <1>1, <1>3, <1>4, <1>6 DEF TypeOK
<1> QED
  BY <1>3, <1>4, <1>5, <1>6, <1>7

\* A handler that fails keeps the invariant.
LEMMA FailStep ==
  ASSUME Core, NEW h \in Handlers, Fail(h)
  PROVE  Core'
<1> USE DEF Core
<1>1. /\ UNCHANGED <<rows, listed, deleted, reservations, announced, promised, now>>
      /\ task' = [task EXCEPT ![h] = Idle] /\ batch' \subseteq batch
  BY DEF Fail, Finish
<1>2. Persist /\ RowsOK' /\ ReservationsOK'
  BY <1>1, StockPersists
<1>3. task' \in [Handlers -> {Idle} \cup Task] /\ TasksOK'
  BY <1>1, <1>2, TaskChanges
<1>4. TypeOK' /\ BatchOK' /\ PromisesKept'
  BY <1>1, <1>2, <1>3, BatchPersists, PromisesPersist DEF TypeOK
<1> QED
  BY <1>2, <1>3, <1>4

\* The clock keeps the invariant.
LEMMA TickStep ==
  ASSUME Core, Tick
  PROVE  Core'
<1> USE DEF Core
<1>1. /\ UNCHANGED <<rows, listed, deleted, reservations, task, batch, announced, promised>>
      /\ now' = now + 1
  BY DEF Tick
<1>2. Persist /\ RowsOK' /\ ReservationsOK'
  BY <1>1, StockPersists
<1>3. TypeOK' /\ TasksOK' /\ BatchOK' /\ PromisesKept'
  BY <1>1, <1>2, TasksPersist, BatchPersists, PromisesPersist DEF TypeOK
<1> QED
  BY <1>2, <1>3

\* A stuttering step keeps the invariant.
LEMMA StutterStep ==
  ASSUME Core, UNCHANGED vars
  PROVE  Core'
<1> USE DEF Core, vars
<1>1. Persist /\ RowsOK' /\ ReservationsOK'
  BY StockPersists
<1>2. TypeOK' /\ TasksOK' /\ BatchOK' /\ PromisesKept'
  BY <1>1, TasksPersist, BatchPersists, PromisesPersist DEF TypeOK
<1> QED
  BY <1>1, <1>2

\* Every step of the reservations keeps the core of the invariant.
LEMMA CoreStep == Core /\ [Next]_vars => Core'
<1> SUFFICES ASSUME Core, [Next]_vars PROVE Core'
  OBVIOUS
<1>1. ASSUME NEW h \in Requests, NEW o \in Orders, Lookup(h, o) PROVE Core'
  BY <1>1, LookupStep
<1>2. CASE Poll
  BY <1>2, PollStep
<1>3. ASSUME NEW o \in Orders, ExpireNext(o) PROVE Core'
  BY <1>3, ExpireNextStep
<1>4. ASSUME NEW h \in Handlers, Snapshot(h) PROVE Core'
  BY <1>4, SnapshotStep
<1>5. ASSUME NEW h \in Handlers, Commit(h) PROVE Core'
  BY <1>5, CommitStep
<1>6. ASSUME NEW h \in Handlers, Fail(h) PROVE Core'
  BY <1>6, FailStep
<1>7. CASE Tick
  BY <1>7, TickStep
<1>8. CASE UNCHANGED vars
  BY <1>8, StutterStep
<1> QED
  BY <1>1, <1>2, <1>3, <1>4, <1>5, <1>6, <1>7, <1>8 DEF Next

\* What the transaction writes keeps the counters in step with the reservations.
LEMMA ApplyCounts ==
  ASSUME Inductive, NEW h \in Handlers, task[h] # Idle, task[h].step = "commit", Apply(task[h])
  PROVE  Conservation'
<1> DEFINE t == task[h]
           o == t.order
           q(v) == Quantity(t.lines, v)
<1> USE DEF Inductive, Core
<1>1. t \in Task /\ TaskOK(t, reservations, now)
  BY DEF TypeOK, TasksOK
<1>2. /\ o \in Orders /\ t.lines \in Lines /\ t.from \in {"ABSENT", "ACTIVE"}
      /\ t.to \in {"ACTIVE", "CONFIRMED", "RELEASED", "EXPIRED"}
      /\ t.from = "ABSENT" <=> t.to = "ACTIVE"
  BY <1>1 DEF Task, TaskOK
<1>3. /\ reservations[o].status = t.from
      /\ t.from = "ACTIVE" => reservations[o].lines = t.lines
  BY <1>1, <1>2 DEF Apply, CanApply, SameReservation, TaskOK
<1>4. Moves(t)
  BY ApplyRows
<1>5. /\ reservations'[o].status = t.to /\ reservations'[o].lines = t.lines
      /\ \A p \in Orders \ {o} : reservations'[p] = reservations[p]
  BY <1>2 DEF Apply, TypeOK
<1>6. Conservation'
  <2> SUFFICES ASSUME NEW v \in Variants
               PROVE  /\ rows'[v].reserved = Ledger!Held(v)'
                      /\ rows'[v].stock + Ledger!Sold(v)' = InitialRows[v].stock
    BY DEF Conservation
  <2>1. /\ Ledger!Held(v) = Count(reservations, "ACTIVE", v)
        /\ Ledger!Sold(v) = Count(reservations, "CONFIRMED", v)
    BY LedgerCounts
  <2>2. /\ Ledger!Held(v)' = Count(reservations', "ACTIVE", v)
        /\ Ledger!Sold(v)' = Count(reservations', "CONFIRMED", v)
    BY LedgerCountsNext
  <2>3. /\ rows'[v].reserved = IF t.to = "ACTIVE" THEN rows[v].reserved + q(v)
                               ELSE rows[v].reserved - q(v)
        /\ rows'[v].stock = IF t.to = "CONFIRMED" THEN rows[v].stock - q(v) ELSE rows[v].stock
        /\ q(v) \in Nat
    <3>1. CASE v \in DOMAIN t.lines
      BY <1>4, <3>1 DEF Quantity, Moves
    <3>2. CASE v \notin DOMAIN t.lines
      <4>1. rows'[v] = rows[v] /\ rows[v] \in Row /\ q(v) = 0
        BY <3>2 DEF TypeOK, Apply, NewRows, Quantity
      <4> QED
        BY <4>1 DEF Row
    <3> QED
      BY <3>1, <3>2
  <2>4. /\ rows[v].reserved = Ledger!Held(v) /\ rows[v].stock + Ledger!Sold(v) = InitialRows[v].stock
        /\ rows[v].reserved \in Nat /\ rows[v].stock \in Nat
    BY DEF TypeOK, Conservation, Row
  <2>5. \A s \in {"ACTIVE", "CONFIRMED"} :
          /\ Count(reservations', s, v) + (IF t.from = s THEN q(v) ELSE 0)
               = Count(reservations, s, v) + (IF t.to = s THEN q(v) ELSE 0)
          /\ Count(reservations, s, v) \in Nat /\ Count(reservations', s, v) \in Nat
    <3> SUFFICES ASSUME NEW s \in {"ACTIVE", "CONFIRMED"}
                 PROVE  /\ Count(reservations', s, v) + (IF t.from = s THEN q(v) ELSE 0)
                             = Count(reservations, s, v) + (IF t.to = s THEN q(v) ELSE 0)
                        /\ Count(reservations, s, v) \in Nat /\ Count(reservations', s, v) \in Nat
      OBVIOUS
    <3> DEFINE r == reservations
               r2 == reservations'
               lines == t.lines
    <3>1. /\ o \in Orders /\ lines \in Lines
          /\ Differ(r, r2, o)
          /\ r2[o].lines = lines
          /\ r[o].status = s => r[o].lines = lines
          /\ r[o].status # r2[o].status
      BY <1>2, <1>3, <1>5 DEF Differ
    <3>2. r[o].status = t.from /\ r2[o].status = t.to /\ q(v) = Quantity(lines, v)
      BY <1>3, <1>5
    <3> HIDE DEF t, o, q, r, r2, lines
    <3>3. /\ Count(r2, s, v) + (IF r[o].status = s THEN Quantity(lines, v) ELSE 0)
               = Count(r, s, v) + (IF r2[o].status = s THEN Quantity(lines, v) ELSE 0)
          /\ Count(r, s, v) \in Nat /\ Count(r2, s, v) \in Nat
      BY <3>1, CountMoves
    <3> QED
      BY <3>2, <3>3 DEF r, r2
  <2> HIDE DEF t, q
  <2> QED
    BY <1>2, <2>1, <2>2, <2>3, <2>4, <2>5
<1> QED
  BY <1>6

\* The transaction announces every counter it changes.
LEMMA ApplyAnnounces ==
  ASSUME Announced, NEW t, Apply(t)
  PROVE  Announced'
<1>1. announced' = [v \in Variants |-> IF \E w \in DOMAIN t.lines : ProductOf[w] = ProductOf[v]
                                       THEN rows'[v] ELSE announced[v]]
  BY DEF Apply, Announce
<1> SUFFICES ASSUME NEW v \in Variants PROVE announced'[v] = rows'[v]
  BY DEF Announced
<1>2. CASE v \in DOMAIN t.lines
  BY <1>1, <1>2
<1>3. CASE v \notin DOMAIN t.lines
  <2>1. rows'[v] = rows[v]
    BY <1>3 DEF Apply, NewRows
  <2> QED
    BY <1>1, <2>1 DEF Announced
<1> QED
  BY <1>2, <1>3

\* Only a transaction that applies writes counters, reservations or events.
LEMMA OnlyApplyWrites ==
  ASSUME [Next]_vars, ~UNCHANGED <<rows, reservations, announced>>
  PROVE  \E h \in Handlers : task[h] # Idle /\ task[h].step = "commit" /\ Apply(task[h])
<1>1. PICK h \in Handlers : Commit(h)
  BY DEF Next, vars, Lookup, Reserve, ReplayReserve, Confirm, Release, Poll, ExpireNext,
         Snapshot, Fail, Tick
<1> QED
  BY <1>1 DEF Commit

\* Every step keeps the invariant.
LEMMA InductiveStep == Inductive /\ [Next]_vars => Inductive'
<1> SUFFICES ASSUME Inductive, [Next]_vars PROVE Inductive'
  OBVIOUS
<1>1. Core'
  BY CoreStep DEF Inductive
<1>2. CASE UNCHANGED <<rows, reservations, announced>>
  <2>1. \A v : Ledger!Held(v)' = Ledger!Held(v) /\ Ledger!Sold(v)' = Ledger!Sold(v)
    BY <1>2 DEF Ledger!Held, Ledger!Sold, Ledger!Units, Ledger!InStatus
  <2>2. Conservation' /\ Announced'
    BY <1>2, <2>1 DEF Inductive, Conservation, Announced
  <2> QED
    BY <1>1, <2>2 DEF Inductive
<1>3. CASE ~UNCHANGED <<rows, reservations, announced>>
  <2>1. PICK h \in Handlers : task[h] # Idle /\ task[h].step = "commit" /\ Apply(task[h])
    BY <1>3, OnlyApplyWrites
  <2>2. Conservation'
    BY <2>1, ApplyCounts
  <2>3. Announced'
    BY <2>1, ApplyAnnounces DEF Inductive
  <2> QED
    BY <1>1, <2>2, <2>3 DEF Inductive
<1> QED
  BY <1>2, <1>3

\* The inductive invariant holds in every reachable state of the inventory.
THEOREM InventoryInvariant == Spec => []Inductive
BY InductiveInit, InductiveStep, PTL DEF Spec

\* Every variable has its type.
THEOREM InventoryTypes == Spec => []TypeOK
<1>1. Inductive => TypeOK
  BY DEF Inductive, Core
<1> QED
  BY <1>1, InventoryInvariant, PTL

\* The counters of every variant are exactly what the reservations account for:
\* concurrent reserve, confirm, release and expire calls lose no update.
THEOREM InventoryConservation == Spec => []Conservation
<1>1. Inductive => Conservation
  BY DEF Inductive, Core
<1> QED
  BY <1>1, InventoryInvariant, PTL

\* No successful answer to reserve, confirm or release is ever gone back on.
THEOREM InventoryPromises == Spec => []PromisesKept
<1>1. Inductive => PromisesKept
  BY DEF Inductive, Core
<1> QED
  BY <1>1, InventoryInvariant, PTL

\* The last product event in the outbox carries the counters of the table.
THEOREM InventoryOutbox == Spec => []OutboxCarriesRows
<1>1. Inductive => OutboxCarriesRows
  BY DEF Inductive, Core, Announced, OutboxCarriesRows
<1> QED
  BY <1>1, InventoryInvariant, PTL

NeverOversold == \A v \in Variants : Ledger!Held(v) + Ledger!Sold(v) <= InitialRows[v].stock

\* The units that active reservations hold and confirmed ones have bought are
\* never more than there were at the start: nothing is sold twice.
THEOREM InventoryNeverOversells == Spec => []NeverOversold
<1>1. ASSUME Inductive, NEW v \in Variants
      PROVE  Ledger!Held(v) + Ledger!Sold(v) <= InitialRows[v].stock
  <2>1. /\ rows[v].reserved = Ledger!Held(v)
        /\ rows[v].stock + Ledger!Sold(v) = InitialRows[v].stock
        /\ rows[v].reserved <= rows[v].stock
    BY <1>1 DEF Inductive, Core, Conservation, RowsOK
  <2>2. rows[v].reserved \in Nat /\ rows[v].stock \in Nat /\ InitialRows[v].stock \in Nat
    BY <1>1, InventoryAssumption DEF Inductive, Core, TypeOK, Row
  <2>3. Ledger!Sold(v) \in Nat
    <3>1. IsFiniteSet(UnitsOf(reservations, Having(reservations, "CONFIRMED"), v))
      BY UnitsFinite DEF Having
    <3> QED
      BY <3>1, LedgerCounts, FS_CardinalityType DEF Count
  <2> QED
    BY <2>1, <2>2, <2>3
<1>2. Inductive => NeverOversold
  BY <1>1 DEF NeverOversold
<1> QED
  BY <1>2, InventoryInvariant, PTL

--------------------------------------------------------------------------------
(* The inventory implements the ledger *)

\* The transaction grants a reservation out of free stock, or settles an active
\* one: a step of the ledger.
LEMMA ApplyImplements ==
  ASSUME Inductive, NEW h \in Handlers, task[h] # Idle, task[h].step = "commit",
         Apply(task[h]), UNCHANGED now
  PROVE  Ledger!Next
<1> DEFINE t == task[h]
           o == t.order
<1> USE DEF Inductive, Core
<1>1. t \in Task /\ TaskOK(t, reservations, now)
  BY DEF TypeOK, TasksOK
<1>2. /\ o \in Orders /\ t.lines \in Ledger!Lines /\ t.from \in {"ABSENT", "ACTIVE"}
      /\ t.to \in {"ACTIVE", "CONFIRMED", "RELEASED", "EXPIRED"}
      /\ t.from = "ABSENT" <=> t.to = "ACTIVE"
  BY <1>1 DEF Task, TaskOK, Lines
<1>3. /\ reservations[o].status = t.from
      /\ reservations' = [reservations EXCEPT ![o] =
                            [status |-> t.to, lines |-> t.lines, expiresAt |-> t.expiresAt]]
      /\ \A v \in DOMAIN t.lines : /\ rows[v].stock = t.before[v].stock
                                   /\ rows[v].reserved = t.before[v].reserved
  BY DEF Apply, CanApply, SameReservation, SameRows
<1>4. CASE t.from = "ABSENT"
  <2>1. PICK at \in 0..now : t.expiresAt = at + TTL
    BY <1>1, <1>4 DEF TaskOK
  <2>2. ASSUME NEW v \in DOMAIN t.lines
        PROVE  t.lines[v].quantity + Ledger!Held(v) + Ledger!Sold(v)
                 <= [w \in Variants |-> InitialRows[w].stock][v]
    <3>1. /\ v \in Variants /\ t.lines[v].quantity \in Nat
      BY <1>2, InventoryAssumption DEF Ledger!Lines, Ledger!Line
    <3>2. t.lines[v].quantity <= rows[v].stock - rows[v].reserved
      BY <1>1, <1>2, <1>3, <1>4 DEF TaskOK, Allowed, Available
    <3>3. /\ rows[v].stock \in Nat /\ rows[v].reserved \in Nat /\ InitialRows[v].stock \in Nat
      BY <3>1, InventoryAssumption DEF TypeOK, Row
    <3>4. /\ Ledger!Held(v) = rows[v].reserved
          /\ rows[v].stock + Ledger!Sold(v) = InitialRows[v].stock
      BY <3>1 DEF Conservation
    <3>5. Ledger!Sold(v) \in Nat
      <4>1. IsFiniteSet(UnitsOf(reservations, Having(reservations, "CONFIRMED"), v))
        BY UnitsFinite DEF Having
      <4> QED
        BY <4>1, LedgerCounts, FS_CardinalityType DEF Count
    <3> HIDE DEF t
    <3> QED
      BY <3>1, <3>2, <3>3, <3>4, <3>5
  <2>3. Ledger!Reserve(o, t.lines, at)
    BY <1>2, <1>3, <1>4, <2>1, <2>2 DEF Ledger!Reserve
  <2> QED
    BY <1>2, <2>1, <2>3 DEF Ledger!Next
<1>5. CASE t.from = "ACTIVE"
  <2>1. /\ reservations[o].lines = t.lines /\ reservations[o].expiresAt = t.expiresAt
        /\ t.to \in {"CONFIRMED", "RELEASED", "EXPIRED"}
        /\ t.to = "EXPIRED" => now >= reservations[o].expiresAt
    BY <1>1, <1>2, <1>5 DEF TaskOK
  <2>2. reservations[o] \in Ledger!Reservation
    BY <1>2 DEF TypeOK
  <2>3. [reservations[o] EXCEPT !.status = t.to]
          = [status |-> t.to, lines |-> t.lines, expiresAt |-> t.expiresAt]
    BY <2>1, <2>2 DEF Ledger!Reservation
  <2>4. reservations' = [reservations EXCEPT ![o].status = t.to]
    BY <1>3, <2>3
  <2>5. Ledger!Settle(o, t.to)
    BY <1>3, <1>5, <2>1, <2>4 DEF Ledger!Settle
  <2> QED
    BY <1>2, <2>1, <2>5 DEF Ledger!Next
<1> QED
  BY <1>2, <1>4, <1>5

\* Every step of the inventory is a step of the ledger, or none.
LEMMA StepImplements == Inductive /\ [Next]_vars => [Ledger!Next]_(Ledger!vars)
<1> SUFFICES ASSUME Inductive, [Next]_vars PROVE Ledger!Next \/ UNCHANGED <<reservations, now>>
  BY DEF Ledger!vars
<1>1. ASSUME NEW h \in Requests, NEW o \in Orders, Lookup(h, o)
      PROVE  UNCHANGED <<reservations, now>>
  BY <1>1 DEF Lookup, Reserve, ReplayReserve, Confirm, Release
<1>2. CASE Poll
  BY <1>2 DEF Poll
<1>3. ASSUME NEW o \in Orders, ExpireNext(o) PROVE UNCHANGED <<reservations, now>>
  BY <1>3 DEF ExpireNext
<1>4. ASSUME NEW h \in Handlers, Snapshot(h) \/ Fail(h) PROVE UNCHANGED <<reservations, now>>
  BY <1>4 DEF Snapshot, Fail
<1>5. ASSUME NEW h \in Handlers, Commit(h)
      PROVE  Ledger!Next \/ UNCHANGED <<reservations, now>>
  BY <1>5, ApplyImplements DEF Commit
<1>6. CASE Tick
  BY <1>6 DEF Tick, Ledger!Next, Ledger!Tick
<1>7. CASE UNCHANGED vars
  BY <1>7 DEF vars
<1> QED
  BY <1>1, <1>2, <1>3, <1>4, <1>5, <1>6, <1>7 DEF Next

\* The inventory implements the ledger: whatever the interleaving, a reservation
\* is granted only out of stock that no other order holds or has bought, it is
\* settled once, and only an overdue one expires.
THEOREM InventoryImplementsLedger == Spec => ImplementsLedger
<1>1. Init => Ledger!Init
  BY DEF Init, Ledger!Init, Absent
<1>2. Spec => Ledger!Spec
  BY <1>1, StepImplements, InventoryInvariant, PTL DEF Spec, Ledger!Spec
<1> QED
  BY <1>2 DEF ImplementsLedger

--------------------------------------------------------------------------------
(* Catalogue edits next to the reservations *)

\* Every entity that waits to be saved is one that ProductVariant accepts.
EntitiesOK ==
  \A a \in Admins : edit[a] # NoEdit =>
    \A v \in Variants : edit[a].rows[v].reserved <= edit[a].rows[v].stock

CatalogInductive == Core /\ CatalogTypeOK /\ EntitiesOK /\ ReservedVariantsExist

\* The invariant holds at the start.
LEMMA CatalogInductiveInit == CatalogInit => CatalogInductive
<1> SUFFICES ASSUME CatalogInit PROVE CatalogInductive
  OBVIOUS
<1>1. Core
  BY InductiveInit DEF CatalogInit, Inductive
<1>2. CatalogTypeOK /\ EntitiesOK
  BY <1>1 DEF CatalogInit, CatalogTypeOK, EntitiesOK, Core
<1>3. ReservedVariantsExist
  BY DEF CatalogInit, Init, ReservedVariantsExist, Absent, Ledger!Absent, Ledger!NoLines
<1> QED
  BY <1>1, <1>2, <1>3 DEF CatalogInductive

\* What findById returns is an entity that ProductVariant accepts.
LEMMA FoundOK ==
  ASSUME TypeOK, RowsOK, NEW p \in Products
  PROVE  /\ Found(p) \in Entity
         /\ \A v \in Variants : Found(p).rows[v].reserved <= Found(p).rows[v].stock
<1>1. \A v \in Variants : InitialRows[v] \in Row /\ InitialRows[v].reserved <= InitialRows[v].stock
  BY InventoryAssumption DEF Row
<1>2. Found(p) \in Entity
  BY <1>1 DEF Found, Entity, VariantsOf, TypeOK
<1> QED
  BY <1>1, <1>2 DEF Found, RowsOK

\* Starting an edit changes nothing that is stored.
LEMMA BeginKeeps ==
  ASSUME CatalogInductive, NEW a \in Admins, NEW p \in Products, NEW e \in Entity,
         \A v \in Variants : e.rows[v].reserved <= e.rows[v].stock,
         Begin(a, p, e), created' \subseteq NewVariants
  PROVE  CatalogInductive'
<1> USE DEF CatalogInductive
<1>1. Core'
  BY StutterStep DEF Begin, vars, Core
<1>2. edit' = [edit EXCEPT ![a] = e]
  BY DEF Begin
<1>3. CatalogTypeOK'
  BY <1>1, <1>2 DEF CatalogTypeOK, Core
<1>4. EntitiesOK'
  BY <1>2 DEF EntitiesOK, CatalogTypeOK
<1>5. ReservedVariantsExist'
  BY DEF Begin, vars, ReservedVariantsExist
<1> QED
  BY <1>1, <1>3, <1>4, <1>5

\* Every edit of an administrator, and a review, keeps the invariant.
LEMMA EditKeeps ==
  ASSUME CatalogInductive, NEW a \in Admins,
         \/ \E p \in Products : EditProduct(a, p) \/ DeleteProduct(a, p)
         \/ \E v \in Variants, price \in EditPrices, stock \in EditStocks :
              EditVariant(a, v, price, stock)
         \/ \E v \in Variants : AddVariant(a, v) \/ RemoveVariant(a, v)
  PROVE  CatalogInductive'
<1>0. TypeOK /\ RowsOK /\ created \subseteq NewVariants
  BY DEF CatalogInductive, Core, CatalogTypeOK
<1>1. ASSUME NEW p \in Products, EditProduct(a, p) PROVE CatalogInductive'
  BY <1>0, <1>1, FoundOK, BeginKeeps DEF EditProduct
<1>2. ASSUME NEW p \in Products, DeleteProduct(a, p) PROVE CatalogInductive'
  <2> DEFINE e == [Found(p) EXCEPT !.deleted = TRUE]
  <2>1. e \in Entity /\ \A v \in Variants : e.rows[v].reserved <= e.rows[v].stock
    <3>1. /\ Found(p) \in Entity
          /\ \A v \in Variants : Found(p).rows[v].reserved <= Found(p).rows[v].stock
      BY <1>0, FoundOK
    <3> QED
      BY <3>1 DEF Entity
  <2>2. Begin(a, p, e) /\ UNCHANGED created
    BY <1>2 DEF DeleteProduct
  <2> HIDE DEF e
  <2> QED
    BY <1>0, <2>1, <2>2, BeginKeeps
<1>3. ASSUME NEW v \in Variants, NEW price \in EditPrices, NEW stock \in EditStocks,
             EditVariant(a, v, price, stock)
      PROVE  CatalogInductive'
  <2> DEFINE p == ProductOf[v]
             e == [Found(p) EXCEPT !.rows[v].price = price, !.rows[v].stock = stock]
  <2>1. p \in Products /\ price \in Prices /\ stock \in Nat
    BY InventoryAssumption, CatalogAssumption
  <2>2. Found(p) \in Entity /\ \A w \in Variants : Found(p).rows[w].reserved <= Found(p).rows[w].stock
    BY <1>0, <2>1, FoundOK
  <2>3. Found(p).rows[v] = rows[v] /\ rows[v] \in Row /\ rows[v].reserved <= stock
    BY <1>0, <1>3, <2>1 DEF EditVariant, StockAllowed, Found, VariantsOf, TypeOK, Row
  <2>4. e.rows = [Found(p).rows EXCEPT ![v] = [stock |-> stock, reserved |-> rows[v].reserved,
                                                price |-> price]]
    BY <2>2, <2>3 DEF Entity, Row
  <2>5. e \in Entity
    BY <2>1, <2>2, <2>3, <2>4 DEF Entity, Row
  <2>6. \A w \in Variants : e.rows[w].reserved <= e.rows[w].stock
    BY <2>2, <2>3, <2>4 DEF Entity
  <2>7. Begin(a, p, e) /\ UNCHANGED created
    BY <1>3 DEF EditVariant
  <2> HIDE DEF e, p
  <2> QED
    BY <1>0, <2>1, <2>5, <2>6, <2>7, BeginKeeps
<1>4. ASSUME NEW v \in Variants, AddVariant(a, v) PROVE CatalogInductive'
  <2> DEFINE p == ProductOf[v]
             e == [Found(p) EXCEPT !.variants = @ \cup {v}, !.rows[v] = NewRow]
  <2>1. p \in Products /\ NewRow \in Row /\ NewRow.reserved <= NewRow.stock
    BY InventoryAssumption, CatalogAssumption DEF Row
  <2>2. Found(p) \in Entity /\ \A w \in Variants : Found(p).rows[w].reserved <= Found(p).rows[w].stock
    BY <1>0, <2>1, FoundOK
  <2>3. e \in Entity /\ \A w \in Variants : e.rows[w].reserved <= e.rows[w].stock
    BY <2>1, <2>2 DEF Entity
  <2>4. Begin(a, p, e) /\ created' \subseteq NewVariants
    BY <1>0, <1>4 DEF AddVariant
  <2> HIDE DEF e, p
  <2> QED
    BY <2>1, <2>3, <2>4, BeginKeeps
<1>5. ASSUME NEW v \in Variants, RemoveVariant(a, v) PROVE CatalogInductive'
  <2> DEFINE p == ProductOf[v]
             e == [Found(p) EXCEPT !.variants = @ \ {v}]
  <2>1. p \in Products
    BY InventoryAssumption
  <2>2. Found(p) \in Entity /\ \A w \in Variants : Found(p).rows[w].reserved <= Found(p).rows[w].stock
    BY <1>0, <2>1, FoundOK
  <2>3. e \in Entity /\ \A w \in Variants : e.rows[w].reserved <= e.rows[w].stock
    BY <2>2 DEF Entity
  <2>4. Begin(a, p, e) /\ UNCHANGED created
    BY <1>5 DEF RemoveVariant
  <2> HIDE DEF e, p
  <2> QED
    BY <1>0, <2>1, <2>3, <2>4, BeginKeeps
<1> QED
  BY <1>1, <1>2, <1>3, <1>4, <1>5

\* The save writes rows that ProductVariant accepted, and the foreign key keeps
\* the rows that reservations name.
LEMMA SaveKeeps ==
  ASSUME CatalogInductive, NEW a \in Admins, Save(a)
  PROVE  CatalogInductive'
<1> DEFINE e == edit[a]
<1> USE DEF CatalogInductive
<1>1. /\ UNCHANGED <<reservations, task, batch, promised, now, created>>
      /\ edit' = [edit EXCEPT ![a] = NoEdit] /\ e # NoEdit /\ e \in Entity
  BY DEF Save, CatalogTypeOK
<1>2. \A v \in Variants : rows'[v] = IF v \in e.variants THEN e.rows[v] ELSE rows[v]
  BY DEF Save, SavedRows
<1>3. rows' \in [Variants -> Row] /\ announced' \in [Variants -> Row]
  BY <1>1 DEF Save, SavedRows, Entity, Core, TypeOK
<1>4. listed' \subseteq Variants /\ deleted' \subseteq Products
  BY <1>1 DEF Save, Entity, Core, TypeOK
<1>5. TypeOK'
  BY <1>1, <1>3, <1>4 DEF Core, TypeOK
<1>6. RowsOK'
  BY <1>1, <1>2 DEF RowsOK, EntitiesOK, Core
<1>7. Persist /\ ReservationsOK'
  BY <1>1 DEF Persist, ReservationsOK, Exists, Core
<1>8. TasksOK' /\ BatchOK' /\ PromisesKept'
  BY <1>1, <1>7, TasksPersist, BatchPersists, PromisesPersist DEF Core
<1>9. CatalogTypeOK'
  BY <1>1, <1>5 DEF CatalogTypeOK
<1>10. EntitiesOK'
  BY <1>1 DEF EntitiesOK, CatalogTypeOK
<1>11. ReservedVariantsExist'
  <2> SUFFICES ASSUME NEW o \in Orders, NEW v \in DOMAIN reservations[o].lines
               PROVE  v \in listed'
    BY <1>1 DEF ReservedVariantsExist
  <2>1. v \in listed /\ v \notin Dropped(e)
    BY DEF ReservedVariantsExist, Save, Referenced
  <2> QED
    BY <2>1 DEF Save, Dropped
<1> QED
  BY <1>5, <1>6, <1>7, <1>8, <1>9, <1>10, <1>11 DEF Core

\* The transaction of a reservation checks the catalogue as it is then.
LEMMA ReservedExist ==
  ASSUME TypeOK, ReservedVariantsExist, [Next]_vars
  PROVE  ReservedVariantsExist'
<1>1. listed' = listed
  BY DEF Next, vars, Lookup, Reserve, ReplayReserve, Confirm, Release, Poll, ExpireNext,
         Snapshot, Commit, Fail, Tick
<1>2. CASE UNCHANGED <<rows, reservations, announced>>
  BY <1>1, <1>2 DEF ReservedVariantsExist
<1>3. CASE ~UNCHANGED <<rows, reservations, announced>>
  <2>1. PICK h \in Handlers : task[h] # Idle /\ task[h].step = "commit" /\ Apply(task[h])
    BY <1>3, OnlyApplyWrites
  <2>2. DOMAIN task[h].lines \subseteq listed
    BY <2>1 DEF Apply, CanApply, CatalogMatches, Offered
  <2>3. \A o \in Orders : reservations'[o].lines \in {reservations[o].lines, task[h].lines}
    BY <2>1 DEF Apply, TypeOK
  <2> QED
    BY <1>1, <2>2, <2>3 DEF ReservedVariantsExist
<1> QED
  BY <1>2, <1>3

\* Every step keeps the invariant.
LEMMA CatalogInductiveStep == CatalogInductive /\ [CatalogNext]_catalogVars => CatalogInductive'
<1> SUFFICES ASSUME CatalogInductive, [CatalogNext]_catalogVars PROVE CatalogInductive'
  OBVIOUS
<1>1. ASSUME [Next]_vars, UNCHANGED <<edit, created>> PROVE CatalogInductive'
  <2>1. Core' /\ ReservedVariantsExist'
    BY <1>1, CoreStep, ReservedExist DEF CatalogInductive, Core
  <2> QED
    BY <1>1, <2>1 DEF CatalogInductive, CatalogTypeOK, EntitiesOK, Core
<1>2. ASSUME NEW a \in Admins, Save(a) PROVE CatalogInductive'
  BY <1>2, SaveKeeps
<1>3. ASSUME NEW a \in Admins, AbandonSave(a) PROVE CatalogInductive'
  <2>1. Core' /\ ReservedVariantsExist'
    BY <1>3, CoreStep, ReservedExist DEF CatalogInductive, Core, AbandonSave
  <2> QED
    BY <1>3, <2>1 DEF CatalogInductive, CatalogTypeOK, EntitiesOK, Core, AbandonSave
<1>4. ASSUME NEW a \in Admins, CatalogStep(a) PROVE CatalogInductive'
  BY <1>2, <1>3, <1>4, EditKeeps DEF CatalogStep
<1> QED
  BY <1>1, <1>4 DEF CatalogNext, catalogVars

\* The invariant of the reservations and the catalogue holds in every reachable
\* state, for any number of administrators.
THEOREM CatalogInvariant == CatalogSpec => []CatalogInductive
BY CatalogInductiveInit, CatalogInductiveStep, PTL DEF CatalogSpec

\* Tables, handlers and entities in memory keep their types.
THEOREM CatalogTypes == CatalogSpec => []CatalogTypeOK
<1>1. CatalogInductive => CatalogTypeOK
  BY DEF CatalogInductive
<1> QED
  BY <1>1, CatalogInvariant, PTL

\* No row ever has more units reserved than in stock, although edits overwrite
\* the counters with what they read earlier (PrismaProductRepository.save).
THEOREM CatalogWithinStock == CatalogSpec => []WithinStock
<1>1. CatalogInductive => WithinStock
  BY DEF CatalogInductive, Core, RowsOK, WithinStock
<1> QED
  BY <1>1, CatalogInvariant, PTL

\* No variant that a reservation names is ever removed.
THEOREM CatalogReservedExist == CatalogSpec => []ReservedVariantsExist
<1>1. CatalogInductive => ReservedVariantsExist
  BY DEF CatalogInductive
<1> QED
  BY <1>1, CatalogInvariant, PTL

\* A caller's answer is kept whatever administrators save meanwhile.
THEOREM CatalogPromises == CatalogSpec => []PromisesKept
<1>1. CatalogInductive => PromisesKept
  BY DEF CatalogInductive, Core
<1> QED
  BY <1>1, CatalogInvariant, PTL

\* A reservation is made or confirmed only from offered variants at the price
\* of that moment.
THEOREM CatalogTradesAtCurrentPrice == CatalogSpec => TradesAtCurrentPrice
<1> DEFINE Trade ==
      \A o \in Orders :
        /\ reservations[o].status # reservations'[o].status
        /\ reservations'[o].status \in {"ACTIVE", "CONFIRMED"}
        => CatalogMatches(reservations'[o].lines)
<1>1. ASSUME CatalogInductive, [CatalogNext]_catalogVars PROVE [Trade]_catalogVars
  <2>1. ASSUME [Next]_vars, ~UNCHANGED <<rows, reservations, announced>> PROVE Trade
    <3>1. PICK h \in Handlers : task[h] # Idle /\ task[h].step = "commit" /\ Apply(task[h])
      BY <2>1, OnlyApplyWrites
    <3>2. TypeOK
      BY <1>1 DEF CatalogInductive, Core
    <3>3. /\ CatalogMatches(task[h].lines)
          /\ \A o \in Orders : \/ reservations'[o] = reservations[o]
                               \/ reservations'[o].lines = task[h].lines
      BY <3>1, <3>2 DEF Apply, CanApply, TypeOK
    <3> QED
      BY <3>3
  <2>2. CASE UNCHANGED reservations
    BY <2>2
  <2>3. ASSUME NEW a \in Admins, CatalogStep(a) PROVE UNCHANGED reservations
    BY <2>3 DEF CatalogStep, EditProduct, DeleteProduct, EditVariant, AddVariant, RemoveVariant,
                Begin, Save, AbandonSave, vars
  <2> QED
    BY <1>1, <2>1, <2>2, <2>3 DEF CatalogNext, catalogVars, vars
<1> QED
  BY <1>1, CatalogInvariant, PTL DEF CatalogSpec, TradesAtCurrentPrice

\* A reservation is never dropped, its lines and deadline never change and, once
\* confirmed, released or expired, it stays so, whatever is saved next to it.
THEOREM CatalogSettlesOnce == CatalogSpec => [][Persist]_catalogVars
<1>1. ASSUME CatalogInductive, [CatalogNext]_catalogVars PROVE [Persist]_catalogVars
  <2>1. ASSUME [Next]_vars, ~UNCHANGED <<rows, reservations, announced>> PROVE Persist
    <3>1. PICK h \in Handlers : task[h] # Idle /\ task[h].step = "commit" /\ Apply(task[h])
      BY <2>1, OnlyApplyWrites
    <3> QED
      BY <1>1, <3>1, ApplyRows DEF CatalogInductive
  <2>2. CASE UNCHANGED reservations
    BY <2>2 DEF Persist, Exists
  <2>3. ASSUME NEW a \in Admins, CatalogStep(a) PROVE UNCHANGED reservations
    BY <2>3 DEF CatalogStep, EditProduct, DeleteProduct, EditVariant, AddVariant, RemoveVariant,
                Begin, Save, AbandonSave, vars
  <2> QED
    BY <1>1, <2>1, <2>2, <2>3 DEF CatalogNext, catalogVars, vars
<1> QED
  BY <1>1, CatalogInvariant, PTL DEF CatalogSpec
================================================================================
