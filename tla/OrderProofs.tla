-------------------------------- MODULE OrderProofs --------------------------------
(***************************************************************************)
(* Theorems about OrderLifecycle.tla for every value of its constants: its *)
(* types, the safety invariants its runs check, and that a payment is      *)
(* final.                                                                  *)
(*                                                                         *)
(* No use case but Complete looks at the order again before it writes, so  *)
(* what keeps a paid order from being closed, and a closed one from being  *)
(* paid, is its stock: a reservation is settled once, and a handler goes   *)
(* on only if it was settled the way it wanted.  JobOK says so of every    *)
(* handler that is past that point.                                        *)
(***************************************************************************)
EXTENDS OrderLifecycle, FiniteSetTheorems, TLAPS

--------------------------------------------------------------------------------
(* The inductive invariant *)

Returned == {"RELEASED", "EXPIRED"}

\* The job j fits the orders ord, the stock st, the points lo and redemptions re.
JobOK(j, ord, st, lo, re) ==
  /\ j.to = "PAID" /\ j.step \notin {"attempt", "stock"} => st[j.order] = "CONFIRMED"
  /\ j.to = "PAID" /\ j.step = "mark" => lo[j.order] # "ACTIVE"
  /\ j.to = "PAID" /\ j.step = "save" => lo[j.order] = "NONE" \/ j.order \in re
  /\ j.to \in Closed /\ j.step # "stock" => st[j.order] \in Returned
  /\ j.to \in Closed /\ j.step = "points" => lo[j.order] # "NONE"
  /\ j.to \in Fulfilment \ {"PAID"} => ord[j.order] \in Fulfilment

JobsOK ==
  \A h \in Handlers : job[h] # Idle => JobOK(job[h], orders, stock, loyalty, redeemed)

LoyaltyOK ==
  \A o \in Orders :
    /\ loyalty[o] = "CONSUMED" => o \in redeemed
    /\ loyalty[o] = "RELEASED" => stock[o] \in Returned
    /\ loyalty[o] = "EXPIRED" => Overdue(o, now)
    /\ o \in redeemed => stock[o] = "CONFIRMED"

SweepOK ==
  /\ sweep.at <= now
  /\ sweep.phase = "loyalty" =>
       \A o \in sweep.due : Overdue(o, sweep.at) /\ loyalty[o] # "NONE"

\* Which keys have paid the order.
Payers(p, o) == {k \in Keys : p[k] = o}

PaymentsOK ==
  \A o \in Orders :
    IF orders[o] \in Fulfilment THEN \E k \in Keys : Payers(payments, o) = {k}
    ELSE Payers(payments, o) = {}

Inductive ==
  /\ TypeOK /\ PaidOrderHasStock /\ ClosedOrderReturnsStock /\ DiscountIsRedeemed
  /\ JobsOK /\ LoyaltyOK /\ SweepOK /\ PaymentsOK

\* The invariant holds at the start.
LEMMA InductiveInit == Init => Inductive
<1> SUFFICES ASSUME Init PROVE Inductive
  OBVIOUS
<1> USE OrderAssumption DEF Init
<1>1. TypeOK
  BY DEF TypeOK, NoSweep, OrderStatuses
<1>2. \A o \in Orders : orders[o] \notin Fulfilment /\ orders[o] \notin Closed
  BY DEF Fulfilment, Closed
<1>3. PaidOrderHasStock /\ ClosedOrderReturnsStock /\ DiscountIsRedeemed
  BY <1>2 DEF PaidOrderHasStock, ClosedOrderReturnsStock, DiscountIsRedeemed
<1>4. JobsOK /\ SweepOK
  BY DEF JobsOK, SweepOK, NoSweep
<1>5. LoyaltyOK
  BY DEF LoyaltyOK
<1>6. PaymentsOK
  BY <1>2 DEF PaymentsOK, Payers
<1> QED
  BY <1>1, <1>3, <1>4, <1>5, <1>6 DEF Inductive

--------------------------------------------------------------------------------
(* What every step preserves *)

\* A step settles stock and points once, and opens no order again.
Persist ==
  \A o \in Orders :
    /\ stock[o] # "ACTIVE" => stock'[o] = stock[o]
    /\ loyalty[o] # "ACTIVE" => loyalty'[o] # "ACTIVE"
    /\ loyalty'[o] = "NONE" <=> loyalty[o] = "NONE"
    /\ o \in redeemed => o \in redeemed'
    /\ orders[o] \in Fulfilment => orders'[o] \in Fulfilment
    /\ orders[o] \in Closed => orders'[o] \in Closed

Job == Payment \cup Closing \cup Advancing

\* A job is of the kind that its target status says.
LEMMA JobKind ==
  ASSUME NEW j \in {Idle} \cup Job, j.step # "idle"
  PROVE  /\ j # Idle /\ j \in Job /\ j.order \in Orders
         /\ j.to = "PAID" => j \in Payment
         /\ j.to \in Closed => j \in Closing
         /\ j.to \notin Closed \cup {"PAID"} => j \in Advancing
BY DEF Idle, Job, Payment, Closing, Advancing, Closed, Fulfilment

\* What a handler relies on outlives the steps of the others.
LEMMA JobPersists ==
  ASSUME Persist, NEW j \in Job, JobOK(j, orders, stock, loyalty, redeemed)
  PROVE  JobOK(j, orders', stock', loyalty', redeemed')
<1>1. j.order \in Orders
  BY DEF Job, Payment, Closing, Advancing
<1> QED
  BY <1>1 DEF JobOK, Persist, Returned

\* A step that leaves the handlers alone keeps their jobs fitting.
LEMMA JobsPersist ==
  ASSUME TypeOK, JobsOK, Persist, UNCHANGED job
  PROVE  JobsOK'
<1> SUFFICES ASSUME NEW g \in Handlers, job[g] # Idle
             PROVE  JobOK(job[g], orders', stock', loyalty', redeemed')
  BY DEF JobsOK
<1>1. job[g] \in Job /\ JobOK(job[g], orders, stock, loyalty, redeemed)
  BY DEF TypeOK, JobsOK, Job
<1> QED
  BY <1>1, JobPersists

\* When one handler gets a job that fits, the jobs of all handlers fit.
LEMMA JobChanges ==
  ASSUME TypeOK, JobsOK, Persist, NEW h \in Handlers, NEW j \in Job \cup {Idle},
         job' = [job EXCEPT ![h] = j],
         j # Idle => JobOK(j, orders', stock', loyalty', redeemed')
  PROVE  job' \in [Handlers -> {Idle} \cup Payment \cup Closing \cup Advancing] /\ JobsOK'
<1>1. job' \in [Handlers -> {Idle} \cup Payment \cup Closing \cup Advancing]
  BY DEF TypeOK, Job
<1>2. ASSUME NEW g \in Handlers, job'[g] # Idle
      PROVE  JobOK(job'[g], orders', stock', loyalty', redeemed')
  <2>1. CASE g = h
    BY <1>2, <2>1 DEF TypeOK
  <2>2. CASE g # h
    <3>1. job'[g] = job[g] /\ job[g] \in Job /\ JobOK(job[g], orders, stock, loyalty, redeemed)
      BY <1>2, <2>2 DEF TypeOK, JobsOK, Job
    <3> QED
      BY <3>1, JobPersists
  <2> QED
    BY <2>1, <2>2
<1> QED
  BY <1>1, <1>2 DEF JobsOK

\* A step that writes no row keeps what relates them.
LEMMA RowsPersist ==
  ASSUME Inductive, UNCHANGED <<Rows, now>>
  PROVE  /\ Persist /\ PaidOrderHasStock' /\ ClosedOrderReturnsStock' /\ DiscountIsRedeemed'
         /\ LoyaltyOK' /\ PaymentsOK'
<1> USE DEF Inductive, Rows
<1>1. Persist
  BY DEF Persist
<1>2. PaidOrderHasStock' /\ ClosedOrderReturnsStock' /\ DiscountIsRedeemed'
  BY DEF PaidOrderHasStock, ClosedOrderReturnsStock, DiscountIsRedeemed
<1>3. LoyaltyOK' /\ PaymentsOK'
  BY DEF LoyaltyOK, PaymentsOK, Overdue
<1> QED
  BY <1>1, <1>2, <1>3

\* The reference date of a poll is never in the future, and the points it found
\* overdue stay so.
LEMMA SweepPersists ==
  ASSUME Inductive, Persist, now' \in {now, now + 1}, sweep' = sweep
  PROVE  SweepOK'
<1>1. now \in Nat /\ sweep.at \in Nat /\ sweep.due \subseteq Orders
  BY DEF Inductive, TypeOK
<1>2. sweep.at <= now'
  BY <1>1 DEF Inductive, SweepOK
<1>3. sweep.phase = "loyalty" =>
        \A o \in sweep.due : Overdue(o, sweep.at) /\ loyalty'[o] # "NONE"
  BY <1>1 DEF Inductive, SweepOK, Persist
<1> QED
  BY <1>2, <1>3 DEF SweepOK, Overdue

\* The worker's poll goes on with some of the orders it found.
SweepGoesOn ==
  /\ sweep' \in [phase : {"none", "orders", "loyalty"}, due : SUBSET Orders, at : Nat]
  /\ sweep'.at = sweep.at /\ sweep'.phase = sweep.phase /\ sweep'.due \subseteq sweep.due

\* A handler starts, goes on or ends without writing a row.
LEMMA HandlerStep ==
  ASSUME Inductive, UNCHANGED <<Rows, refused, now>>, NEW h \in Handlers, NEW j \in Job \cup {Idle},
         job' = [job EXCEPT ![h] = j],
         j # Idle => JobOK(j, orders, stock, loyalty, redeemed),
         sweep' \in {sweep, NoSweep} \/ SweepGoesOn,
         stray' \subseteq Orders \X {"CONFIRMED", "RELEASED"}
  PROVE  Inductive' /\ Persist
<1>1. /\ Persist /\ PaidOrderHasStock' /\ ClosedOrderReturnsStock' /\ DiscountIsRedeemed'
      /\ LoyaltyOK' /\ PaymentsOK'
  BY RowsPersist
<1>2. job' \in [Handlers -> {Idle} \cup Payment \cup Closing \cup Advancing] /\ JobsOK'
  BY <1>1, JobChanges DEF Inductive, Rows
<1>3. sweep' \in [phase : {"none", "orders", "loyalty"}, due : SUBSET Orders, at : Nat]
  BY DEF Inductive, TypeOK, NoSweep, SweepGoesOn
<1>4. TypeOK'
  BY <1>2, <1>3 DEF Inductive, TypeOK, Rows
<1>5. SweepOK'
  <2>1. CASE sweep' = sweep
    BY <1>1, <2>1, SweepPersists
  <2>2. CASE sweep' = NoSweep
    BY <2>2 DEF Inductive, TypeOK, SweepOK, NoSweep
  <2>3. CASE SweepGoesOn
    BY <2>3 DEF Inductive, SweepOK, Overdue, Rows, SweepGoesOn
  <2> QED
    BY <2>1, <2>2, <2>3
<1> QED
  BY <1>1, <1>2, <1>4, <1>5 DEF Inductive

--------------------------------------------------------------------------------
(* The steps that write no row *)

\* The first step of each use case keeps the invariant.
LEMMA BeginStep ==
  ASSUME Inductive, NEW h \in Requests, NEW o \in Orders,
         \/ \E k \in Keys : Pay(h, o, k)
         \/ Cancel(h, o)
         \/ \E to \in Fulfilment : Advance(h, o, to)
  PROVE  Inductive' /\ Persist
<1> USE DEF Handlers
<1>1. stray \subseteq Orders \X {"CONFIRMED", "RELEASED"}
      /\ orders[o] \in OrderStatuses
  BY DEF Inductive, TypeOK
<1>2. ASSUME NEW k \in Keys, Pay(h, o, k) PROVE Inductive' /\ Persist
  <2> DEFINE j == [step |-> "attempt", to |-> "PAID", order |-> o, seen |-> orders[o], key |-> k]
  <2>1. job' = [job EXCEPT ![h] = j] /\ UNCHANGED <<Rows, sweep, refused, stray, now>>
    BY <1>2 DEF Pay, Begin
  <2>2. j \in Job
    BY <1>1 DEF Job, Payment
  <2>3. JobOK(j, orders, stock, loyalty, redeemed)
    BY DEF JobOK, Closed, Fulfilment
  <2> HIDE DEF j
  <2> QED
    BY <1>1, <2>1, <2>2, <2>3, HandlerStep
<1>3. CASE Cancel(h, o)
  <2> DEFINE j == [step |-> "stock", to |-> "CANCELLED", order |-> o]
  <2>1. job' = [job EXCEPT ![h] = j] /\ UNCHANGED <<Rows, sweep, refused, stray, now>>
    BY <1>3 DEF Cancel, Begin
  <2>2. j \in Job
    BY DEF Job, Closing, Closed
  <2>3. JobOK(j, orders, stock, loyalty, redeemed)
    BY DEF JobOK, Closed, Fulfilment
  <2> HIDE DEF j
  <2> QED
    BY <1>1, <2>1, <2>2, <2>3, HandlerStep
<1>4. ASSUME NEW to \in Fulfilment, Advance(h, o, to) PROVE Inductive' /\ Persist
  <2> DEFINE j == [step |-> "save", to |-> to, order |-> o]
  <2>1. job' = [job EXCEPT ![h] = j] /\ UNCHANGED <<Rows, sweep, refused, stray, now>>
    BY <1>4 DEF Advance, Begin
  <2>2. orders[o] \in Fulfilment /\ to # "PAID"
    BY <1>1, <1>4 DEF Advance, NextStatus, Fulfilment, OrderStatuses, Closed
  <2>3. j \in Job
    BY <2>2 DEF Job, Advancing
  <2>4. JobOK(j, orders, stock, loyalty, redeemed)
    BY <2>2 DEF JobOK, Closed, Fulfilment
  <2> HIDE DEF j
  <2> QED
    BY <1>1, <2>1, <2>3, <2>4, HandlerStep
<1> QED
  BY <1>2, <1>3, <1>4

\* A handler going on to its next await.
LEMMA GoStep ==
  ASSUME Inductive, NEW h \in Handlers, ~At(h, "idle"), NEW step, Go(h, step),
         [job[h] EXCEPT !.step = step] \in Job,
         JobOK([job[h] EXCEPT !.step = step], orders, stock, loyalty, redeemed),
         UNCHANGED <<Rows, sweep, refused, stray, now>>
  PROVE  Inductive' /\ Persist
<1> DEFINE j == [job[h] EXCEPT !.step = step]
<1>1. job' = [job EXCEPT ![h] = j]
  BY DEF Go, Inductive, TypeOK
<1>2. stray' \subseteq Orders \X {"CONFIRMED", "RELEASED"}
  BY DEF Inductive, TypeOK
<1> HIDE DEF j
<1> QED
  BY <1>1, <1>2, HandlerStep DEF j

\* A handler that ends, and may leave a call under way and lose its poll.
LEMMA QuitStep ==
  ASSUME Inductive, NEW h \in Handlers, Quit(h),
         sweep' \in {sweep, NoSweep},
         stray' \subseteq Orders \X {"CONFIRMED", "RELEASED"},
         UNCHANGED <<Rows, refused, now>>
  PROVE  Inductive' /\ Persist
<1>1. Idle \in Job \cup {Idle} /\ job' = [job EXCEPT ![h] = Idle]
  BY DEF Quit
<1> QED
  BY <1>1, HandlerStep

\* Looking the points up keeps the invariant.
LEMMA FindLoyaltyStep ==
  ASSUME Inductive, NEW h \in Handlers, FindLoyalty(h)
  PROVE  Inductive' /\ Persist
<1> DEFINE j == job[h]
           next == IF loyalty[j.order] = "ACTIVE" THEN "prepare"
                   ELSE IF j.to = "PAID" THEN "mark" ELSE "save"
           i == [j EXCEPT !.step = next]
<1>1. j.step = "loyalty" /\ j \in {Idle} \cup Job /\ Go(h, next)
      /\ UNCHANGED <<Rows, sweep, refused, stray, now>>
  BY DEF FindLoyalty, At, Inductive, TypeOK, Job
<1>2. /\ j # Idle /\ j \in Job /\ j.order \in Orders
      /\ j.to = "PAID" => j \in Payment
      /\ j.to \in Closed => j \in Closing
      /\ j.to \notin Closed \cup {"PAID"} => j \in Advancing
  BY <1>1, JobKind
<1>3. j.to \in Closed \cup {"PAID"}
  BY <1>1, <1>2 DEF Advancing
<1>4. JobOK(j, orders, stock, loyalty, redeemed)
  BY <1>2 DEF Inductive, JobsOK
<1>5. i \in Job /\ i.step = next /\ i.to = j.to /\ i.order = j.order
  BY <1>1, <1>2, <1>3 DEF Job, Payment, Closing
<1>6. JobOK(i, orders, stock, loyalty, redeemed)
  <2> HIDE DEF i, j
  <2> QED
    BY <1>1, <1>3, <1>4, <1>5 DEF JobOK, Closed, Fulfilment
<1> HIDE DEF next
<1> QED
  BY <1>1, <1>5, <1>6, GoStep DEF At

\* The use case for the points reading them again keeps the invariant.
LEMMA PrepareLoyaltyStep ==
  ASSUME Inductive, NEW h \in Handlers, PrepareLoyalty(h)
  PROVE  Inductive' /\ Persist
<1> DEFINE j == job[h]
           i == [j EXCEPT !.step = "points"]
<1>1. j.step = "prepare" /\ j \in {Idle} \cup Job
      /\ UNCHANGED <<Rows, sweep, refused, stray, now>>
  BY DEF PrepareLoyalty, At, Inductive, TypeOK, Job
<1>2. /\ j # Idle /\ j \in Job /\ j.order \in Orders
      /\ j.to = "PAID" => j \in Payment
      /\ j.to \in Closed => j \in Closing
      /\ j.to \notin Closed \cup {"PAID"} => j \in Advancing
  BY <1>1, JobKind
<1>3. j.to \in Closed \cup {"PAID"}
  BY <1>1, <1>2 DEF Advancing
<1>4. JobOK(j, orders, stock, loyalty, redeemed)
  BY <1>2 DEF Inductive, JobsOK
<1>5. i \in Job /\ i.step = "points" /\ i.to = j.to /\ i.order = j.order
  BY <1>1, <1>2, <1>3 DEF Job, Payment, Closing
<1>6. /\ stray' \subseteq Orders \X {"CONFIRMED", "RELEASED"}
  BY <1>1 DEF Inductive, TypeOK
<1>7. CASE CanSettleLoyalty(j)
  <2>1. loyalty[j.order] # "NONE"
    BY <1>7 DEF CanSettleLoyalty, CanConsume, CanRelease
  <2>2. JobOK(i, orders, stock, loyalty, redeemed)
    <3> HIDE DEF i, j
    <3> QED
      BY <1>1, <1>3, <1>4, <1>5, <2>1 DEF JobOK, Closed, Fulfilment
  <2>3. Go(h, "points")
    BY <1>7 DEF PrepareLoyalty
  <2> QED
    BY <1>1, <1>5, <1>6, <2>2, <2>3, GoStep DEF At
<1>8. CASE ~CanSettleLoyalty(j)
  BY <1>1, <1>6, <1>8, QuitStep DEF PrepareLoyalty
<1> QED
  BY <1>7, <1>8

\* Looking the payment attempt up keeps the invariant.
LEMMA FindAttemptStep ==
  ASSUME Inductive, NEW h \in Handlers, FindAttempt(h)
  PROVE  Inductive' /\ Persist
<1> DEFINE j == job[h]
           i == [j EXCEPT !.step = "stock"]
<1>1. j.step = "attempt" /\ j \in {Idle} \cup Job /\ UNCHANGED <<Rows, sweep, refused, stray, now>>
  BY DEF FindAttempt, At, Inductive, TypeOK, Job
<1>2. j # Idle /\ j \in Payment
  BY <1>1 DEF Idle, Job, Payment, Closing, Advancing
<1>3. JobOK(j, orders, stock, loyalty, redeemed)
  BY <1>2 DEF Inductive, JobsOK
<1>4. i \in Job /\ i.step = "stock" /\ i.to = "PAID" /\ i.order = j.order
  BY <1>2 DEF Job, Payment
<1>5. JobOK(i, orders, stock, loyalty, redeemed)
  <2> HIDE DEF i, j
  <2> QED
    BY <1>4 DEF JobOK, Closed, Fulfilment
<1>6. /\ stray' \subseteq Orders \X {"CONFIRMED", "RELEASED"}
  BY <1>1 DEF Inductive, TypeOK
<1>7. Go(h, "stock") \/ Quit(h)
  BY DEF FindAttempt
<1> QED
  BY <1>1, <1>4, <1>5, <1>6, <1>7, GoStep, QuitStep DEF At

\* Checking that the order may be paid keeps the invariant: in time, its points
\* are redeemed, because only overdue ones expire.
LEMMA MarkAsPaidStep ==
  ASSUME Inductive, NEW h \in Handlers, MarkAsPaid(h)
  PROVE  Inductive' /\ Persist
<1> DEFINE j == job[h]
           i == [j EXCEPT !.step = "save"]
<1>1. j.step = "mark" /\ j \in {Idle} \cup Job /\ UNCHANGED <<Rows, sweep, refused, stray, now>>
  BY DEF MarkAsPaid, At, Inductive, TypeOK, Job
<1>2. j # Idle /\ j \in Payment /\ j.order \in Orders /\ j.to = "PAID"
  BY <1>1 DEF Idle, Job, Payment, Closing, Advancing
<1>3. JobOK(j, orders, stock, loyalty, redeemed)
  BY <1>2 DEF Inductive, JobsOK
<1>4. i \in Job /\ i.step = "save" /\ i.to = "PAID" /\ i.order = j.order
  BY <1>2 DEF Job, Payment
<1>5. /\ stray' \subseteq Orders \X {"CONFIRMED", "RELEASED"}
      /\ loyalty[j.order] \in {"NONE", "ACTIVE", "CONSUMED", "RELEASED", "EXPIRED"}
  BY <1>1, <1>2 DEF Inductive, TypeOK
<1>6. CASE ~Overdue(j.order, now) /\ Go(h, "save")
  <2>1. loyalty[j.order] = "NONE" \/ j.order \in redeemed
    <3>1. stock[j.order] = "CONFIRMED" /\ loyalty[j.order] # "ACTIVE"
      BY <1>1, <1>2, <1>3 DEF JobOK
    <3>2. loyalty[j.order] # "RELEASED" /\ loyalty[j.order] # "EXPIRED"
      BY <1>2, <1>6, <3>1 DEF Inductive, LoyaltyOK, Returned
    <3> QED
      BY <1>2, <1>5, <3>1, <3>2 DEF Inductive, LoyaltyOK
  <2>2. JobOK(i, orders, stock, loyalty, redeemed)
    <3> HIDE DEF i, j
    <3> QED
      BY <1>1, <1>2, <1>3, <1>4, <2>1 DEF JobOK, Closed, Fulfilment
  <2> QED
    BY <1>1, <1>4, <1>5, <1>6, <2>2, GoStep DEF At
<1>7. CASE Quit(h)
  BY <1>1, <1>5, <1>7, QuitStep
<1> QED
  BY <1>6, <1>7 DEF MarkAsPaid

\* A failing handler keeps the invariant.
LEMMA FailStep ==
  ASSUME Inductive, NEW h \in Handlers, Fail(h)
  PROVE  Inductive' /\ Persist
<1>1. job[h] \in {Idle} \cup Job /\ job[h].step # "idle"
  BY DEF Fail, At, Inductive, TypeOK, Job
<1>2. job[h].order \in Orders
  BY <1>1, JobKind
<1>3. Wanted(job[h]) \in {"CONFIRMED", "RELEASED"}
  BY DEF Wanted
<1>4. /\ stray' \subseteq Orders \X {"CONFIRMED", "RELEASED"}
      /\ sweep' \in {sweep, NoSweep} /\ UNCHANGED <<Rows, refused, now>> /\ Quit(h)
  BY <1>2, <1>3 DEF Fail, Inductive, TypeOK
<1> QED
  BY <1>4, QuitStep

--------------------------------------------------------------------------------
(* The worker's poll *)

\* A step of the poll that starts no job.
LEMMA SweepStep ==
  ASSUME Inductive, UNCHANGED <<Rows, job, refused, stray, now>>,
         sweep' \in [phase : {"none", "orders", "loyalty"}, due : SUBSET Orders, at : Nat],
         SweepOK'
  PROVE  Inductive' /\ Persist
<1>1. /\ Persist /\ PaidOrderHasStock' /\ ClosedOrderReturnsStock' /\ DiscountIsRedeemed'
      /\ LoyaltyOK' /\ PaymentsOK'
  BY RowsPersist
<1>2. JobsOK'
  BY <1>1, JobsPersist DEF Inductive
<1>3. TypeOK'
  BY DEF Inductive, TypeOK, Rows
<1> QED
  BY <1>1, <1>2, <1>3 DEF Inductive

\* The worker starting on its next order keeps the invariant.
LEMMA ExpireOrderStep ==
  ASSUME Inductive, NEW o \in Orders, ExpireOrder(o)
  PROVE  Inductive' /\ Persist
<1> DEFINE j == [step |-> "stock", to |-> "EXPIRED", order |-> o]
<1>1. /\ UNCHANGED <<Rows, refused, stray, now>> /\ Worker \in Handlers
      /\ sweep' = [sweep EXCEPT !.due = @ \ {o}]
  BY DEF ExpireOrder, Handlers
<1>2. SweepGoesOn
  BY <1>1 DEF SweepGoesOn, Inductive, TypeOK
<1>3. /\ stray' \subseteq Orders \X {"CONFIRMED", "RELEASED"}
  BY <1>1 DEF Inductive, TypeOK
<1>4. CASE UNCHANGED job
  <2>1. job' = [job EXCEPT ![Worker] = job[Worker]] /\ job[Worker] \in Job \cup {Idle}
    BY <1>1, <1>4 DEF Inductive, TypeOK, Job
  <2>2. job[Worker] # Idle => JobOK(job[Worker], orders, stock, loyalty, redeemed)
    BY <1>1 DEF Inductive, JobsOK
  <2> QED
    BY <1>1, <1>2, <1>3, <2>1, <2>2, HandlerStep
<1>5. CASE job' = [job EXCEPT ![Worker] = j]
  <2>1. j \in Job
    BY DEF Job, Closing, Closed
  <2>2. JobOK(j, orders, stock, loyalty, redeemed)
    BY DEF JobOK, Closed, Fulfilment
  <2> HIDE DEF j
  <2> QED
    BY <1>1, <1>2, <1>3, <1>5, <2>1, <2>2, HandlerStep
<1> QED
  BY <1>4, <1>5 DEF ExpireOrder, Begin

\* The worker expiring points keeps the invariant: the poll found them overdue.
LEMMA ExpireLoyaltyStep ==
  ASSUME Inductive, NEW o \in Orders, ExpireLoyalty(o)
  PROVE  Inductive' /\ Persist
<1> USE DEF Inductive
<1>1. /\ sweep' = [sweep EXCEPT !.due = @ \ {o}] /\ loyalty' = [loyalty EXCEPT ![o] = "EXPIRED"]
      /\ UNCHANGED <<orders, stock, redeemed, payments, job, refused, stray, now>>
      /\ sweep.phase = "loyalty" /\ o \in sweep.due
  BY DEF ExpireLoyalty
<1>2. /\ now \in Nat /\ sweep.at \in Nat /\ Deadline[o] \in Nat
      /\ Overdue(o, sweep.at) /\ loyalty[o] # "NONE" /\ sweep.at <= now
  BY <1>1, OrderAssumption DEF TypeOK, SweepOK
<1>3. Overdue(o, now)
  BY <1>2 DEF Overdue
<1>4. /\ \A p \in Orders \ {o} : loyalty'[p] = loyalty[p]
      /\ loyalty'[o] = "EXPIRED"
  BY <1>1 DEF TypeOK
<1>5. Persist
  BY <1>1, <1>2, <1>4 DEF Persist
<1>6. TypeOK'
  BY <1>1 DEF TypeOK
<1>7. JobsOK'
  BY <1>1, <1>5, JobsPersist
<1>8. PaidOrderHasStock' /\ ClosedOrderReturnsStock' /\ PaymentsOK'
  BY <1>1 DEF PaidOrderHasStock, ClosedOrderReturnsStock, PaymentsOK
<1>9. DiscountIsRedeemed'
  BY <1>1, <1>2, <1>4 DEF DiscountIsRedeemed
<1>10. LoyaltyOK'
  BY <1>1, <1>3, <1>4 DEF LoyaltyOK, Overdue
<1>11. SweepOK'
  <2>1. sweep'.at = sweep.at /\ sweep'.phase = sweep.phase /\ sweep'.due = sweep.due \ {o}
    BY <1>1 DEF TypeOK
  <2>2. sweep.due \subseteq Orders
    BY DEF TypeOK
  <2> QED
    BY <1>1, <1>4, <2>1, <2>2 DEF SweepOK, Overdue
<1> QED
  BY <1>5, <1>6, <1>7, <1>8, <1>9, <1>10, <1>11

\* The worker's poll keeps the invariant.
LEMMA PollStep == Inductive /\ Poll => Inductive' /\ Persist
<1> SUFFICES ASSUME Inductive, Poll PROVE Inductive' /\ Persist
  OBVIOUS
<1>1. CASE Sweep
  <2>1. sweep' = [phase |-> "orders", due |-> AwaitingPayment(now), at |-> now]
        /\ UNCHANGED <<Rows, job, refused, stray, now>> /\ now \in Nat
    BY <1>1 DEF Sweep, Inductive, TypeOK
  <2>2. AwaitingPayment(now) \subseteq Orders
    BY DEF AwaitingPayment
  <2>3. SweepOK'
    BY <2>1 DEF SweepOK
  <2> QED
    BY <2>1, <2>2, <2>3, SweepStep
<1>2. ASSUME NEW o \in Orders, ExpireOrder(o) PROVE Inductive' /\ Persist
  BY <1>2, ExpireOrderStep
<1>3. ASSUME NEW o \in Orders, ExpireLoyalty(o) PROVE Inductive' /\ Persist
  BY <1>3, ExpireLoyaltyStep
<1>4. CASE FindUnused
  <2>1. /\ sweep' = [sweep EXCEPT !.phase = "loyalty", !.due = Unused(sweep.at)]
        /\ UNCHANGED <<Rows, job, refused, stray, now>>
    BY <1>4 DEF FindUnused
  <2>2. /\ sweep'.at = sweep.at /\ sweep'.phase = "loyalty" /\ sweep'.due = Unused(sweep.at)
        /\ sweep' \in [phase : {"none", "orders", "loyalty"}, due : SUBSET Orders, at : Nat]
    BY <2>1 DEF Inductive, TypeOK, Unused
  <2>3. SweepOK'
    BY <2>1, <2>2 DEF Inductive, SweepOK, Unused, Overdue, Rows
  <2> QED
    BY <2>1, <2>2, <2>3, SweepStep
<1>5. CASE EndSweep \/ LoseSweep
  <2>1. sweep' = NoSweep /\ UNCHANGED <<Rows, job, refused, stray, now>> /\ now \in Nat
    BY <1>5 DEF EndSweep, LoseSweep, Inductive, TypeOK
  <2>2. SweepOK'
    BY <2>1 DEF SweepOK, NoSweep
  <2>3. sweep' \in [phase : {"none", "orders", "loyalty"}, due : SUBSET Orders, at : Nat]
    BY <2>1 DEF NoSweep
  <2> QED
    BY <2>1, <2>2, <2>3, SweepStep
<1> QED
  BY <1>1, <1>2, <1>3, <1>4, <1>5 DEF Poll

--------------------------------------------------------------------------------
(* The steps that write the stock *)

\* Settling the stock of an order once keeps what relates the rows.
LEMMA StockChanges ==
  ASSUME Inductive, NEW o \in Orders, NEW s \in {"ACTIVE", "CONFIRMED", "RELEASED", "EXPIRED"},
         stock[o] # "ACTIVE" => s = stock[o], stock' = [stock EXCEPT ![o] = s],
         UNCHANGED <<orders, loyalty, redeemed, payments, refused, now>>
  PROVE  /\ Persist /\ PaidOrderHasStock' /\ ClosedOrderReturnsStock' /\ DiscountIsRedeemed'
         /\ LoyaltyOK' /\ PaymentsOK' /\ stock'[o] = s
         /\ stock' \in [Orders -> {"ACTIVE", "CONFIRMED", "RELEASED", "EXPIRED"}]
<1> USE DEF Inductive
<1>1. /\ stock' \in [Orders -> {"ACTIVE", "CONFIRMED", "RELEASED", "EXPIRED"}]
      /\ stock'[o] = s /\ \A p \in Orders \ {o} : stock'[p] = stock[p]
  BY DEF TypeOK
<1>2. \A p \in Orders : stock[p] # "ACTIVE" => stock'[p] = stock[p]
  BY <1>1
<1>3. Persist
  BY <1>2 DEF Persist
<1>4. PaidOrderHasStock' /\ ClosedOrderReturnsStock' /\ DiscountIsRedeemed' /\ PaymentsOK'
  BY <1>2 DEF PaidOrderHasStock, ClosedOrderReturnsStock, DiscountIsRedeemed, PaymentsOK
<1>5. LoyaltyOK'
  BY <1>2 DEF LoyaltyOK, Overdue, Returned
<1> QED
  BY <1>1, <1>3, <1>4, <1>5

\* products-service settles a reservation once.
LEMMA SettledOnce ==
  ASSUME Inductive, NEW o \in Orders, NEW to \in {"CONFIRMED", "RELEASED"},
         NEW s \in Settled(o, to)
  PROVE  /\ s \in {"ACTIVE", "CONFIRMED", "RELEASED", "EXPIRED"}
         /\ stock[o] # "ACTIVE" => s = stock[o]
<1>1. stock[o] \in {"ACTIVE", "CONFIRMED", "RELEASED", "EXPIRED"}
  BY DEF Inductive, TypeOK
<1> QED
  BY <1>1 DEF Settled

\* A stock that settles without a handler keeps the invariant.
LEMMA StockStep ==
  ASSUME Inductive, NEW o \in Orders, NEW s \in {"ACTIVE", "CONFIRMED", "RELEASED", "EXPIRED"},
         stock[o] # "ACTIVE" => s = stock[o], stock' = [stock EXCEPT ![o] = s],
         stray' \subseteq stray,
         UNCHANGED <<orders, loyalty, redeemed, payments, job, sweep, refused, now>>
  PROVE  Inductive' /\ Persist
<1>1. /\ Persist /\ PaidOrderHasStock' /\ ClosedOrderReturnsStock' /\ DiscountIsRedeemed'
      /\ LoyaltyOK' /\ PaymentsOK'
      /\ stock' \in [Orders -> {"ACTIVE", "CONFIRMED", "RELEASED", "EXPIRED"}]
  BY StockChanges
<1>2. TypeOK'
  BY <1>1 DEF Inductive, TypeOK
<1>3. JobsOK' /\ SweepOK'
  BY <1>1, JobsPersist, SweepPersists DEF Inductive
<1> QED
  BY <1>1, <1>2, <1>3 DEF Inductive

\* A handler that settles the stock goes on only if it is settled its way.
LEMMA SettleStockStep ==
  ASSUME Inductive, NEW h \in Handlers, SettleStock(h)
  PROVE  Inductive' /\ Persist
<1> DEFINE j == job[h]
           i == [j EXCEPT !.step = "loyalty"]
           o == j.order
<1> PICK s \in Settled(o, Wanted(j)) : stock' = [stock EXCEPT ![o] = s]
  BY DEF SettleStock
<1>1. /\ j.step = "stock" /\ j \in {Idle} \cup Job /\ stock' = [stock EXCEPT ![o] = s]
      /\ UNCHANGED <<orders, loyalty, redeemed, payments, sweep, refused, stray, now>>
  BY DEF SettleStock, At, Inductive, TypeOK, Job
<1>2. /\ j # Idle /\ j \in Job /\ o \in Orders
      /\ j.to = "PAID" => j \in Payment
      /\ j.to \in Closed => j \in Closing
      /\ j.to \notin Closed \cup {"PAID"} => j \in Advancing
  BY <1>1, JobKind
<1>3. j.to \in Closed \cup {"PAID"}
  BY <1>1, <1>2 DEF Advancing
<1>4. i \in Job /\ i.step = "loyalty" /\ i.to = j.to /\ i.order = o
  BY <1>1, <1>2, <1>3 DEF Job, Payment, Closing
<1>5. Wanted(j) \in {"CONFIRMED", "RELEASED"}
  BY DEF Wanted
<1>6. /\ s \in {"ACTIVE", "CONFIRMED", "RELEASED", "EXPIRED"}
      /\ stock[o] # "ACTIVE" => s = stock[o]
  BY <1>2, <1>5, SettledOnce
<1>7. /\ Persist /\ PaidOrderHasStock' /\ ClosedOrderReturnsStock' /\ DiscountIsRedeemed'
      /\ LoyaltyOK' /\ PaymentsOK' /\ stock'[o] = s
      /\ stock' \in [Orders -> {"ACTIVE", "CONFIRMED", "RELEASED", "EXPIRED"}]
  <2> HIDE DEF o
  <2> QED
    BY <1>1, <1>2, <1>6, StockChanges
<1>8. job' \in [Handlers -> {Idle} \cup Payment \cup Closing \cup Advancing] /\ JobsOK'
  <2>1. (s \in Accepted(Wanted(j)) /\ Go(h, "loyalty")) \/ Quit(h)
    BY <1>7 DEF SettleStock
  <2>2. ASSUME s \in Accepted(Wanted(j)) /\ Go(h, "loyalty")
        PROVE  job' \in [Handlers -> {Idle} \cup Payment \cup Closing \cup Advancing] /\ JobsOK'
    <3>1. JobOK(i, orders', stock', loyalty', redeemed')
      <4>1. /\ j.to = "PAID" => s = "CONFIRMED"
            /\ j.to \in Closed => s \in Returned
        BY <2>2 DEF Wanted, Accepted, Closed, Returned
      <4> HIDE DEF i, j, o
      <4> QED
        BY <1>3, <1>4, <1>7, <4>1 DEF JobOK, Closed, Fulfilment
    <3>2. job' = [job EXCEPT ![h] = i]
      BY <2>2 DEF Go, Inductive, TypeOK
    <3> HIDE DEF i
    <3> QED
      BY <1>4, <1>7, <3>1, <3>2, JobChanges DEF Inductive
  <2>3. ASSUME Quit(h)
        PROVE  job' \in [Handlers -> {Idle} \cup Payment \cup Closing \cup Advancing] /\ JobsOK'
    <3>1. Idle \in Job \cup {Idle} /\ job' = [job EXCEPT ![h] = Idle]
      BY <2>3 DEF Quit
    <3> QED
      BY <1>7, <3>1, JobChanges DEF Inductive
  <2> QED
    BY <2>1, <2>2, <2>3
<1>9. TypeOK' /\ SweepOK'
  BY <1>1, <1>7, <1>8, SweepPersists DEF Inductive, TypeOK
<1> QED
  BY <1>7, <1>8, <1>9 DEF Inductive

--------------------------------------------------------------------------------
(* The steps that write the points *)

\* Redeeming the points keeps the invariant: the stock is confirmed by then.
LEMMA RedeemPointsStep ==
  ASSUME Inductive, NEW h \in Handlers, RedeemPoints(h)
  PROVE  Inductive' /\ Persist
<1> DEFINE j == job[h]
           i == [j EXCEPT !.step = "mark"]
           o == j.order
<1> USE DEF Inductive
<1>1. /\ j.step = "points" /\ j.to = "PAID" /\ j \in {Idle} \cup Job
      /\ UNCHANGED <<orders, stock, payments, sweep, refused, stray, now>>
  BY DEF RedeemPoints, At, TypeOK, Job
<1>2. j # Idle /\ j \in Payment /\ j \in Job /\ o \in Orders
  BY <1>1 DEF Idle, Job, Payment, Closing, Advancing, Closed, Fulfilment
<1>3. JobOK(j, orders, stock, loyalty, redeemed)
  BY <1>2 DEF JobsOK
<1>4. stock[o] = "CONFIRMED"
  BY <1>1, <1>3 DEF JobOK
<1>5. i \in Job /\ i.step = "mark" /\ i.to = "PAID" /\ i.order = o
  BY <1>1, <1>2 DEF Job, Payment
<1>6. CASE loyalty[o] = "ACTIVE"
  <2>1. /\ loyalty' = [loyalty EXCEPT ![o] = "CONSUMED"] /\ redeemed' = redeemed \cup {o}
        /\ Go(h, "mark")
    BY <1>6 DEF RedeemPoints
  <2>2. loyalty'[o] = "CONSUMED" /\ \A p \in Orders \ {o} : loyalty'[p] = loyalty[p]
    BY <1>2, <2>1 DEF TypeOK
  <2> HIDE DEF i, j, o
  <2>3. Persist
    BY <1>1, <1>6, <2>1, <2>2 DEF Persist
  <2>4. JobOK(i, orders', stock', loyalty', redeemed')
    BY <1>1, <1>4, <1>5, <2>2 DEF JobOK, Closed, Fulfilment
  <2>5. job' = [job EXCEPT ![h] = i]
    BY <2>1 DEF Go, TypeOK, i, j
  <2>6. job' \in [Handlers -> {Idle} \cup Payment \cup Closing \cup Advancing] /\ JobsOK'
    BY <1>5, <2>3, <2>4, <2>5, JobChanges
  <2>7. TypeOK'
    BY <1>1, <1>2, <2>1, <2>6 DEF TypeOK
  <2>8. PaidOrderHasStock' /\ ClosedOrderReturnsStock' /\ PaymentsOK'
    BY <1>1 DEF PaidOrderHasStock, ClosedOrderReturnsStock, PaymentsOK
  <2>9. DiscountIsRedeemed'
    <3>1. orders[o] \notin Closed
      BY <1>2, <1>4 DEF ClosedOrderReturnsStock
    <3> QED
      BY <1>1, <2>1, <2>2, <3>1 DEF DiscountIsRedeemed
  <2>10. LoyaltyOK'
    BY <1>1, <1>4, <2>1, <2>2 DEF LoyaltyOK, Overdue
  <2>11. SweepOK'
    BY <1>1, <2>3, SweepPersists
  <2> QED
    BY <2>3, <2>6, <2>7, <2>8, <2>9, <2>10, <2>11
<1>7. CASE loyalty[o] # "ACTIVE"
  <2>1. Quit(h) /\ UNCHANGED <<Rows, sweep, refused, stray, now>>
    BY <1>1, <1>7 DEF RedeemPoints, Rows
  <2>2. /\ stray' \subseteq Orders \X {"CONFIRMED", "RELEASED"}
    BY <1>1 DEF TypeOK
  <2> QED
    BY <2>1, <2>2, QuitStep
<1> QED
  BY <1>6, <1>7

\* Giving the points back keeps the invariant: the stock is returned by then.
LEMMA FreePointsStep ==
  ASSUME Inductive, NEW h \in Handlers, FreePoints(h)
  PROVE  Inductive' /\ Persist
<1> DEFINE j == job[h]
           i == [j EXCEPT !.step = "save"]
           o == j.order
<1> USE DEF Inductive
<1>1. /\ j.step = "points" /\ j.to \in Closed /\ j \in {Idle} \cup Job
      /\ loyalty' = [loyalty EXCEPT ![o] = "RELEASED"] /\ Go(h, "save")
      /\ UNCHANGED <<orders, stock, redeemed, payments, sweep, refused, stray, now>>
  BY DEF FreePoints, At, TypeOK, Job
<1>2. j # Idle /\ j \in Closing /\ j \in Job /\ o \in Orders
  BY <1>1 DEF Idle, Job, Payment, Closing, Advancing, Closed, Fulfilment
<1>3. JobOK(j, orders, stock, loyalty, redeemed)
  BY <1>2 DEF JobsOK
<1>4. stock[o] \in Returned /\ loyalty[o] # "NONE"
  BY <1>1, <1>3 DEF JobOK
<1>5. i \in Job /\ i.step = "save" /\ i.to \in Closed /\ i.order = o
  BY <1>1, <1>2 DEF Job, Closing
<1>6. loyalty'[o] = "RELEASED" /\ \A p \in Orders \ {o} : loyalty'[p] = loyalty[p]
  BY <1>1, <1>2 DEF TypeOK
<1>7. job' = [job EXCEPT ![h] = i]
  BY <1>1 DEF Go, TypeOK
<1> HIDE DEF i, j, o
<1>8. Persist
  BY <1>1, <1>4, <1>6 DEF Persist
<1>9. JobOK(i, orders', stock', loyalty', redeemed')
  BY <1>1, <1>4, <1>5, <1>6 DEF JobOK, Closed, Fulfilment
<1>10. job' \in [Handlers -> {Idle} \cup Payment \cup Closing \cup Advancing] /\ JobsOK'
  BY <1>5, <1>7, <1>8, <1>9, JobChanges
<1>11. TypeOK'
  BY <1>1, <1>2, <1>10 DEF TypeOK
<1>12. PaidOrderHasStock' /\ ClosedOrderReturnsStock' /\ PaymentsOK'
  BY <1>1 DEF PaidOrderHasStock, ClosedOrderReturnsStock, PaymentsOK
<1>13. DiscountIsRedeemed'
  <2>1. orders[o] \notin Fulfilment
    BY <1>2, <1>4 DEF PaidOrderHasStock, Returned
  <2> QED
    BY <1>1, <1>6, <2>1 DEF DiscountIsRedeemed
<1>14. LoyaltyOK'
  BY <1>1, <1>4, <1>6 DEF LoyaltyOK, Overdue, Returned
<1>15. SweepOK'
  BY <1>1, <1>8, SweepPersists
<1> QED
  BY <1>8, <1>10, <1>11, <1>12, <1>13, <1>14, <1>15

--------------------------------------------------------------------------------
(* The steps that write the order *)

\* The payment's transaction keeps the invariant: the order still awaited
\* payment, and its stock and points are settled by then.
LEMMA CompleteStep ==
  ASSUME Inductive, NEW h \in Handlers, Complete(h)
  PROVE  Inductive' /\ Persist
<1> DEFINE j == job[h]
           o == j.order
           k == j.key
<1> USE DEF Inductive
<1>1. /\ j.step = "save" /\ j.to = "PAID" /\ j \in {Idle} \cup Job /\ Quit(h)
      /\ UNCHANGED <<stock, loyalty, redeemed, sweep, refused, stray, now>>
  BY DEF Complete, At, TypeOK, Job
<1>2. j # Idle /\ j \in Payment /\ o \in Orders /\ k \in Keys
  BY <1>1 DEF Idle, Job, Payment, Closing, Advancing, Closed, Fulfilment
<1>3. JobOK(j, orders, stock, loyalty, redeemed)
  BY <1>2 DEF JobsOK
<1>4. stock[o] = "CONFIRMED" /\ (loyalty[o] = "NONE" \/ o \in redeemed)
  BY <1>1, <1>3 DEF JobOK
<1>6. CASE Payable(j)
  <2>1. /\ payments' = [payments EXCEPT ![k] = o] /\ orders' = [orders EXCEPT ![o] = "PAID"]
        /\ payments[k] = None /\ orders[o] = "CREATED"
    BY <1>6 DEF Complete, Payable
  <2> HIDE DEF j, o, k
  <2>2. orders'[o] = "PAID" /\ \A p \in Orders \ {o} : orders'[p] = orders[p]
    BY <1>2, <2>1 DEF TypeOK
  <2>3. /\ payments'[k] = o /\ \A l \in Keys \ {k} : payments'[l] = payments[l]
        /\ payments' \in [Keys -> Orders \cup {None}]
    BY <1>2, <2>1 DEF TypeOK
  <2>4. "CREATED" \notin Fulfilment /\ "CREATED" \notin Closed /\ "PAID" \in Fulfilment
        /\ "PAID" \notin Closed /\ "PAID" \in OrderStatuses
    BY DEF Fulfilment, Closed, OrderStatuses
  <2>5. Persist
    BY <1>1, <2>1, <2>2, <2>4 DEF Persist
  <2>6. job' \in [Handlers -> {Idle} \cup Payment \cup Closing \cup Advancing] /\ JobsOK'
    <3>1. Idle \in Job \cup {Idle} /\ job' = [job EXCEPT ![h] = Idle]
      BY <1>1 DEF Quit
    <3> QED
      BY <2>5, <3>1, JobChanges
  <2>8. TypeOK'
    BY <1>1, <1>2, <2>1, <2>3, <2>4, <2>6 DEF TypeOK
  <2>9. PaidOrderHasStock' /\ ClosedOrderReturnsStock' /\ DiscountIsRedeemed'
    BY <1>1, <1>4, <2>2, <2>4 DEF PaidOrderHasStock, ClosedOrderReturnsStock, DiscountIsRedeemed
  <2>10. PaymentsOK'
    <3>1. ASSUME NEW p \in Orders
          PROVE  IF orders'[p] \in Fulfilment THEN \E l \in Keys : Payers(payments', p) = {l}
                 ELSE Payers(payments', p) = {}
      <4>1. CASE p = o
        <5>1. Payers(payments, o) = {}
          BY <1>2, <2>1, <2>4 DEF PaymentsOK
        <5>2. Payers(payments', o) = {k}
          BY <1>2, <2>3, <5>1 DEF Payers
        <5> QED
          BY <1>2, <2>2, <2>4, <4>1, <5>2
      <4>2. CASE p # o
        <5>1. Payers(payments', p) = Payers(payments, p)
          BY <1>2, <2>1, <2>3, <4>2, OrderAssumption DEF Payers
        <5> QED
          BY <2>2, <4>2, <5>1 DEF PaymentsOK
      <4> QED
        BY <4>1, <4>2
    <3> QED
      BY <3>1 DEF PaymentsOK, Payers
  <2>11. LoyaltyOK' /\ SweepOK'
    BY <1>1, <2>5, SweepPersists DEF LoyaltyOK, Overdue
  <2> QED
    BY <2>5, <2>6, <2>8, <2>9, <2>10, <2>11
<1>7. CASE ~Payable(j)
  <2>1. UNCHANGED <<Rows, refused, now>>
    BY <1>1, <1>7 DEF Complete, Rows
  <2>2. stray' \subseteq Orders \X {"CONFIRMED", "RELEASED"} /\ sweep' \in {sweep, NoSweep}
    BY <1>1 DEF TypeOK
  <2> QED
    BY <1>1, <2>1, <2>2, QuitStep
<1> QED
  BY <1>6, <1>7

\* Saving the order keeps the invariant although it compares nothing: an order
\* whose stock is returned is not paid, and a paid one is only advanced.
LEMMA SaveOrderStep ==
  ASSUME Inductive, NEW h \in Handlers, SaveOrder(h)
  PROVE  Inductive' /\ Persist
<1> DEFINE j == job[h]
           o == j.order
           s == j.to
<1> USE DEF Inductive
<1>1. /\ j.step = "save" /\ s # "PAID" /\ j \in {Idle} \cup Job /\ Quit(h)
      /\ orders' = [orders EXCEPT ![o] = s]
      /\ UNCHANGED <<stock, loyalty, redeemed, payments, sweep, refused, stray, now>>
  BY DEF SaveOrder, At, TypeOK, Job
<1>2. /\ j # Idle /\ j \in Job /\ o \in Orders
      /\ s \in Closed \/ s \in Fulfilment \ {"PAID"}
  BY <1>1 DEF Idle, Job, Payment, Closing, Advancing, Closed, Fulfilment
<1>3. JobOK(j, orders, stock, loyalty, redeemed)
  BY <1>2 DEF JobsOK
<1>4. /\ s \in Closed => stock[o] \in Returned
      /\ s \in Fulfilment => orders[o] \in Fulfilment
  BY <1>1, <1>3 DEF JobOK
<1> HIDE DEF j, o, s
<1>5. orders'[o] = s /\ \A p \in Orders \ {o} : orders'[p] = orders[p]
  BY <1>1, <1>2 DEF TypeOK
<1>6. s \in OrderStatuses /\ ~(s \in Closed /\ s \in Fulfilment)
  BY <1>2 DEF OrderStatuses, Closed, Fulfilment
<1>7. s \in Closed => orders[o] \notin Fulfilment
  BY <1>2, <1>4 DEF PaidOrderHasStock, Returned
<1>8. s \in Fulfilment => orders[o] \notin Closed
  BY <1>4 DEF Closed, Fulfilment
<1>9. Persist
  BY <1>1, <1>2, <1>5, <1>7, <1>8 DEF Persist
<1>10. job' \in [Handlers -> {Idle} \cup Payment \cup Closing \cup Advancing] /\ JobsOK'
  <2>1. Idle \in Job \cup {Idle} /\ job' = [job EXCEPT ![h] = Idle]
    BY <1>1 DEF Quit
  <2> QED
    BY <1>9, <2>1, JobChanges
<1>12. TypeOK'
  BY <1>1, <1>2, <1>6, <1>10 DEF TypeOK
<1>13. PaidOrderHasStock' /\ ClosedOrderReturnsStock'
  BY <1>1, <1>2, <1>4, <1>5, <1>6
  DEF PaidOrderHasStock, ClosedOrderReturnsStock, Returned
<1>14. DiscountIsRedeemed'
  <2>1. s \in Closed => o \notin redeemed
    BY <1>2, <1>4 DEF LoyaltyOK, Returned
  <2> QED
    BY <1>1, <1>2, <1>4, <1>5, <1>6, <2>1 DEF DiscountIsRedeemed
<1>15. PaymentsOK'
  <2>1. \A p \in Orders : orders'[p] \in Fulfilment <=> orders[p] \in Fulfilment
    BY <1>2, <1>4, <1>5, <1>6, <1>7
  <2> QED
    BY <1>1, <2>1 DEF PaymentsOK, Payers
<1>16. LoyaltyOK' /\ SweepOK'
  BY <1>1, <1>9, SweepPersists DEF LoyaltyOK, Overdue
<1> QED
  BY <1>9, <1>10, <1>12, <1>13, <1>14, <1>15, <1>16

--------------------------------------------------------------------------------
(* All steps *)

\* The clock keeps the invariant: what was overdue stays so.
LEMMA TickStep ==
  ASSUME Inductive, Tick
  PROVE  Inductive' /\ Persist
<1> USE DEF Inductive
<1>1. now' = now + 1 /\ UNCHANGED <<Rows, job, sweep, refused, stray>>
      /\ now \in Nat /\ Deadline \in [Orders -> Nat]
  BY OrderAssumption DEF Tick, TypeOK
<1>2. Persist
  BY <1>1 DEF Persist, Rows
<1>3. PaidOrderHasStock' /\ ClosedOrderReturnsStock' /\ DiscountIsRedeemed' /\ PaymentsOK'
  BY <1>1 DEF Rows, PaidOrderHasStock, ClosedOrderReturnsStock, DiscountIsRedeemed, PaymentsOK
<1>4. LoyaltyOK'
  BY <1>1 DEF Rows, LoyaltyOK, Overdue
<1>5. TypeOK' /\ JobsOK' /\ SweepOK'
  BY <1>1, <1>2, JobsPersist, SweepPersists DEF Rows, TypeOK
<1> QED
  BY <1>2, <1>3, <1>4, <1>5

\* A catalogue that changes under a reservation keeps the invariant.
LEMMA CatalogChangesStep ==
  ASSUME Inductive, NEW o \in Orders, CatalogChanges(o)
  PROVE  Inductive' /\ Persist
<1>1. refused' \subseteq Orders /\ UNCHANGED <<Rows, job, sweep, stray, now>>
  BY DEF CatalogChanges, Inductive, TypeOK
<1>2. /\ Persist /\ PaidOrderHasStock' /\ ClosedOrderReturnsStock' /\ DiscountIsRedeemed'
      /\ LoyaltyOK' /\ PaymentsOK'
  BY <1>1, RowsPersist
<1>3. TypeOK' /\ JobsOK' /\ SweepOK'
  BY <1>1, <1>2, JobsPersist, SweepPersists DEF Rows, Inductive, TypeOK
<1> QED
  BY <1>2, <1>3 DEF Inductive

\* A stuttering step keeps the invariant.
LEMMA StutterStep ==
  ASSUME Inductive, UNCHANGED vars
  PROVE  Inductive' /\ Persist
<1>1. UNCHANGED <<Rows, job, sweep, refused, stray, now>>
  BY DEF vars, Rows
<1>2. /\ Persist /\ PaidOrderHasStock' /\ ClosedOrderReturnsStock' /\ DiscountIsRedeemed'
      /\ LoyaltyOK' /\ PaymentsOK'
  BY <1>1, RowsPersist
<1>3. TypeOK' /\ JobsOK' /\ SweepOK'
  BY <1>1, <1>2, JobsPersist, SweepPersists DEF Rows, Inductive, TypeOK
<1> QED
  BY <1>2, <1>3 DEF Inductive

\* Every step keeps the invariant, settles once and reopens nothing.
LEMMA InductiveStep == Inductive /\ [Next]_vars => Inductive' /\ Persist
<1> SUFFICES ASSUME Inductive, [Next]_vars PROVE Inductive' /\ Persist
  OBVIOUS
<1>1. ASSUME NEW h \in Requests, NEW o \in Orders,
             \/ \E k \in Keys : Pay(h, o, k)
             \/ Cancel(h, o)
             \/ \E to \in Fulfilment : Advance(h, o, to)
      PROVE  Inductive' /\ Persist
  BY <1>1, BeginStep
<1>2. ASSUME NEW h \in Handlers, Step(h) PROVE Inductive' /\ Persist
  BY <1>2, SettleStockStep, FindLoyaltyStep, PrepareLoyaltyStep, RedeemPointsStep,
     FreePointsStep, FindAttemptStep, MarkAsPaidStep, CompleteStep, SaveOrderStep, FailStep
     DEF Step
<1>3. CASE Poll
  BY <1>3, PollStep
<1>4. ASSUME NEW o \in Orders, StockExpires(o) PROVE Inductive' /\ Persist
  BY <1>4, StockStep DEF StockExpires
<1>5. ASSUME NEW o \in Orders, NEW to \in {"CONFIRMED", "RELEASED"}, ServeStray(o, to)
      PROVE  Inductive' /\ Persist
  <2>1. PICK s \in Settled(o, to) : stock' = [stock EXCEPT ![o] = s]
    BY <1>5 DEF ServeStray
  <2>2. /\ s \in {"ACTIVE", "CONFIRMED", "RELEASED", "EXPIRED"}
        /\ stock[o] # "ACTIVE" => s = stock[o]
    BY SettledOnce
  <2> QED
    BY <1>5, <2>1, <2>2, StockStep DEF ServeStray
<1>6. CASE Tick
  BY <1>6, TickStep
<1>7. ASSUME NEW o \in Orders, CatalogChanges(o) PROVE Inductive' /\ Persist
  BY <1>7, CatalogChangesStep
<1>8. CASE UNCHANGED vars
  BY <1>8, StutterStep
<1> QED
  BY <1>1, <1>2, <1>3, <1>4, <1>5, <1>6, <1>7, <1>8 DEF Next

\* The inductive invariant holds in every reachable state of the order lifecycle.
THEOREM OrderInvariant == Spec => []Inductive
<1>1. Inductive /\ [Next]_vars => Inductive'
  BY InductiveStep
<1> QED
  BY <1>1, InductiveInit, PTL DEF Spec

\* Every variable has its type.
THEOREM OrderTypes == Spec => []TypeOK
<1>1. Inductive => TypeOK
  BY DEF Inductive
<1> QED
  BY <1>1, OrderInvariant, PTL

\* An order that is paid for has its stock confirmed, whatever is cancelled or
\* expires in the meantime.
THEOREM OrderPaidHasStock == Spec => []PaidOrderHasStock
<1>1. Inductive => PaidOrderHasStock
  BY DEF Inductive
<1> QED
  BY <1>1, OrderInvariant, PTL

\* An order that is cancelled or expired has given its stock back.
THEOREM OrderClosedReturnsStock == Spec => []ClosedOrderReturnsStock
<1>1. Inductive => ClosedOrderReturnsStock
  BY DEF Inductive
<1> QED
  BY <1>1, OrderInvariant, PTL

\* A paid order has redeemed the points it was discounted by, and a closed one
\* has not.
THEOREM OrderDiscountIsRedeemed == Spec => []DiscountIsRedeemed
<1>1. Inductive => DiscountIsRedeemed
  BY DEF Inductive
<1> QED
  BY <1>1, OrderInvariant, PTL

\* Every paid order is paid by exactly one payment, and no other order by any.
THEOREM OrderOnePayment == Spec => []OnePaymentPerOrder
<1>1. Inductive => OnePaymentPerOrder
  <2> SUFFICES ASSUME Inductive, NEW o \in Orders
               PROVE  Cardinality(Payers(payments, o)) = IF orders[o] \in Fulfilment THEN 1 ELSE 0
    BY DEF OnePaymentPerOrder, Payers
  <2>1. CASE orders[o] \in Fulfilment
    BY <2>1, FS_Singleton DEF Inductive, PaymentsOK
  <2>2. CASE orders[o] \notin Fulfilment
    BY <2>2, FS_EmptySet DEF Inductive, PaymentsOK
  <2> QED
    BY <2>1, <2>2
<1> QED
  BY <1>1, OrderInvariant, PTL

\* Once an order is paid no step closes it or has it await payment again, and no
\* closed order is ever paid, although the handlers save the order blindly.
THEOREM OrderPaidIsFinal == Spec => PaidIsFinal
<1>1. Inductive /\ [Next]_vars =>
        [\A o \in Orders :
           /\ orders[o] \in Fulfilment => orders'[o] \in Fulfilment
           /\ orders[o] \in Closed => orders'[o] \in Closed]_vars
  BY InductiveStep DEF Persist
<1> QED
  BY <1>1, OrderInvariant, PTL DEF Spec, PaidIsFinal

================================================================================
