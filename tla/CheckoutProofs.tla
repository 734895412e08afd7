------------------------------- MODULE CheckoutProofs -------------------------------
(***************************************************************************)
(* Theorems about Checkout.tla for every value of its constants: its types *)
(* and every property that its run checks.                                 *)
(*                                                                         *)
(* A checkout awaits eight times and nothing is locked meanwhile.  What    *)
(* keeps it right is that its order id is its own (IdsAreOwned), that an   *)
(* order and the lines of a reservation never change, and that two reads   *)
(* of a cart with the same version have read the same items (ReadsFit).    *)
(***************************************************************************)
EXTENDS Checkout, FiniteSetTheorems, TLAPS

--------------------------------------------------------------------------------
(* The inductive invariant *)

Owning == {"reserve", "save", "release"}

\* An order id belongs to the request that made it, until it gives it up.
IdsAreOwned ==
  \A g, h \in Requests :
    /\ g # h /\ job[g].step \in Owning /\ job[h].step \in Owning
    => job[g].order # job[h].order

\* Shipping that was calculated for these items and this address.
Fitting(order) ==
  /\ order.shipping.items = order.items
  /\ order.shipping.address = order.request.address

\* The job j fits the orders ord and the reservations led.
JobOK(j, ord, led) ==
  /\ j.step = "reserve" => ord[j.order] = None /\ led[j.order].status = "ABSENT"
  /\ j.step = "save" =>
       /\ ord[j.order] = None
       /\ led[j.order].status # "ABSENT" /\ led[j.order].lines = j.draft.items
  /\ j.step \in {"reserve", "save"} =>
       Fitting(j.draft) /\ j.draft.shipping.version = j.version
  /\ j.step = "clear" =>
       /\ ord[j.order] # None /\ ord[j.order].request = j.request
       /\ j.again \/ ord[j.order].shipping.version = j.version

JobsOK == \A h \in Requests : JobOK(job[h], orders, ledger)

OrdersOK ==
  \A o \in Saved :
    /\ ledger[o].status # "ABSENT" /\ ledger[o].lines = orders[o].items
    /\ Fitting(orders[o])
    /\ \A p \in Saved : orders[p].request.key = orders[o].request.key => p = o

AnswersOK == \A x \in answers : x.order \in Saved /\ orders[x.order].request = x.request

Searching == {"replay", "cart", "coupon", "quote"}

\* The jobs that have read a cart, and what they have read.
HasRead(j) == j.step \in Searching \cup {"reserve", "save", "clear"}

Reading(j, ord) ==
  IF j.step \in Searching
  THEN [cart |-> j.request.cart, version |-> j.found.version, items |-> j.found.items]
  ELSE IF j.step = "clear"
  THEN [cart |-> j.request.cart, version |-> j.version, items |-> ord[j.order].items]
  ELSE [cart |-> j.draft.request.cart, version |-> j.version, items |-> j.draft.items]

\* A read is of the past, or of the cart as it is; so is a quote.
Fits(r, cs) ==
  /\ r.version <= cs[r.cart].version
  /\ r.version = cs[r.cart].version => r.items = cs[r.cart].items

Agree(r, q) == r.cart = q.cart /\ r.version = q.version => r.items = q.items

ReadsFit ==
  /\ \A q \in quotes : Fits(q, carts)
  /\ \A h \in Requests :
       HasRead(job[h]) =>
         /\ Fits(Reading(job[h], orders), carts)
         /\ \A q \in quotes : Agree(Reading(job[h], orders), q)

Inductive ==
  /\ TypeOK /\ NoStrandedStock
  /\ IdsAreOwned /\ JobsOK /\ OrdersOK /\ AnswersOK /\ ReadsFit

--------------------------------------------------------------------------------
(* What jobs and carts are *)

Jobs ==
  {Idle} \cup Looking \cup Revalidating \cup Quoting \cup Ordering \cup Releasing
    \cup Clearing \cup EditingCart \cup EditingCoupon

\* The step of a job says which fields it has.
LEMMA JobKind ==
  ASSUME NEW j \in Jobs
  PROVE  /\ j.step \in {"replay", "cart"} => j \in Looking
         /\ j.step = "coupon" => j \in Revalidating
         /\ j.step = "quote" => j \in Quoting
         /\ j.step \in {"reserve", "save"} => j \in Ordering
         /\ j.step = "release" => j \in Releasing
         /\ j.step = "clear" => j \in Clearing
         /\ j.step = "write" => j \in EditingCart
         /\ j.step = "upsert" => j \in EditingCoupon
         /\ j.step = "idle" => j = Idle
BY DEF Jobs, Idle, Looking, Revalidating, Quoting, Ordering, Releasing, Clearing,
       EditingCart, EditingCoupon

\* A line put among items leaves items.
LEMMA PutType ==
  ASSUME NEW items \in Items, NEW v \in Variants, NEW line \in Ledger!Line
  PROVE  Put(items, v, line) \in Items
<1>1. PICK S \in SUBSET Variants : items \in [S -> Ledger!Line]
  BY DEF Items, Empty, Ledger!Lines, Ledger!NoLines
<1>2. Put(items, v, line) \in [S \cup {v} -> Ledger!Line]
  BY <1>1 DEF Put
<1>3. S \cup {v} \in (SUBSET Variants) \ {{}}
  OBVIOUS
<1> QED
  BY <1>2, <1>3 DEF Items, Ledger!Lines

\* So does a line taken from them.
LEMMA DropType ==
  ASSUME NEW items \in Items, NEW v \in Variants
  PROVE  Drop(items, v) \in Items
<1>1. PICK S \in SUBSET Variants : items \in [S -> Ledger!Line]
  BY DEF Items, Empty, Ledger!Lines, Ledger!NoLines
<1>2. Drop(items, v) \in [S \ {v} -> Ledger!Line]
  BY <1>1 DEF Drop
<1>3. CASE S \ {v} = {}
  <2>1. Drop(items, v) = [w \in {} |-> items[w]]
    BY <1>1, <1>3 DEF Drop
  <2>2. [w \in {} |-> items[w]] = [w \in {} |-> 0]
    OBVIOUS
  <2> QED
    BY <2>1, <2>2 DEF Items, Empty, Ledger!NoLines
<1>4. CASE S \ {v} # {}
  BY <1>2, <1>4 DEF Items, Ledger!Lines
<1> QED
  BY <1>3, <1>4

\* Reading is a read of a cart.
LEMMA ReadingType ==
  ASSUME TypeOK, NEW h \in Requests, HasRead(job[h])
  PROVE  /\ Reading(job[h], orders).cart \in Carts
         /\ Reading(job[h], orders).version \in Nat
<1>1. job[h] \in Jobs
  BY DEF TypeOK, Jobs
<1> QED
  BY <1>1, JobKind DEF HasRead, Reading, Searching, Looking, Revalidating, Quoting, Ordering,
     Clearing, Found, Order, Request

--------------------------------------------------------------------------------
(* What every step keeps *)

\* The order o, and what was reserved for it, are as they were.
Kept(o) ==
  /\ orders'[o] = orders[o]
  /\ ledger'[o].lines = ledger[o].lines
  /\ ledger'[o].status = "ABSENT" <=> ledger[o].status = "ABSENT"

\* A cart that is written gets the next version.
CartsMove ==
  \A c \in Carts : carts'[c] = carts[c] \/ carts'[c].version = carts[c].version + 1

\* What a job relies on outlives a step that keeps its order.
LEMMA JobKept ==
  ASSUME TypeOK, NEW g \in Requests, JobOK(job[g], orders, ledger),
         job[g].step \in Owning \cup {"clear"} => Kept(job[g].order)
  PROVE  /\ JobOK(job[g], orders', ledger')
         /\ Reading(job[g], orders') = Reading(job[g], orders)
<1>1. JobOK(job[g], orders', ledger')
  BY DEF JobOK, Kept, Owning
<1>2. Reading(job[g], orders') = Reading(job[g], orders)
  BY DEF Reading, Kept
<1> QED
  BY <1>1, <1>2

\* A read stays one of the past.
LEMMA ReadKept ==
  ASSUME TypeOK, CartsMove, NEW r, r.cart \in Carts, r.version \in Nat, Fits(r, carts)
  PROVE  Fits(r, carts')
<1>1. carts[r.cart].version \in Nat
  BY DEF TypeOK, Cart
<1> QED
  BY <1>1 DEF Fits, CartsMove

\* The ids in use after a step are those in use before, but for a new one.
Continues(h, j) ==
  j.step \in Owning =>
    \/ job[h].step \in Owning /\ j.order = job[h].order
    \/ \A g \in Requests : job[g].step \in Owning => job[g].order # j.order

\* When one request goes on with a job that fits, everyone's job fits.
LEMMA JobChanges ==
  ASSUME Inductive, NEW h \in Requests, NEW j \in Jobs,
         job' = [job EXCEPT ![h] = j],
         UNCHANGED quotes, CartsMove,
         \A o \in Orders :
           Kept(o) \/ (job[h].step \in {"reserve", "save"} /\ o = job[h].order),
         JobOK(j, orders', ledger'),
         Continues(h, j),
         HasRead(j) =>
           /\ Fits(Reading(j, orders'), carts')
           /\ \A q \in quotes : Agree(Reading(j, orders'), q)
  PROVE  /\ job' \in [Requests -> Jobs]
         /\ IdsAreOwned' /\ JobsOK' /\ ReadsFit'
<1>1. TypeOK /\ IdsAreOwned /\ JobsOK /\ ReadsFit /\ job \in [Requests -> Jobs]
  BY DEF Inductive, TypeOK, Jobs
<1>2. /\ job' \in [Requests -> Jobs] /\ job'[h] = j
      /\ \A g \in Requests : g # h => job'[g] = job[g]
  BY <1>1
<1>3. IdsAreOwned'
  BY <1>1, <1>2 DEF IdsAreOwned, Continues
<1>4. ASSUME NEW g \in Requests, g # h
      PROVE  /\ JobOK(job[g], orders', ledger')
             /\ Reading(job[g], orders') = Reading(job[g], orders)
  <2>1. JobOK(job[g], orders, ledger) /\ JobOK(job[h], orders, ledger)
    BY <1>1 DEF JobsOK
  <2>2. ASSUME job[g].step \in Owning \cup {"clear"}
        PROVE  Kept(job[g].order)
    <3>1. job[g].order \in Orders
      BY <1>1, <2>2, JobKind DEF Owning, Ordering, Releasing, Clearing
    <3>2. job[h].step \in {"reserve", "save"} => job[g].order # job[h].order
      BY <1>1, <1>4, <2>1, <2>2 DEF IdsAreOwned, JobOK, Owning
    <3> QED
      BY <3>1, <3>2
  <2> QED
    BY <1>1, <2>1, <2>2, JobKept
<1>5. JobsOK'
  BY <1>2, <1>4 DEF JobsOK
<1>6. \A q \in quotes' : Fits(q, carts')
  BY <1>1, ReadKept DEF ReadsFit, TypeOK, Quote
<1>7. ASSUME NEW g \in Requests, HasRead(job'[g])
      PROVE  /\ Fits(Reading(job'[g], orders'), carts')
             /\ \A q \in quotes' : Agree(Reading(job'[g], orders'), q)
  <2>1. CASE g = h
    BY <1>2, <1>7, <2>1
  <2>2. CASE g # h
    BY <1>1, <1>2, <1>4, <1>7, <2>2, ReadingType, ReadKept DEF ReadsFit
  <2> QED
    BY <2>1, <2>2
<1> QED
  BY <1>2, <1>3, <1>5, <1>6, <1>7 DEF ReadsFit

\* A step that changes no order and no lines keeps orders and answers right.
LEMMA OrdersKept ==
  ASSUME OrdersOK, \A o \in Orders : Kept(o)
  PROVE  OrdersOK' /\ Saved' = Saved
<1>1. Saved' = Saved
  BY DEF Saved, Kept
<1>2. \A o \in Saved : o \in Orders
  BY DEF Saved
<1> QED
  BY <1>1, <1>2 DEF OrdersOK, Kept, Fitting

\* A step that changes what a request has in memory, and no table but the coupon.
LEMMA MemoryStep ==
  ASSUME Inductive, NEW h \in Requests, NEW j \in Jobs,
         job' = [job EXCEPT ![h] = j],
         UNCHANGED <<carts, quotes, orders, ledger, stranded>>,
         coupon' \in Coupon, answers' \subseteq Answer, AnswersOK',
         JobOK(j, orders, ledger), Continues(h, j),
         HasRead(j) =>
           /\ Fits(Reading(j, orders), carts)
           /\ \A q \in quotes : Agree(Reading(j, orders), q),
         job[h].step \in {"save", "release"} =>
           j.step \in {"save", "release"} /\ j.order = job[h].order
  PROVE  Inductive'
<1>1. TypeOK /\ OrdersOK /\ NoStrandedStock
  BY DEF Inductive
<1>2. CartsMove /\ \A o \in Orders : Kept(o)
  BY DEF CartsMove, Kept
<1>3. /\ job' \in [Requests -> Jobs]
      /\ IdsAreOwned' /\ JobsOK' /\ ReadsFit'
  BY <1>2, JobChanges
<1>4. OrdersOK'
  BY <1>1, <1>2, OrdersKept
<1>5. TypeOK'
  BY <1>1, <1>3 DEF TypeOK, Jobs
<1>6. NoStrandedStock'
  <2>1. \A g \in Requests :
          job[g].step \in {"save", "release"} =>
            job'[g].step \in {"save", "release"} /\ job'[g].order = job[g].order
    BY <1>1 DEF TypeOK
  <2> QED
    BY <1>1, <2>1 DEF NoStrandedStock, Held, Saved
<1> QED
  BY <1>3, <1>4, <1>5, <1>6 DEF Inductive

\* The same, of a request that forgets everything.
LEMMA QuitStep ==
  ASSUME Inductive, NEW h \in Requests, Quit(h),
         UNCHANGED <<carts, quotes, orders, ledger, stranded>>,
         coupon' \in Coupon, answers' \subseteq Answer, AnswersOK',
         job[h].step \notin {"save", "release"}
  PROVE  Inductive'
<1>1. /\ Idle \in Jobs /\ JobOK(Idle, orders, ledger) /\ Continues(h, Idle)
      /\ ~HasRead(Idle)
  BY DEF Jobs, Idle, JobOK, Continues, Owning, HasRead, Searching
<1> QED
  BY <1>1, MemoryStep DEF Quit

\* A request that has nothing in memory begins with a write or an upsert.
LEMMA EditStep ==
  ASSUME Inductive, NEW h \in Requests, NEW j \in EditingCart \cup EditingCoupon,
         Begin(h, j), UNCHANGED <<carts, coupon, quotes, orders, ledger, answers, stranded>>
  PROVE  Inductive'
<1>1. /\ j \in Jobs /\ JobOK(j, orders, ledger) /\ Continues(h, j)
      /\ ~HasRead(j)
  BY DEF EditingCart, EditingCoupon, Jobs, JobOK, Continues, Owning, HasRead, Searching
<1>2. coupon' \in Coupon /\ answers' \subseteq Answer /\ AnswersOK'
  BY DEF Inductive, TypeOK, AnswersOK, Saved
<1> QED
  BY <1>1, <1>2, MemoryStep DEF Begin, At

--------------------------------------------------------------------------------
(* Editing carts and coupons *)

\* Every edit of a cart reads the cart and prepares its write.
LEMMA ToWriteStep ==
  ASSUME Inductive, NEW h \in Requests, NEW c \in Carts, NEW items \in Items, NEW cp \in Nat,
         ToWrite(h, c, items, cp)
  PROVE  Inductive'
<1>1. carts[c].version \in Nat
  BY DEF Inductive, TypeOK, Cart
<1>2. [step |-> "write", cart |-> c,
       to |-> [version |-> carts[c].version, items |-> items, coupon |-> cp]] \in EditingCart
  BY <1>1 DEF EditingCart, Cart
<1> QED
  BY <1>2, EditStep DEF ToWrite

LEMMA EditCartStep ==
  ASSUME Inductive, NEW h \in Requests, NEW c \in Carts, EditCart(h, c)
  PROVE  Inductive'
<1>1. carts[c].items \in Items /\ carts[c].coupon \in Nat /\ coupon.version \in Nat
  BY DEF Inductive, TypeOK, Cart, Coupon
<1>2. ASSUME NEW v \in Variants, NEW line \in Ledger!Line, AddItem(h, c, v, line)
      PROVE  Inductive'
  <2> DEFINE items == carts[c].items
             more  == IF v \in DOMAIN items
                      THEN [items[v] EXCEPT !.quantity = @ + line.quantity] ELSE line
  <2>1. more.quantity <= MaxQuantity /\ ToWrite(h, c, Put(items, v, more), carts[c].coupon)
    BY <1>2 DEF AddItem
  <2>2. more \in Ledger!Line
    <3>1. CASE v \in DOMAIN items
      <4>1. PICK S \in SUBSET Variants : items \in [S -> Ledger!Line]
        BY <1>1 DEF Items, Empty, Ledger!Lines, Ledger!NoLines
      <4>2. items[v] \in Ledger!Line
        BY <3>1, <4>1
      <4> QED
        BY <2>1, <3>1, <4>2, CheckoutAssumption DEF Ledger!Line
    <3>2. CASE v \notin DOMAIN items
      BY <3>2
    <3> QED
      BY <3>1, <3>2
  <2>3. Put(items, v, more) \in Items
    BY <1>1, <2>2, PutType
  <2> QED
    BY <1>1, <2>1, <2>3, ToWriteStep
<1>3. ASSUME NEW v \in Variants, NEW line \in Ledger!Line, UpdateItemQuantity(h, c, v, line)
      PROVE  Inductive'
  BY <1>1, <1>3, PutType, ToWriteStep DEF UpdateItemQuantity
<1>4. ASSUME NEW v \in Variants, RemoveItem(h, c, v)
      PROVE  Inductive'
  BY <1>1, <1>4, DropType, ToWriteStep DEF RemoveItem
<1>5. CASE ApplyCoupon(h, c)
  BY <1>1, <1>5, ToWriteStep DEF ApplyCoupon
<1>6. CASE RemoveCoupon(h, c)
  BY <1>1, <1>6, ToWriteStep DEF RemoveCoupon
<1>7. CASE ChangeRedemption(h, c)
  BY <1>1, <1>7, ToWriteStep DEF ChangeRedemption
<1> QED
  BY <1>2, <1>3, <1>4, <1>5, <1>6, <1>7 DEF EditCart

LEMMA EditCouponStep ==
  ASSUME Inductive, NEW h \in Requests, EditCoupon(h)
  PROVE  Inductive'
<1>1. coupon \in Coupon
  BY DEF Inductive, TypeOK
<1>2. CASE DeleteCoupon(h)
  <2>1. [step |-> "upsert", to |-> [coupon EXCEPT !.live = FALSE]] \in EditingCoupon
    BY <1>1 DEF EditingCoupon, Coupon
  <2> QED
    BY <1>2, <2>1, EditStep DEF DeleteCoupon
<1>3. ASSUME NEW terms \in Terms, UpdateCoupon(h, terms)
      PROVE  Inductive'
  <2>1. [step |-> "upsert",
         to |-> [version |-> coupon.version + 1, terms |-> terms, live |-> TRUE]] \in EditingCoupon
    BY <1>1 DEF EditingCoupon, Coupon
  <2> QED
    BY <1>3, <2>1, EditStep DEF UpdateCoupon
<1> QED
  BY <1>2, <1>3 DEF EditCoupon

LEMMA SaveCouponStep ==
  ASSUME Inductive, NEW h \in Requests, SaveCoupon(h)
  PROVE  Inductive'
<1>1. job[h] \in EditingCoupon
  BY JobKind DEF Inductive, TypeOK, Jobs, SaveCoupon, At
<1>2. coupon' \in Coupon /\ answers' \subseteq Answer /\ AnswersOK'
  BY <1>1 DEF Inductive, TypeOK, AnswersOK, Saved, SaveCoupon, EditingCoupon
<1> QED
  BY <1>2, QuitStep DEF SaveCoupon, At

\* The only writes of a cart: the version that was read is the cart's, and the next
\* one replaces it.
LEMMA SaveMoves ==
  ASSUME TypeOK, NEW c \in Carts, NEW to \in Cart, to.version = carts[c].version, Save(c, to)
  PROVE  carts' \in [Carts -> Cart] /\ CartsMove
<1>1. [to EXCEPT !.version = @ + 1] \in Cart /\ [to EXCEPT !.version = @ + 1].version = to.version + 1
  BY DEF Cart
<1> QED
  BY <1>1 DEF TypeOK, Save, CartsMove

\* A step that changes carts, and lets a request go.
LEMMA CartStep ==
  ASSUME Inductive, NEW h \in Requests, Quit(h),
         job[h].step \notin {"save", "release"},
         carts' \in [Carts -> Cart], CartsMove,
         answers' \subseteq Answer, AnswersOK',
         UNCHANGED <<coupon, quotes, orders, ledger, stranded>>
  PROVE  Inductive'
<1>1. TypeOK /\ OrdersOK /\ NoStrandedStock
  BY DEF Inductive
<1>2. /\ Idle \in Jobs /\ JobOK(Idle, orders', ledger') /\ Continues(h, Idle)
      /\ ~HasRead(Idle)
  BY DEF Jobs, Idle, JobOK, Continues, Owning, HasRead, Searching
<1>3. \A o \in Orders : Kept(o)
  BY DEF Kept
<1>4. /\ job' \in [Requests -> Jobs]
      /\ IdsAreOwned' /\ JobsOK' /\ ReadsFit'
  BY <1>2, <1>3, JobChanges DEF Quit
<1>5. OrdersOK'
  BY <1>1, <1>3, OrdersKept
<1>6. TypeOK'
  BY <1>1, <1>4 DEF TypeOK, Jobs
<1>7. NoStrandedStock'
  <2>1. \A g \in Requests : job[g].step \in {"save", "release"} => job'[g] = job[g]
    BY <1>1 DEF TypeOK, Quit
  <2> QED
    BY <1>1, <2>1 DEF NoStrandedStock, Held, Saved
<1> QED
  BY <1>4, <1>5, <1>6, <1>7 DEF Inductive

LEMMA SaveCartStep ==
  ASSUME Inductive, NEW h \in Requests, SaveCart(h)
  PROVE  Inductive'
<1>1. TypeOK /\ job[h] \in EditingCart
  BY JobKind DEF Inductive, TypeOK, Jobs, SaveCart, At
<1>2. carts' \in [Carts -> Cart] /\ CartsMove
  <2>1. CASE Unchanged(job[h].cart, job[h].to.version)
    BY <1>1, <2>1, SaveMoves DEF SaveCart, Unchanged, EditingCart
  <2>2. CASE ~Unchanged(job[h].cart, job[h].to.version)
    BY <1>1, <2>2 DEF SaveCart, TypeOK, CartsMove
  <2> QED
    BY <2>1, <2>2
<1>3. answers' \subseteq Answer /\ AnswersOK'
  BY DEF Inductive, TypeOK, AnswersOK, Saved, SaveCart
<1> QED
  BY <1>2, <1>3, CartStep DEF SaveCart, At

LEMMA CalculateShippingStep ==
  ASSUME Inductive, NEW c \in Carts, NEW a \in Addresses, CalculateShipping(c, a)
  PROVE  Inductive'
<1> DEFINE quote == [cart |-> c, address |-> a, version |-> carts[c].version,
                     items |-> carts[c].items]
<1>1. TypeOK /\ ReadsFit
  BY DEF Inductive
<1>2. carts[c].version \in Nat /\ carts[c].items \in Items
  BY <1>1 DEF TypeOK, Cart
<1>3. quotes' = quotes \cup {quote} /\ quote \in Quote
  BY <1>2 DEF CalculateShipping, Quote
<1>4. Fits(quote, carts)
  BY <1>2 DEF Fits
<1>5. ASSUME NEW h \in Requests, HasRead(job[h])
      PROVE  Agree(Reading(job[h], orders), quote)
  BY <1>1, <1>5 DEF ReadsFit, Fits, Agree
<1>6. TypeOK'
  BY <1>1, <1>3 DEF TypeOK, CalculateShipping
<1>7. ReadsFit'
  BY <1>1, <1>3, <1>4, <1>5 DEF ReadsFit, CalculateShipping
<1>8. NoStrandedStock' /\ IdsAreOwned' /\ JobsOK' /\ OrdersOK' /\ AnswersOK'
  BY DEF Inductive, NoStrandedStock, IdsAreOwned, JobsOK, OrdersOK, AnswersOK, Held, Saved,
         CalculateShipping
<1> QED
  BY <1>6, <1>7, <1>8 DEF Inductive

--------------------------------------------------------------------------------
(* Looking for what has to be ordered *)

LEMMA FindCartStep ==
  ASSUME Inductive, NEW h \in Requests, NEW r \in Request, FindCart(h, r)
  PROVE  Inductive'
<1> DEFINE c == r.cart
           j == [step |-> "replay", request |-> r,
                 found |-> [version |-> carts[c].version, items |-> carts[c].items,
                            terms |-> Priced(c)]]
<1>1. TypeOK /\ ReadsFit /\ c \in Carts
  BY DEF Inductive, Request
<1>2. carts[c].version \in Nat /\ carts[c].items \in Items /\ Priced(c) \in Terms \cup {None}
  BY <1>1 DEF TypeOK, Cart, Coupon, Priced
<1>3. j \in Jobs /\ JobOK(j, orders, ledger) /\ Continues(h, j)
  BY <1>2 DEF Jobs, Looking, Found, JobOK, Continues, Owning
<1>4. Reading(j, orders) =
        [cart |-> c, version |-> carts[c].version, items |-> carts[c].items]
  BY DEF Reading, Searching
<1>5. /\ Fits(Reading(j, orders), carts)
      /\ \A q \in quotes : Agree(Reading(j, orders), q)
  BY <1>1, <1>2, <1>4 DEF Fits, Agree, ReadsFit
<1>6. coupon' \in Coupon /\ answers' \subseteq Answer /\ AnswersOK'
  BY DEF Inductive, TypeOK, AnswersOK, Saved, FindCart
<1> QED
  BY <1>3, <1>5, <1>6, MemoryStep DEF FindCart, Begin, At

\* A request that goes on searching knows what it knew.
LEMMA SearchStep ==
  ASSUME Inductive, NEW h \in Requests, NEW j \in Jobs, job' = [job EXCEPT ![h] = j],
         job[h].step \in Searching, j.step \in Searching,
         j.request = job[h].request, j.found = job[h].found,
         UNCHANGED <<carts, coupon, quotes, orders, ledger, answers, stranded>>
  PROVE  Inductive'
<1>1. JobOK(j, orders, ledger) /\ Continues(h, j)
  BY DEF JobOK, Continues, Owning, Searching
<1>2. Reading(j, orders) = Reading(job[h], orders) /\ HasRead(job[h])
  BY DEF Reading, HasRead
<1>3. coupon' \in Coupon /\ answers' \subseteq Answer /\ AnswersOK'
  BY DEF Inductive, TypeOK, AnswersOK, Saved
<1> QED
  BY <1>1, <1>2, <1>3, MemoryStep DEF Inductive, ReadsFit, Searching

\* A search that ends without a result.
LEMMA SearchEnds ==
  ASSUME Inductive, NEW h \in Requests, Quit(h), job[h].step \in Searching,
         UNCHANGED <<carts, coupon, quotes, orders, ledger, answers, stranded>>
  PROVE  Inductive'
<1>1. coupon' \in Coupon /\ answers' \subseteq Answer /\ AnswersOK'
  BY DEF Inductive, TypeOK, AnswersOK, Saved
<1> QED
  BY <1>1, QuitStep DEF Searching

LEMMA FindNoReplayStep ==
  ASSUME Inductive, NEW h \in Requests, FindNoReplay(h)
  PROVE  Inductive'
<1>1. job[h] \in Looking /\ job[h].step = "replay"
  BY JobKind DEF Inductive, TypeOK, Jobs, FindNoReplay, At
<1>2. CASE job[h].found.items = Empty
  BY <1>1, <1>2, SearchEnds DEF FindNoReplay, Searching
<1>3. CASE job[h].found.items # Empty
  <2>1. [job[h] EXCEPT !.step = "cart"] \in Looking
    BY <1>1 DEF Looking
  <2>2. job' = [job EXCEPT ![h] = [job[h] EXCEPT !.step = "cart"]]
    BY <1>3 DEF FindNoReplay, Go
  <2> QED
    BY <1>1, <2>1, <2>2, SearchStep DEF FindNoReplay, Searching, Jobs, Looking
<1> QED
  BY <1>2, <1>3

LEMMA RevalidateCartStep ==
  ASSUME Inductive, NEW h \in Requests, RevalidateCart(h)
  PROVE  Inductive'
<1> DEFINE j == [step |-> "coupon", request |-> job[h].request, found |-> job[h].found,
                 applied |-> carts[job[h].request.cart].coupon]
<1>1. job[h] \in Looking /\ job[h].step = "cart" /\ TypeOK
  BY JobKind DEF Inductive, TypeOK, Jobs, RevalidateCart, At
<1>2. job[h].request.cart \in Carts
  BY <1>1 DEF Looking, Request
<1>3. j \in Revalidating
  BY <1>1, <1>2 DEF TypeOK, Cart, Looking, Revalidating
<1> QED
  BY <1>1, <1>3, SearchStep DEF RevalidateCart, Searching, Jobs

LEMMA RevalidateCouponStep ==
  ASSUME Inductive, NEW h \in Requests, RevalidateCoupon(h)
  PROVE  Inductive'
<1> DEFINE j == [step |-> "quote", request |-> job[h].request, found |-> job[h].found]
<1>1. job[h] \in Revalidating /\ job[h].step = "coupon"
  BY JobKind DEF Inductive, TypeOK, Jobs, RevalidateCoupon, At
<1>2. j \in Quoting
  BY <1>1 DEF Revalidating, Quoting
<1>3. Quit(h) \/ job' = [job EXCEPT ![h] = j]
  BY DEF RevalidateCoupon
<1>4. CASE Quit(h)
  BY <1>1, <1>4, SearchEnds DEF RevalidateCoupon, Searching
<1>5. CASE job' = [job EXCEPT ![h] = j]
  BY <1>1, <1>2, <1>5, SearchStep DEF RevalidateCoupon, Searching, Jobs
<1> QED
  BY <1>3, <1>4, <1>5

LEMMA ReplayStep ==
  ASSUME Inductive, NEW h \in Requests, NEW o \in Orders, Replay(h, o)
  PROVE  Inductive'
<1> DEFINE j == job[h]
           matches == MatchesOrder(j.found.items, o)
<1>1. TypeOK /\ ReadsFit /\ AnswersOK /\ j \in Looking /\ j.step = "replay"
  BY JobKind DEF Inductive, TypeOK, Jobs, Replay, At
<1>2. orders[o] \in Order /\ orders[o] # None /\ orders[o].request.key = j.request.key
  BY <1>1 DEF Replay, MadeWith, Saved, TypeOK
<1>3. ASSUME SameRequest(j.request, o)
      PROVE  orders[o].request = j.request
  BY <1>1, <1>2, <1>3 DEF SameRequest, Order, Request, Looking
<1>4. coupon' \in Coupon
  BY <1>1 DEF TypeOK, Replay
<1>5. CASE SameRequest(j.request, o) /\ matches
  <2> DEFINE k == ToClear(j.request, o, j.found.version, TRUE)
  <2>1. job' = [job EXCEPT ![h] = k] /\ UNCHANGED answers
    BY <1>5 DEF Replay
  <2>2. k \in Jobs /\ JobOK(k, orders, ledger) /\ Continues(h, k)
    BY <1>1, <1>2, <1>3, <1>5
       DEF ToClear, Jobs, Clearing, Looking, Found, JobOK, Continues, Owning
  <2>3. Reading(k, orders) = Reading(j, orders) /\ HasRead(j)
    BY <1>1, <1>5 DEF Reading, ToClear, Searching, HasRead, MatchesOrder
  <2>4. answers' \subseteq Answer /\ AnswersOK'
    BY <1>1, <2>1 DEF TypeOK, AnswersOK, Saved, Replay
  <2> QED
    BY <1>1, <1>4, <2>1, <2>2, <2>3, <2>4, MemoryStep DEF Replay, ReadsFit
<1>6. CASE SameRequest(j.request, o) /\ ~matches
  <2>1. answers' = answers \cup {[request |-> j.request, order |-> o]}
    BY <1>6 DEF Replay, Reply
  <2>2. answers' \subseteq Answer
    BY <1>1, <2>1 DEF TypeOK, Answer, Looking
  <2>3. AnswersOK'
    BY <1>1, <1>2, <1>3, <1>6, <2>1 DEF AnswersOK, Saved, Replay
  <2> QED
    BY <1>1, <1>4, <1>6, <2>2, <2>3, QuitStep DEF Replay
<1>7. CASE ~SameRequest(j.request, o)
  BY <1>1, <1>7, SearchEnds DEF Replay, Searching
<1> QED
  BY <1>5, <1>6, <1>7

LEMMA CheckQuoteStep ==
  ASSUME Inductive, NEW h \in Requests, NEW o \in Orders, NEW q \in quotes, CheckQuote(h, q, o)
  PROVE  Inductive'
<1> DEFINE j == job[h]
           draft == [request |-> j.request, items |-> j.found.items, shipping |-> q,
                     terms |-> j.found.terms]
           k == [step |-> "reserve", order |-> o, version |-> j.found.version, draft |-> draft]
<1>1. TypeOK /\ ReadsFit /\ j \in Quoting /\ j.step = "quote" /\ q \in Quote
  BY JobKind DEF Inductive, TypeOK, Jobs, CheckQuote, At
<1>2. Agree(Reading(j, orders), q) /\ Fits(Reading(j, orders), carts)
      /\ \A p \in quotes : Agree(Reading(j, orders), p)
  BY <1>1 DEF ReadsFit, HasRead, Searching
<1>3. Fitting(draft)
  BY <1>1, <1>2 DEF Fitting, Agree, Reading, Searching, CheckQuote, IsValidFor
<1>4. draft \in Order /\ k \in Jobs
  BY <1>1 DEF Order, Quoting, Found, Ordering, Jobs
<1>5. JobOK(k, orders, ledger) /\ Continues(h, k)
  BY <1>1, <1>3 DEF JobOK, Continues, New, CheckQuote, Owning, IsValidFor
<1>6. Reading(k, orders) = Reading(j, orders)
  BY <1>1 DEF Reading, Searching
<1>7. coupon' \in Coupon /\ answers' \subseteq Answer /\ AnswersOK'
  BY DEF Inductive, TypeOK, AnswersOK, Saved, CheckQuote
<1> QED
  BY <1>1, <1>2, <1>4, <1>5, <1>6, <1>7, MemoryStep DEF CheckQuote

--------------------------------------------------------------------------------
(* The reservation and the order *)

\* What a reservation in products-service changes.
LEMMA ReserveLedger ==
  ASSUME TypeOK, NEW o \in Orders, NEW lines \in Items, Ledger!Reserve(o, lines, 0)
  PROVE  /\ ledger' \in [Orders -> Ledger!Reservation]
         /\ ledger[o].status = "ABSENT"
         /\ ledger'[o].status = "ACTIVE" /\ ledger'[o].lines = lines
         /\ \A p \in Orders : p # o => ledger'[p] = ledger[p]
BY DEF TypeOK, Ledger!Reserve, Ledger!Reservation, Ledger!Statuses, Items, Empty

\* What the end of one changes.
LEMMA SettleLedger ==
  ASSUME TypeOK, NEW o \in Orders, NEW s \in {"RELEASED", "EXPIRED"}, Ledger!Settle(o, s)
  PROVE  /\ ledger' \in [Orders -> Ledger!Reservation]
         /\ ledger[o].status = "ACTIVE"
         /\ ledger'[o].status = s /\ ledger'[o].lines = ledger[o].lines
         /\ \A p \in Orders : p # o => ledger'[p] = ledger[p]
BY DEF TypeOK, Ledger!Settle, Ledger!Reservation, Ledger!Statuses

\* A job that holds an order id, and the draft of that order.
LEMMA OrderingJob ==
  ASSUME Inductive, NEW h \in Requests, job[h].step \in {"reserve", "save"}
  PROVE  /\ job[h] \in Ordering /\ job[h].order \in Orders /\ job[h].draft \in Order
         /\ job[h].draft.items \in Items
         /\ orders[job[h].order] = None
         /\ JobOK(job[h], orders, ledger)
<1>1. job[h] \in Ordering
  BY JobKind DEF Inductive, TypeOK, Jobs
<1>2. JobOK(job[h], orders, ledger)
  BY DEF Inductive, JobsOK
<1> QED
  BY <1>1, <1>2 DEF Ordering, Order, JobOK

\* A step of the request that holds o, and of nobody else's order.
LEMMA OwnStep ==
  ASSUME Inductive, NEW h \in Requests, NEW j \in Jobs,
         job[h].step \in {"reserve", "save"},
         job' = [job EXCEPT ![h] = j],
         \A o \in Orders : o # job[h].order => Kept(o),
         JobOK(j, orders', ledger'),
         j.step \in Owning => j.order = job[h].order,
         HasRead(j) => Reading(j, orders') = Reading(job[h], orders),
         UNCHANGED <<carts, quotes>>
  PROVE  /\ job' \in [Requests -> Jobs]
         /\ IdsAreOwned' /\ JobsOK' /\ ReadsFit'
<1>1. CartsMove /\ Continues(h, j)
  BY DEF CartsMove, Continues, Owning
<1>2. ReadsFit /\ HasRead(job[h])
  BY DEF Inductive, HasRead
<1>3. /\ Fits(Reading(job[h], orders), carts)
      /\ \A q \in quotes : Agree(Reading(job[h], orders), q)
  BY <1>2 DEF ReadsFit
<1>4. \A o \in Orders :
        Kept(o) \/ (job[h].step \in {"reserve", "save"} /\ o = job[h].order)
  OBVIOUS
<1> QED
  BY <1>1, <1>3, <1>4, JobChanges

\* Other orders are as right as before when one that did not exist changes.
LEMMA OtherOrdersKept ==
  ASSUME Inductive, NEW o \in Orders, orders[o] = None, UNCHANGED orders,
         \A p \in Orders : p # o => Kept(p)
  PROVE  OrdersOK' /\ Saved' = Saved
<1>1. Saved' = Saved /\ o \notin Saved /\ OrdersOK
  BY DEF Saved, Inductive
<1>2. \A p \in Saved : Kept(p)
  BY <1>1 DEF Saved
<1> QED
  BY <1>1, <1>2 DEF OrdersOK, Kept, Fitting

\* Reserved stock that is still nobody's order is still watched, by the request
\* that has taken a step or by the one that did before.
LEMMA StockStaysWatched ==
  ASSUME TypeOK, NoStrandedStock, NEW h \in Requests, NEW j,
         job' = [job EXCEPT ![h] = j],
         \A o \in Held' \ (Saved' \cup stranded') :
           \/ j.step \in {"save", "release"} /\ j.order = o
           \/ /\ o \in Held \ (Saved \cup stranded)
              /\ ~(job[h].step \in {"save", "release"} /\ job[h].order = o)
  PROVE  NoStrandedStock'
<1>1. job'[h] = j /\ \A g \in Requests : g # h => job'[g] = job[g]
  BY DEF TypeOK
<1> SUFFICES ASSUME NEW o \in Held' \ (Saved' \cup stranded')
             PROVE  \E g \in Requests : job'[g].step \in {"save", "release"} /\ job'[g].order = o
  BY DEF NoStrandedStock
<1>2. CASE j.step \in {"save", "release"} /\ j.order = o
  BY <1>1, <1>2
<1>3. CASE /\ o \in Held \ (Saved \cup stranded)
           /\ ~(job[h].step \in {"save", "release"} /\ job[h].order = o)
  <2>1. PICK g \in Requests : job[g].step \in {"save", "release"} /\ job[g].order = o
    BY <1>3 DEF NoStrandedStock
  <2> QED
    BY <1>1, <1>3, <2>1
<1> QED
  BY <1>2, <1>3

LEMMA ReserveStep ==
  ASSUME Inductive, NEW h \in Requests, Reserve(h)
  PROVE  Inductive'
<1> DEFINE o == job[h].order
           j == [job[h] EXCEPT !.step = "save"]
<1>1. TypeOK /\ NoStrandedStock /\ AnswersOK /\ job[h].step = "reserve"
  BY DEF Inductive, Reserve, At
<1>2. /\ job[h] \in Ordering /\ o \in Orders /\ job[h].draft.items \in Items
      /\ orders[o] = None /\ JobOK(job[h], orders, ledger)
  BY <1>1, OrderingJob
<1>3. /\ ledger' \in [Orders -> Ledger!Reservation]
      /\ ledger[o].status = "ABSENT"
      /\ ledger'[o].status = "ACTIVE" /\ ledger'[o].lines = job[h].draft.items
      /\ \A p \in Orders : p # o => ledger'[p] = ledger[p]
  BY <1>1, <1>2, ReserveLedger DEF Reserve, Wanted
<1>4. job' = [job EXCEPT ![h] = j] /\ j \in Jobs
  BY <1>2 DEF Reserve, Go, Ordering, Jobs
<1>5. j.step = "save" /\ j.order = o /\ j.draft = job[h].draft /\ j.version = job[h].version
  BY <1>2 DEF Ordering
<1>6. JobOK(j, orders', ledger')
  BY <1>1, <1>2, <1>3, <1>5 DEF JobOK, Reserve
<1>7. Reading(j, orders') = Reading(job[h], orders)
  BY <1>1, <1>5 DEF Reading, Searching
<1>8. \A p \in Orders : p # o => Kept(p)
  BY <1>3 DEF Kept, Reserve
<1>9. job' \in [Requests -> Jobs] /\ IdsAreOwned' /\ JobsOK' /\ ReadsFit'
  BY <1>1, <1>4, <1>5, <1>6, <1>7, <1>8, OwnStep DEF Reserve
<1>10. OrdersOK' /\ Saved' = Saved
  BY <1>2, <1>8, OtherOrdersKept DEF Reserve
<1>11. TypeOK'
  BY <1>1, <1>3, <1>9 DEF TypeOK, Jobs, Reserve
<1>12. NoStrandedStock'
  <2>1. \A p \in Held' : p = o \/ p \in Held
    BY <1>3 DEF Held
  <2> QED
    BY <1>1, <1>4, <1>5, <1>10, <2>1, StockStaysWatched DEF Reserve
<1>13. AnswersOK'
  BY <1>1, <1>10 DEF AnswersOK, Reserve
<1> QED
  BY <1>9, <1>10, <1>11, <1>12, <1>13 DEF Inductive

LEMMA LoseReservationStep ==
  ASSUME Inductive, NEW h \in Requests, LoseReservation(h)
  PROVE  Inductive'
<1> DEFINE o == job[h].order
<1>1. TypeOK /\ NoStrandedStock /\ AnswersOK /\ job[h].step = "reserve"
  BY DEF Inductive, LoseReservation, At
<1>2. /\ o \in Orders /\ job[h].draft.items \in Items
      /\ orders[o] = None /\ JobOK(job[h], orders, ledger)
  BY <1>1, OrderingJob
<1>3. /\ ledger' \in [Orders -> Ledger!Reservation]
      /\ \A p \in Orders : p # o => ledger'[p] = ledger[p]
  BY <1>1, <1>2, ReserveLedger DEF LoseReservation, Wanted
<1>4. job' = [job EXCEPT ![h] = Idle] /\ Idle \in Jobs
  BY DEF LoseReservation, Quit, Jobs
<1>5. JobOK(Idle, orders', ledger') /\ ~HasRead(Idle) /\ Idle.step \notin Owning
  BY DEF Idle, JobOK, HasRead, Searching, Owning
<1>6. \A p \in Orders : p # o => Kept(p)
  BY <1>3 DEF Kept, LoseReservation
<1>7. job' \in [Requests -> Jobs] /\ IdsAreOwned' /\ JobsOK' /\ ReadsFit'
  BY <1>1, <1>4, <1>5, <1>6, OwnStep DEF LoseReservation
<1>8. OrdersOK' /\ Saved' = Saved
  BY <1>2, <1>6, OtherOrdersKept DEF LoseReservation
<1>9. TypeOK'
  BY <1>1, <1>2, <1>3, <1>7 DEF TypeOK, Jobs, LoseReservation
<1>10. NoStrandedStock'
  <2>1. \A p \in Held' : p = o \/ p \in Held
    BY <1>3 DEF Held
  <2> QED
    BY <1>1, <1>4, <1>8, <2>1, StockStaysWatched DEF LoseReservation
<1>11. AnswersOK'
  BY <1>1, <1>8 DEF AnswersOK, LoseReservation
<1> QED
  BY <1>7, <1>8, <1>9, <1>10, <1>11 DEF Inductive

\* The request turns to releasing what it has reserved.
LEMMA RefuseOrderStep ==
  ASSUME Inductive, NEW h \in Requests, RefuseOrder(h)
  PROVE  Inductive'
<1> DEFINE j == [step |-> "release", order |-> job[h].order]
<1>1. job[h].step = "save" /\ job[h].order \in Orders
  BY OrderingJob DEF RefuseOrder, At
<1>2. j \in Jobs /\ JobOK(j, orders, ledger) /\ Continues(h, j) /\ ~HasRead(j)
  BY <1>1 DEF Jobs, Releasing, JobOK, Continues, Owning, HasRead, Searching
<1>3. coupon' \in Coupon /\ answers' \subseteq Answer /\ AnswersOK'
  BY DEF Inductive, TypeOK, AnswersOK, Saved, RefuseOrder
<1> QED
  BY <1>1, <1>2, <1>3, MemoryStep DEF RefuseOrder, AfterRefusal

LEMMA SaveOrderStep ==
  ASSUME Inductive, NEW h \in Requests, SaveOrder(h)
  PROVE  Inductive'
<1> DEFINE o == job[h].order
           d == job[h].draft
           k == ToClear(d.request, o, job[h].version, FALSE)
           l == [step |-> "release", order |-> o]
<1>1. /\ TypeOK /\ NoStrandedStock /\ AnswersOK /\ OrdersOK
      /\ job[h].step = "save" /\ MadeWith(d.request.key) = {}
  BY DEF Inductive, SaveOrder, At, Insertable
<1>2. /\ job[h] \in Ordering /\ o \in Orders /\ d \in Order
      /\ orders[o] = None /\ JobOK(job[h], orders, ledger)
  BY <1>1, OrderingJob
<1>3. /\ orders' \in [Orders -> Order \cup {None}] /\ orders'[o] = d
      /\ \A p \in Orders : p # o => orders'[p] = orders[p]
  BY <1>1, <1>2 DEF TypeOK, SaveOrder
<1>4. d # None
  BY <1>2, NoneIsNoOrder
<1>5. Saved' = Saved \cup {o}
  BY <1>2, <1>3, <1>4 DEF Saved
<1>6. PICK j \in {k, l} : job' = [job EXCEPT ![h] = j]
  BY DEF SaveOrder, AfterRefusal
<1>7. j \in Jobs
  <2>1. k \in Clearing
    BY <1>2 DEF ToClear, Clearing, Ordering, Order
  <2>2. l \in Releasing
    BY <1>2 DEF Releasing
  <2> QED
    BY <1>6, <2>1, <2>2 DEF Jobs
<1>8. JobOK(j, orders', ledger')
  <2>1. d.shipping.version = job[h].version
    BY <1>1, <1>2 DEF JobOK
  <2>2. JobOK(k, orders', ledger')
    BY <1>3, <1>4, <2>1 DEF JobOK, ToClear
  <2>3. JobOK(l, orders', ledger')
    BY DEF JobOK
  <2> QED
    BY <1>6, <2>2, <2>3
<1>9. j.step \in Owning => j.order = o
  BY DEF ToClear, Owning
<1>10. HasRead(j) => Reading(j, orders') = Reading(job[h], orders)
  BY <1>1, <1>3 DEF HasRead, Reading, ToClear, Searching
<1>11. \A p \in Orders : p # o => Kept(p)
  BY <1>3 DEF Kept, SaveOrder
<1>12. job' \in [Requests -> Jobs] /\ IdsAreOwned' /\ JobsOK' /\ ReadsFit'
  BY <1>1, <1>6, <1>7, <1>8, <1>9, <1>10, <1>11, OwnStep DEF SaveOrder
<1>13. OrdersOK'
  <2>1. \A p \in Saved : p # o /\ p \in Orders /\ orders'[p] = orders[p]
    BY <1>2, <1>3 DEF Saved
  <2>2. \A p \in Saved : orders[p].request.key # d.request.key
    BY <1>1 DEF MadeWith
  <2>3. ledger[o].status # "ABSENT" /\ ledger[o].lines = d.items /\ Fitting(d)
    BY <1>1, <1>2 DEF JobOK
  <2> QED
    BY <1>1, <1>3, <1>5, <2>1, <2>2, <2>3 DEF OrdersOK, Fitting, SaveOrder
<1>14. TypeOK'
  BY <1>1, <1>3, <1>12 DEF TypeOK, Jobs, SaveOrder
<1>15. NoStrandedStock'
  <2>1. Held' = Held
    BY DEF Held, SaveOrder
  <2> QED
    BY <1>1, <1>5, <1>6, <2>1, StockStaysWatched DEF SaveOrder
<1>16. AnswersOK'
  BY <1>1, <1>2, <1>3, <1>5 DEF AnswersOK, SaveOrder, Saved
<1> QED
  BY <1>12, <1>13, <1>14, <1>15, <1>16 DEF Inductive

LEMMA ReleaseStep ==
  ASSUME Inductive, NEW h \in Requests, Release(h)
  PROVE  Inductive'
<1> DEFINE o == job[h].order
<1>1. TypeOK /\ NoStrandedStock /\ AnswersOK /\ OrdersOK /\ job[h].step = "release"
  BY DEF Inductive, Release, At
<1>2. o \in Orders
  BY <1>1, JobKind DEF TypeOK, Jobs, Releasing
<1>3. /\ ledger' \in [Orders -> Ledger!Reservation]
      /\ \A p \in Orders : Kept(p)
      /\ Held' = Held \ {o}
  <2>1. CASE o \in Held
    <3>1. Ledger!Settle(o, "RELEASED")
      BY <2>1 DEF Release
    <3> QED
      BY <1>1, <1>2, <3>1, SettleLedger DEF Held, Kept, Release
  <2>2. CASE o \notin Held
    BY <1>1, <2>2 DEF Held, Kept, Release, TypeOK
  <2> QED
    BY <2>1, <2>2
<1>4. /\ Idle \in Jobs /\ JobOK(Idle, orders', ledger') /\ Continues(h, Idle)
      /\ ~HasRead(Idle)
  BY DEF Jobs, Idle, JobOK, Continues, Owning, HasRead, Searching
<1>5. CartsMove
  BY DEF CartsMove, Release
<1>6. /\ job' \in [Requests -> Jobs]
      /\ IdsAreOwned' /\ JobsOK' /\ ReadsFit'
  BY <1>3, <1>4, <1>5, JobChanges DEF Release, Quit
<1>7. OrdersOK' /\ Saved' = Saved
  BY <1>1, <1>3, OrdersKept
<1>8. TypeOK'
  BY <1>1, <1>3, <1>6 DEF TypeOK, Jobs, Release
<1>9. NoStrandedStock'
  BY <1>1, <1>3, <1>7, StockStaysWatched DEF Release, Quit
<1>10. AnswersOK'
  BY <1>1, <1>7 DEF AnswersOK, Release
<1> QED
  BY <1>6, <1>7, <1>8, <1>9, <1>10 DEF Inductive

LEMMA ClearCartStep ==
  ASSUME Inductive, NEW h \in Requests, ClearCart(h)
  PROVE  Inductive'
<1> DEFINE j == job[h]
<1>1. /\ TypeOK /\ AnswersOK /\ j \in Clearing /\ j.step = "clear"
      /\ JobOK(j, orders, ledger)
  BY JobKind DEF Inductive, TypeOK, Jobs, JobsOK, ClearCart, At
<1>2. /\ j.request \in Request /\ j.request.cart \in Carts /\ j.order \in Saved
      /\ orders[j.order].request = j.request
  BY <1>1 DEF Clearing, Request, JobOK, Saved
<1>3. CASE Unchanged(j.request.cart, j.version)
  <2> DEFINE to == [version |-> j.version, items |-> Empty, coupon |-> 0]
  <2>1. to \in Cart /\ to.version = carts[j.request.cart].version
    BY <1>1, <1>3 DEF Clearing, Cart, Items, Unchanged
  <2>2. carts' \in [Carts -> Cart] /\ CartsMove
    BY <1>1, <1>2, <1>3, <2>1, SaveMoves DEF ClearCart
  <2>3. answers' = answers \cup {[request |-> j.request, order |-> j.order]}
    BY <1>3 DEF ClearCart, Reply
  <2>4. answers' \subseteq Answer /\ AnswersOK'
    BY <1>1, <1>2, <2>3 DEF TypeOK, Answer, AnswersOK, Saved, ClearCart
  <2> QED
    BY <1>1, <2>2, <2>4, CartStep DEF ClearCart
<1>4. CASE ~Unchanged(j.request.cart, j.version)
  <2>1. carts' \in [Carts -> Cart] /\ CartsMove /\ answers' \subseteq Answer /\ AnswersOK'
    BY <1>1, <1>4 DEF TypeOK, CartsMove, AnswersOK, Saved, ClearCart
  <2> QED
    BY <1>1, <2>1, CartStep DEF ClearCart
<1> QED
  BY <1>3, <1>4

--------------------------------------------------------------------------------
(* Failures *)

LEMMA FailStep ==
  ASSUME Inductive, NEW h \in Requests, Fail(h)
  PROVE  Inductive'
<1>1. TypeOK /\ NoStrandedStock /\ AnswersOK /\ OrdersOK
  BY DEF Inductive
<1>2. /\ Idle \in Jobs /\ JobOK(Idle, orders', ledger') /\ Continues(h, Idle)
      /\ ~HasRead(Idle)
  BY DEF Jobs, Idle, JobOK, Continues, Owning, HasRead, Searching
<1>3. CartsMove /\ \A o \in Orders : Kept(o)
  BY DEF CartsMove, Kept, Fail
<1>4. /\ job' \in [Requests -> Jobs]
      /\ IdsAreOwned' /\ JobsOK' /\ ReadsFit'
  BY <1>2, <1>3, JobChanges DEF Fail, Quit
<1>5. OrdersOK' /\ Saved' = Saved /\ Held' = Held
  BY <1>1, <1>3, OrdersKept DEF Held, Fail
<1>6. TypeOK'
  BY <1>1, <1>4 DEF TypeOK, Jobs, Held, Fail
<1>7. NoStrandedStock'
  BY <1>1, <1>5, StockStaysWatched DEF Fail, Quit
<1>8. AnswersOK'
  BY <1>1, <1>5 DEF AnswersOK, Fail
<1> QED
  BY <1>4, <1>5, <1>6, <1>7, <1>8 DEF Inductive

LEMMA ExpireStep ==
  ASSUME Inductive, NEW o \in Orders, Expire(o)
  PROVE  Inductive'
<1>1. TypeOK /\ NoStrandedStock /\ AnswersOK /\ OrdersOK /\ JobsOK /\ ReadsFit
  BY DEF Inductive
<1>2. /\ ledger' \in [Orders -> Ledger!Reservation]
      /\ \A p \in Orders : Kept(p)
      /\ Held' = Held \ {o}
  BY <1>1, SettleLedger DEF Held, Kept, Expire
<1>3. OrdersOK' /\ Saved' = Saved
  BY <1>1, <1>2, OrdersKept
<1>4. \A g \in Requests : job[g].step \in Owning \cup {"clear"} => job[g].order \in Orders
  BY <1>1, JobKind DEF TypeOK, Jobs, Owning, Ordering, Releasing, Clearing
<1>5. \A g \in Requests :
        /\ JobOK(job[g], orders', ledger')
        /\ Reading(job[g], orders') = Reading(job[g], orders)
  BY <1>1, <1>2, <1>4, JobKept DEF JobsOK
<1>6. JobsOK' /\ ReadsFit'
  BY <1>1, <1>5 DEF JobsOK, ReadsFit, Expire
<1>7. TypeOK' /\ IdsAreOwned' /\ AnswersOK'
  BY <1>1, <1>2, <1>3 DEF Inductive, TypeOK, IdsAreOwned, AnswersOK, Expire
<1>8. NoStrandedStock'
  BY <1>1, <1>2, <1>3 DEF NoStrandedStock, Expire
<1> QED
  BY <1>3, <1>6, <1>7, <1>8 DEF Inductive

--------------------------------------------------------------------------------
(* The specification *)

LEMMA InitInductive ==
  ASSUME Init
  PROVE  Inductive
<1>1. \A h \in Requests : job[h] = Idle
  BY DEF Init
<1>2. Saved = {} /\ Held = {}
  BY DEF Init, Saved, Held, Ledger!Init, Ledger!Absent
<1>3. TypeOK
  <2>1. carts \in [Carts -> Cart] /\ coupon \in Coupon
    <3>1. Baskets \subseteq Items
      BY CheckoutAssumption DEF Items
    <3>2. [version : {0}, items : Baskets, coupon : {0, 1}] \subseteq Cart
      BY <3>1 DEF Cart
    <3>3. coupon \in Coupon
      BY DEF Init, Coupon
    <3>4. carts \in [Carts -> [version : {0}, items : Baskets, coupon : {0, 1}]]
      BY DEF Init
    <3>5. carts \in [Carts -> Cart]
      BY <3>2, <3>4
    <3> QED
      BY <3>3, <3>5 DEF Init
  <2>2. ledger \in [Orders -> Ledger!Reservation]
    BY DEF Init, Ledger!Init, Ledger!Absent, Ledger!Reservation, Ledger!Statuses
  <2> QED
    BY <2>1, <2>2 DEF Init, TypeOK
<1>4. IdsAreOwned /\ JobsOK /\ ReadsFit
  BY <1>1 DEF Init, Idle, IdsAreOwned, JobsOK, JobOK, ReadsFit, HasRead, Searching, Owning
<1>5. NoStrandedStock /\ OrdersOK /\ AnswersOK
  BY <1>2 DEF Init, NoStrandedStock, OrdersOK, AnswersOK
<1> QED
  BY <1>3, <1>4, <1>5 DEF Inductive

LEMMA NextInductive ==
  ASSUME Inductive, [Next]_vars
  PROVE  Inductive'
<1>1. ASSUME NEW h \in Requests, Step(h)
      PROVE  Inductive'
  BY <1>1, SaveCartStep, SaveCouponStep, FindNoReplayStep, ReplayStep, CheckQuoteStep,
     RevalidateCartStep, RevalidateCouponStep, ReserveStep, LoseReservationStep,
     SaveOrderStep, RefuseOrderStep, ReleaseStep, ClearCartStep, FailStep DEF Step
<1>2. ASSUME Next
      PROVE  Inductive'
  BY <1>1, <1>2, EditCartStep, EditCouponStep, FindCartStep, CalculateShippingStep, ExpireStep
     DEF Next
<1>3. ASSUME UNCHANGED vars
      PROVE  Inductive'
  BY <1>3 DEF vars, Inductive, TypeOK, NoStrandedStock, IdsAreOwned, JobsOK, OrdersOK,
     AnswersOK, ReadsFit, Held, Saved
<1> QED
  BY <1>2, <1>3

\* The invariant that the theorems below rest on.
THEOREM CheckoutInductive == Spec => []Inductive
BY InitInductive, NextInductive, PTL DEF Spec

\* Whatever the requests do and wherever they stop, the tables, the reservations
\* and what each request has in memory are of their types.
THEOREM CheckoutTypes == Spec => []TypeOK
<1>1. Inductive => TypeOK
  BY DEF Inductive
<1> QED
  BY <1>1, CheckoutInductive, PTL

\* All successful answers to an idempotency key name one order, made of the
\* request that was answered, however many requests there are at the same time.
THEOREM CheckoutIsIdempotent == Spec => []AnswersAgree
<1>1. Inductive => AnswersAgree
  BY DEF Inductive, AnswersOK, OrdersOK, AnswersAgree
<1> QED
  BY <1>1, CheckoutInductive, PTL

\* What an order sells is what was reserved for it: the cart may change
\* meanwhile, the reservation may end, neither gets other lines.
THEOREM OrdersHoldTheirStock == Spec => []OrderHoldsStock
<1>1. Inductive => OrderHoldsStock
  BY DEF Inductive, OrdersOK, OrderHoldsStock
<1> QED
  BY <1>1, CheckoutInductive, PTL

\* The shipping of an order is that of its items and of its address: two reads of
\* a cart with one version have read the same items.
THEOREM ShippingIsOfTheOrder == Spec => []ShippingFitsOrder
<1>1. Inductive => ShippingFitsOrder
  BY DEF Inductive, OrdersOK, Fitting, ShippingFitsOrder
<1> QED
  BY <1>1, CheckoutInductive, PTL

\* Stock that is reserved for no order has a request that is about to save one or
\* to release it, or was lost with a call or a process.
THEOREM StockIsWatched == Spec => []NoStrandedStock
<1>1. Inductive => NoStrandedStock
  BY DEF Inductive
<1> QED
  BY <1>1, CheckoutInductive, PTL

--------------------------------------------------------------------------------
(* Clearing the cart *)

\* Only the request itself changes what it has in memory, and two steps change carts.
LEMMA OneSaves ==
  ASSUME TypeOK, NEW h \in Requests, At(h, "clear"), job'[h] # job[h],
         [Next]_vars, carts' # carts
  PROVE  ClearCart(h)
<1>1. PICK g \in Requests : SaveCart(g) \/ ClearCart(g)
  <2>1. Next
    BY DEF vars
  <2>2. ASSUME NEW g \in Requests, NEW c \in Carts
        PROVE  ~EditCart(g, c)
    BY DEF EditCart, AddItem, UpdateItemQuantity, RemoveItem, ApplyCoupon, RemoveCoupon,
           ChangeRedemption, ToWrite
  <2>3. ASSUME NEW g \in Requests
        PROVE  ~EditCoupon(g) /\ \A r \in Request : ~FindCart(g, r)
    BY DEF EditCoupon, DeleteCoupon, UpdateCoupon, FindCart
  <2>4. ASSUME NEW g \in Requests, Step(g)
        PROVE  SaveCart(g) \/ ClearCart(g)
    BY <2>4 DEF Step, SaveCoupon, FindNoReplay, Replay, CheckQuote, RevalidateCart,
       RevalidateCoupon, Reserve, LoseReservation, SaveOrder, RefuseOrder, Release, Fail
  <2>5. /\ \A c \in Carts, a \in Addresses : ~CalculateShipping(c, a)
        /\ \A o \in Orders : ~Expire(o)
    BY DEF CalculateShipping, Expire
  <2> QED
    BY <2>1, <2>2, <2>3, <2>4, <2>5 DEF Next
<1>2. Quit(g)
  BY <1>1 DEF SaveCart, ClearCart
<1>3. g = h
  BY <1>2 DEF TypeOK, Quit
<1> QED
  BY <1>1, <1>3 DEF SaveCart, At

\* The request that makes an order empties the version of the cart that the order
\* was quoted and made of; a repeated one empties a cart only while it holds
\* exactly what was ordered.  Neither takes an item that joined in between.
THEOREM CheckoutClearsWhatItOrdered == Spec => ClearsOnlyOrdered
<1> DEFINE Ordered(h) ==
             LET j == job[h]
                 cart == carts[j.request.cart]
                 order == orders[j.order]
             IN  At(h, "clear") /\ job'[h] # j /\ carts' # carts
                   => /\ cart.items = order.items
                      /\ j.again \/ cart.version = order.shipping.version
<1>1. ASSUME Inductive, [Next]_vars, NEW h \in Requests,
             At(h, "clear"), job'[h] # job[h], carts' # carts
      PROVE  /\ carts[job[h].request.cart].items = orders[job[h].order].items
             /\ \/ job[h].again
                \/ carts[job[h].request.cart].version = orders[job[h].order].shipping.version
  <2>1. TypeOK /\ ReadsFit /\ JobOK(job[h], orders, ledger)
    BY <1>1 DEF Inductive, JobsOK
  <2>2. ClearCart(h)
    BY <1>1, <2>1, OneSaves
  <2>3. carts[job[h].request.cart].version = job[h].version
    BY <1>1, <2>2 DEF ClearCart, Unchanged
  <2>4. Fits(Reading(job[h], orders), carts)
    BY <1>1, <2>1 DEF ReadsFit, HasRead, At
  <2>5. carts[job[h].request.cart].items = orders[job[h].order].items
    BY <1>1, <2>3, <2>4 DEF Fits, Reading, At, Searching
  <2>6. job[h].again \/ orders[job[h].order].shipping.version = job[h].version
    BY <1>1, <2>1 DEF JobOK, At
  <2> QED
    BY <2>3, <2>5, <2>6
<1>2. Inductive /\ [Next]_vars => [\A h \in Requests : Ordered(h)]_vars
  BY <1>1
<1> QED
  BY <1>2, CheckoutInductive, PTL DEF Spec, ClearsOnlyOrdered
================================================================================
