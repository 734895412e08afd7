---------------------------------- MODULE Checkout ----------------------------------
(***************************************************************************)
(* From a cart to an order in cart-service: the use cases that edit a      *)
(* cart, quote its shipping and change coupons, and CheckoutUseCase, which *)
(* reads the cart, looks for an order made with the same idempotency key,  *)
(* revalidates the coupon, checks the quote, reserves the stock, saves the *)
(* order and clears the cart, one await after another.  The cart is        *)
(* protected by its version, the key by a unique constraint, and the rest  *)
(* by nothing.                                                             *)
(*                                                                         *)
(* The stock is StockLedger: a call to products-service changes it in one  *)
(* step, as Inventory!ImplementsLedger says.                               *)
(*                                                                         *)
(* One customer and one coupon.  Loyalty points do not appear: a cart read *)
(* from PrismaCartRepository never has any, so a checkout never reserves   *)
(* them, and using them changes nothing of a cart but its version.         *)
(***************************************************************************)
EXTENDS Naturals, FiniteSets

CONSTANTS
  Variants, Prices, MaxQuantity, Stock,   \* as in StockLedger
  Orders,        \* order ids
  Carts,         \* carts of the customer
  Addresses,     \* saved addresses of the customer
  Keys,          \* idempotency keys
  Terms,         \* what a coupon may be worth
  Baskets,       \* what a cart may hold when it is created
  None,          \* nothing: no order, no coupon
  Requests,      \* slots for the HTTP requests served at the same time
  MaxVersion,    \* bound on the version that an edit gives a cart
  MaxCoupon,     \* bound on the version of the coupon
  MaxQuotes      \* bound on the number of quotes

VARIABLES
  carts,         \* tables Cart, CartItem, CartCoupon
  coupon,        \* the row of table Coupon
  quotes,        \* table ShippingQuote
  orders,        \* table Order
  ledger,        \* reservations in products-service
  job,           \* what each request has in memory between two awaits
  answers,       \* successful checkouts: the request and the order it got
  stranded       \* reservations that a failure has left to nobody's care
                 \* until they expire

vars == <<carts, coupon, quotes, orders, ledger, job, answers, stranded>>

\* Without a clock: what may expire at all may expire now.
Ledger == INSTANCE StockLedger WITH now <- 0, TTL <- 0

ASSUME CheckoutAssumption ==
  /\ None \notin Terms \cup Orders
  /\ MaxVersion \in Nat /\ MaxCoupon \in Nat /\ MaxQuotes \in Nat /\ MaxQuantity \in Nat
  /\ Baskets \subseteq Ledger!Lines

Empty == Ledger!NoLines
Items == Ledger!Lines \cup {Empty}

\* coupon is the appliedVersion of the cart's coupon, 0 without one.
Cart == [version : Nat, items : Items, coupon : Nat]

\* A deleted coupon, and one outside of its dates, is not live.
Coupon == [version : Nat, terms : Terms, live : BOOLEAN]

\* items are those that the shipping was calculated for.
Quote == [cart : Carts, address : Addresses, version : Nat, items : Items]

Request == [cart : Carts, address : Addresses, key : Keys]

\* terms is the discount.
Order == [request : Request, items : Items, shipping : Quote, terms : Terms \cup {None}]

ASSUME NoneIsNoOrder == None \notin Order

Answer == [request : Request, order : Orders]

\* The entity: the coupon of a cart is joined from its row.
Found == [version : Nat, items : Items, terms : Terms \cup {None}]

--------------------------------------------------------------------------------
(* A request between two awaits: what it will need, and the await to come *)

Idle == [step |-> "idle"]

\* The cart of the first read, then the coupon as the revalidation reads it.
Looking == [step : {"replay", "cart"}, request : Request, found : Found]
Revalidating == [step : {"coupon"}, request : Request, found : Found, applied : Nat]
Quoting == [step : {"quote"}, request : Request, found : Found]
Ordering == [step : {"reserve", "save"}, order : Orders, draft : Order, version : Nat]
Releasing == [step : {"release"}, order : Orders]
\* again: the order was found by a repeated checkout, not just made.
Clearing ==
  [step : {"clear"}, order : Orders, request : Request, version : Nat, again : BOOLEAN]

EditingCart == [step : {"write"}, cart : Carts, to : Cart]
EditingCoupon == [step : {"upsert"}, to : Coupon]

At(h, step) == job[h].step = step
Go(h, step) == job' = [job EXCEPT ![h].step = step]
Quit(h)     == job' = [job EXCEPT ![h] = Idle]

Begin(h, j) == At(h, "idle") /\ job' = [job EXCEPT ![h] = j]

--------------------------------------------------------------------------------
(* Editing a cart: read it, change it, save it if its version is still the same *)

ToWrite(h, c, items, cp) ==
  /\ carts[c].version < MaxVersion
  /\ Begin(h, [step |-> "write", cart |-> c,
               to |-> [version |-> carts[c].version, items |-> items, coupon |-> cp]])
  /\ UNCHANGED <<carts, coupon, quotes, orders, ledger, answers, stranded>>

Put(items, v, line) ==
  [w \in DOMAIN items \cup {v} |-> IF w = v THEN line ELSE items[w]]

\* Faulty variant of Drop: the line stays, with nothing of it.
DropToZero(items, v) == [items EXCEPT ![v].quantity = 0]

Drop(items, v) == [w \in DOMAIN items \ {v} |-> items[w]]

\* Cart.addItem: more of a variant that is there, at the price it came with.
AddItem(h, c, v, line) ==
  LET items == carts[c].items
      more  == IF v \in DOMAIN items
               THEN [items[v] EXCEPT !.quantity = @ + line.quantity] ELSE line
  IN  /\ more.quantity <= MaxQuantity
      /\ ToWrite(h, c, Put(items, v, more), carts[c].coupon)

\* The new line has the product's price of today.
UpdateItemQuantity(h, c, v, line) ==
  /\ v \in DOMAIN carts[c].items
  /\ ToWrite(h, c, Put(carts[c].items, v, line), carts[c].coupon)

RemoveItem(h, c, v) ==
  /\ v \in DOMAIN carts[c].items
  /\ ToWrite(h, c, Drop(carts[c].items, v), carts[c].coupon)

\* A coupon that is applied already keeps its applied version.
ApplyCoupon(h, c) ==
  /\ coupon.live
  /\ ToWrite(h, c, carts[c].items,
             IF carts[c].coupon = 0 THEN coupon.version ELSE carts[c].coupon)

RemoveCoupon(h, c) ==
  /\ carts[c].coupon # 0
  /\ ToWrite(h, c, carts[c].items, 0)

\* RedeemLoyaltyPointsUseCase, RemoveLoyaltyRedemptionUseCase.
ChangeRedemption(h, c) == ToWrite(h, c, carts[c].items, carts[c].coupon)

\* Faulty variant of Unchanged: the version is not compared.
UnchangedUnchecked(c, version) == version \in Nat

\* PrismaCartRepository.save: updateMany where version.
Unchanged(c, version) == carts[c].version = version

Save(c, to) == carts' = [carts EXCEPT ![c] = [to EXCEPT !.version = @ + 1]]

SaveCart(h) ==
  LET j == job[h] IN
  /\ At(h, "write")
  /\ IF Unchanged(j.cart, j.to.version) THEN Save(j.cart, j.to) ELSE UNCHANGED carts
  /\ Quit(h)
  /\ UNCHANGED <<coupon, quotes, orders, ledger, answers, stranded>>

--------------------------------------------------------------------------------
(* Quotes, and an administrator's coupon *)

\* A quote saved late, for a cart that has changed, is of no use to anyone: the
\* use case is one step.
CalculateShipping(c, a) ==
  /\ carts[c].items # Empty
  /\ Cardinality(quotes) < MaxQuotes
  /\ quotes' = quotes \cup {[cart |-> c, address |-> a, version |-> carts[c].version,
                             items |-> carts[c].items]}
  /\ UNCHANGED <<carts, coupon, orders, ledger, job, answers, stranded>>

\* The entity that UpdateCoupon builds is not deleted, whatever it replaces.
UpdateCoupon(h, terms) ==
  /\ coupon.version < MaxCoupon
  /\ Begin(h, [step |-> "upsert",
               to |-> [version |-> coupon.version + 1, terms |-> terms, live |-> TRUE]])
  /\ UNCHANGED <<carts, coupon, quotes, orders, ledger, answers, stranded>>

DeleteCoupon(h) ==
  /\ Begin(h, [step |-> "upsert", to |-> [coupon EXCEPT !.live = FALSE]])
  /\ UNCHANGED <<carts, coupon, quotes, orders, ledger, answers, stranded>>

\* PrismaCouponRepository.save compares nothing.
SaveCoupon(h) ==
  /\ At(h, "upsert")
  /\ coupon' = job[h].to
  /\ Quit(h)
  /\ UNCHANGED <<carts, quotes, orders, ledger, answers, stranded>>

--------------------------------------------------------------------------------
(* Checkout *)

\* Coupon.getDiscount, at the time the cart is read.
Priced(c) == IF carts[c].coupon # 0 /\ coupon.live THEN coupon.terms ELSE None

FindCart(h, r) ==
  /\ Begin(h, [step |-> "replay", request |-> r,
               found |-> [version |-> carts[r.cart].version, items |-> carts[r.cart].items,
                          terms |-> Priced(r.cart)]])
  /\ UNCHANGED <<carts, coupon, quotes, orders, ledger, answers, stranded>>

Saved == {o \in Orders : orders[o] # None}
Held == {o \in Orders : ledger[o].status = "ACTIVE"}
MadeWith(k) == {o \in Saved : orders[o].request.key = k}

Reply(r, o) == answers' = answers \cup {[request |-> r, order |-> o]}

FindNoReplay(h) ==
  /\ At(h, "replay")
  /\ MadeWith(job[h].request.key) = {}
  /\ IF job[h].found.items = Empty THEN Quit(h) ELSE Go(h, "cart")
  /\ UNCHANGED <<carts, coupon, quotes, orders, ledger, answers, stranded>>

ToClear(r, o, version, again) ==
  [step |-> "clear", order |-> o, request |-> r, version |-> version, again |-> again]

\* Faulty variant of SameRequest: the address is not compared.
SameCart(r, o) == orders[o].request.cart = r.cart

SameRequest(r, o) ==
  /\ orders[o].request.cart = r.cart
  /\ orders[o].request.address = r.address

\* completePendingCartClear: the cart still holds what was ordered.
MatchesOrder(items, o) == items = orders[o].items

Replay(h, o) ==
  LET j == job[h]
      matches == MatchesOrder(j.found.items, o)
  IN  /\ At(h, "replay") /\ o \in MadeWith(j.request.key)
      /\ IF SameRequest(j.request, o) /\ matches
         THEN job' = [job EXCEPT ![h] = ToClear(j.request, o, j.found.version, TRUE)]
         ELSE Quit(h)
      /\ IF SameRequest(j.request, o) /\ ~matches
         THEN Reply(j.request, o) ELSE UNCHANGED answers
      /\ UNCHANGED <<carts, coupon, quotes, orders, ledger, stranded>>

\* RevalidateCartCouponsUseCase reads the cart again, and the coupon after it.
RevalidateCart(h) ==
  LET j == job[h] IN
  /\ At(h, "cart")
  /\ job' = [job EXCEPT ![h] =
       [step |-> "coupon", request |-> j.request, found |-> j.found,
        applied |-> carts[j.request.cart].coupon]]
  /\ UNCHANGED <<carts, coupon, quotes, orders, ledger, answers, stranded>>

RevalidateCoupon(h) ==
  LET j == job[h] IN
  /\ At(h, "coupon")
  /\ IF j.applied = 0 \/ (coupon.live /\ coupon.version = j.applied)
     THEN job' = [job EXCEPT ![h] = [step |-> "quote", request |-> j.request, found |-> j.found]]
     ELSE Quit(h)
  /\ UNCHANGED <<carts, coupon, quotes, orders, ledger, answers, stranded>>

\* Faulty variant of IsValidFor: the version of the cart is not compared.
IsValidForAddress(q, j) == q.cart = j.request.cart /\ q.address = j.request.address

\* ShippingQuote.isValidFor, without its time limit: running out is a failure.
IsValidFor(q, j) ==
  /\ q.cart = j.request.cart /\ q.address = j.request.address
  /\ q.version = j.found.version

\* Order ids are new: no request, order or reservation has it.
New(o) ==
  /\ orders[o] = None /\ ledger[o].status = "ABSENT"
  /\ \A h \in Requests : job[h].step \in {"reserve", "save", "release"} => job[h].order # o

\* The order is made of the cart and the quote in memory.
CheckQuote(h, q, o) ==
  LET j == job[h] IN
  /\ At(h, "quote") /\ q \in quotes /\ IsValidFor(q, j) /\ New(o)
  /\ job' = [job EXCEPT ![h] =
       [step |-> "reserve", order |-> o, version |-> j.found.version,
        draft |-> [request |-> j.request, items |-> j.found.items, shipping |-> q,
                   terms |-> j.found.terms]]]
  /\ UNCHANGED <<carts, coupon, quotes, orders, ledger, answers, stranded>>

\* Faulty variant of Wanted: the reservation takes what is in the cart by now.
WantedByNow(j) == carts[j.draft.request.cart].items

Wanted(j) == j.draft.items

Reserve(h) ==
  /\ At(h, "reserve")
  /\ Ledger!Reserve(job[h].order, Wanted(job[h]), 0)
  /\ Go(h, "save")
  /\ UNCHANGED <<carts, coupon, quotes, orders, answers, stranded>>

--------------------------------------------------------------------------------
(* The order *)

\* Faulty variant of AfterRefusal: the reservation is left to expire.
GiveUp(h) == Quit(h)

\* The catch block.
AfterRefusal(h) == job' = [job EXCEPT ![h] = [step |-> "release", order |-> job[h].order]]

\* The unique constraint on user and key.
Insertable(draft) == MadeWith(draft.request.key) = {}

\* The transaction may commit and its caller be told that it failed.
SaveOrder(h) ==
  LET j == job[h] IN
  /\ At(h, "save")
  /\ Insertable(j.draft)
  /\ orders' = [orders EXCEPT ![j.order] = j.draft]
  /\ \/ job' = [job EXCEPT ![h] = ToClear(j.draft.request, j.order, j.version, FALSE)]
     \/ AfterRefusal(h)
  /\ UNCHANGED <<carts, coupon, quotes, ledger, answers, stranded>>

\* The key is taken by now, or the transaction fails.
RefuseOrder(h) ==
  /\ At(h, "save")
  /\ AfterRefusal(h)
  /\ UNCHANGED <<carts, coupon, quotes, orders, ledger, answers, stranded>>

Release(h) ==
  LET o == job[h].order IN
  /\ At(h, "release")
  /\ IF o \in Held THEN Ledger!Settle(o, "RELEASED") ELSE UNCHANGED ledger
  /\ Quit(h)
  /\ UNCHANGED <<carts, coupon, quotes, orders, answers, stranded>>

\* The cart as it was read is announced and replaced by an empty one.
ClearCart(h) ==
  LET j == job[h] IN
  /\ At(h, "clear")
  /\ IF Unchanged(j.request.cart, j.version)
     THEN /\ Save(j.request.cart, [version |-> j.version, items |-> Empty, coupon |-> 0])
          /\ Reply(j.request, j.order)
     ELSE UNCHANGED <<carts, answers>>
  /\ Quit(h)
  /\ UNCHANGED <<coupon, quotes, orders, ledger, stranded>>

--------------------------------------------------------------------------------
\* An error, an exception, or the end of the process.
Fail(h) ==
  /\ ~At(h, "idle")
  /\ Quit(h)
  /\ stranded' = stranded \cup
       {o \in Held \ Saved : job[h].step \in {"save", "release"} /\ job[h].order = o}
  /\ UNCHANGED <<carts, coupon, quotes, orders, ledger, answers>>

\* The reservation is made and the caller does not get the answer.
LoseReservation(h) ==
  /\ At(h, "reserve")
  /\ Ledger!Reserve(job[h].order, Wanted(job[h]), 0)
  /\ Quit(h)
  /\ stranded' = stranded \cup {job[h].order}
  /\ UNCHANGED <<carts, coupon, quotes, orders, answers>>

\* The worker of products-service.  A reservation may end before its order is
\* saved; what becomes of it afterwards is the subject of OrderLifecycle.
Expire(o) ==
  /\ o \notin Saved
  /\ Ledger!Settle(o, "EXPIRED")
  /\ stranded' = stranded \ {o}
  /\ UNCHANGED <<carts, coupon, quotes, orders, job, answers>>

--------------------------------------------------------------------------------
\* Carts that CreateCartUseCase has just saved, with the coupon or without.
Init ==
  /\ carts \in [Carts -> [version : {0}, items : Baskets, coupon : {0, 1}]]
  /\ \E t \in Terms : coupon = [version |-> 1, terms |-> t, live |-> TRUE]
  /\ quotes = {}
  /\ orders = [o \in Orders |-> None]
  /\ Ledger!Init
  /\ job = [h \in Requests |-> Idle]
  /\ answers = {}
  /\ stranded = {}

EditCart(h, c) ==
  \/ \E v \in Variants :
       \/ \E line \in Ledger!Line : AddItem(h, c, v, line) \/ UpdateItemQuantity(h, c, v, line)
       \/ RemoveItem(h, c, v)
  \/ ApplyCoupon(h, c)
  \/ RemoveCoupon(h, c)
  \/ ChangeRedemption(h, c)

EditCoupon(h) == DeleteCoupon(h) \/ \E terms \in Terms : UpdateCoupon(h, terms)

Step(h) ==
  \/ SaveCart(h)
  \/ SaveCoupon(h)
  \/ FindNoReplay(h)
  \/ \E o \in Orders : Replay(h, o) \/ \E q \in quotes : CheckQuote(h, q, o)
  \/ RevalidateCart(h)
  \/ RevalidateCoupon(h)
  \/ Reserve(h)
  \/ LoseReservation(h)
  \/ SaveOrder(h)
  \/ RefuseOrder(h)
  \/ Release(h)
  \/ ClearCart(h)
  \/ Fail(h)

Next ==
  \/ \E h \in Requests :
       \/ \E c \in Carts : EditCart(h, c)
       \/ EditCoupon(h)
       \/ \E r \in Request : FindCart(h, r)
       \/ Step(h)
  \/ \E c \in Carts, a \in Addresses : CalculateShipping(c, a)
  \/ \E o \in Orders : Expire(o)

Spec == Init /\ [][Next]_vars

--------------------------------------------------------------------------------
(* Properties *)

TypeOK ==
  /\ carts \in [Carts -> Cart]
  /\ coupon \in Coupon
  /\ quotes \subseteq Quote
  /\ orders \in [Orders -> Order \cup {None}]
  /\ ledger \in [Orders -> Ledger!Reservation]
  /\ job \in [Requests -> {Idle} \cup Looking \cup Revalidating \cup Quoting \cup Ordering
                        \cup Releasing \cup Clearing \cup EditingCart \cup EditingCoupon]
  /\ answers \subseteq Answer
  /\ stranded \subseteq Orders

\* However often a checkout is repeated, at the same time or after a failure,
\* every successful answer to a key names the same order, and that order is for
\* the cart and the address that were asked for (CheckoutUseCase.execute).
AnswersAgree ==
  \A x \in answers :
    /\ x.order \in Saved
    /\ orders[x.order].request = x.request
    /\ \A y \in answers : y.request.key = x.request.key => y.order = x.order

\* An order is for exactly the items that were reserved for it, although the cart
\* changes while it is checked out (CheckoutUseCase.execute).
OrderHoldsStock == \A o \in Saved : ledger[o].lines = orders[o].items

\* The shipping of an order was calculated for its items and its address: the
\* version makes a quote for other items useless (ShippingQuote.isValidFor).
ShippingFitsOrder ==
  \A o \in Saved :
    /\ orders[o].shipping.items = orders[o].items
    /\ orders[o].shipping.address = orders[o].request.address

\* A checkout empties a cart only of what it has ordered.  The request that makes
\* the order empties the very version that it ordered; a repeated one, which
\* makes up for a clear that was lost, empties a cart that holds exactly the
\* ordered items, even when they were put there anew.  An item that joins them
\* is never lost (clearCheckedOutCart, completePendingCartClear).
ClearsOnlyOrdered ==
  [][\A h \in Requests :
       LET j == job[h]
           cart == carts[j.request.cart]
           order == orders[j.order]
       IN  At(h, "clear") /\ job'[h] # j /\ carts' # carts
             => /\ cart.items = order.items
                /\ j.again \/ cart.version = order.shipping.version]_vars

\* Stock that is reserved for no order is about to be released, unless a call or
\* the process was lost (the catch block around orderRepository.save).
NoStrandedStock ==
  \A o \in Held \ (Saved \cup stranded) :
    \E h \in Requests : job[h].step \in {"save", "release"} /\ job[h].order = o
================================================================================
