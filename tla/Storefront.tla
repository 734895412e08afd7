-------------------------------- MODULE Storefront --------------------------------
(***************************************************************************)
(* The way to an order in the web application: one page of one browser.    *)
(* The product cards add to a cart whose id is only kept in localStorage,  *)
(* the cart page asks for a shipping estimate and checks out, the payment  *)
(* page pays.  Every call is asynchronous: it is sent, served, and         *)
(* answered later, to a page that may show something else by then; an      *)
(* answer may get lost.                                                    *)
(*                                                                         *)
(* The services are external here: each serves a call in one step, with    *)
(* the answers that module Checkout gives and module OrderLifecycle.       *)
(***************************************************************************)
EXTENDS Naturals, FiniteSets

CONSTANTS
  Users,
  Nil,              \* nobody, no address
  Stranger,         \* who used the browser before
  Cards,            \* product cards: AddToCartButton
  Addresses,        \* saved addresses
  DefaultAddress,   \* the default among them, or Nil
  Choices,          \* what saved cards offer: which card, in how many installments
  Estimates,        \* runs of the estimateShipping mutation at a time
  MaxAdds,          \* bound on clicks on a product card
  MaxVisits,        \* bound on sign-ins
  MaxSelections,    \* bound on changes of address
  MaxKeys,          \* bound on keys of payment attempts
  MaxLosses         \* bound on calls that fail on their way, or that the
                    \* services refuse for reasons of their own

VARIABLES
  user, visits,     \* whose session cookie the browser has; sign-ins
  stored,           \* localStorage: zoom-storm:cart-id, 0 for none
  carts, orders,    \* the cart service
  add,              \* per product card, its addItem mutation
  view, fetch,      \* the cart query: its data, and its queryFn at work
  page,             \* what the browser shows
  summary,          \* state of CartSummary: address, estimate, initialized
  estimate,         \* the estimateShipping mutations
  checkout,         \* the checkout mutation
  payment,          \* the payment page: its order, the status it has seen
  pay, attempt,     \* the mutation of usePayOrder, and its ref
  clicks,           \* clicks counted against their bounds
  losses

storeVars == <<user, visits, stored, carts, orders, add, view, fetch, page, summary,
          estimate, checkout, payment, pay, attempt, clicks, losses>>

serverVars == <<carts, orders>>
cartPageVars == <<summary, estimate, checkout>>
paymentVars == <<payment, pay, attempt>>

ASSUME StorefrontAssumption ==
  /\ {Nil, Stranger} \intersect (Users \union Addresses) = {} /\ Nil # Stranger
  /\ DefaultAddress \in Addresses \union {Nil}
  /\ {"none", "new"} \intersect Choices = {}
  /\ {MaxAdds, MaxVisits, MaxSelections, MaxKeys, MaxLosses} \subseteq Nat

\* One cart per click and one from before.
Ids == 1..(MaxAdds + 1)

\* 0 is no cart, and no order.
Handle == Ids \union {0}
Cart == [owner : Users \union {Nil, Stranger}, items : SUBSET Cards, version : Nat]
Quote == [cart : Handle, address : Addresses \union {Nil}, version : Nat]
Attempt == [input : {"none", "new"} \union Choices, key : Nat]
Order == [cart : Handle, quote : Quote, items : SUBSET Cards, paidBy : Attempt]
Call ==
  [step : {"idle", "create", "created", "put", "added", "found", "notFound"},
   cart : Handle, items : SUBSET Cards]

NoCart == [owner |-> Nil, items |-> {}, version |-> 0]
NoView == [cart |-> 0, items |-> {}]
NoQuote == [cart |-> 0, address |-> Nil, version |-> 0]
NoPayment == [order |-> 0, status |-> "none"]
NoAttempt == [input |-> "none", key |-> 0]
NoOrder == [cart |-> 0, quote |-> NoQuote, items |-> {}, paidBy |-> NoAttempt]

\* A mutation or a query that does not run, and what else it may be at.
Rest == [step |-> "idle", cart |-> 0, items |-> {}]
NoEstimate == [step |-> "idle", quote |-> NoQuote]
NoCheckout == [step |-> "idle", cart |-> 0, address |-> Nil, quote |-> NoQuote, order |-> 0,
               live |-> FALSE]
NoPay == [step |-> "idle", attempt |-> NoAttempt]
Blank == [ready |-> FALSE, address |-> Nil, estimate |-> NoQuote]

Lose == losses < MaxLosses /\ losses' = losses + 1

Owned(c) == c # 0 /\ carts[c].owner = user

\* There are more ids than clicks can use up.
HasUnused(table, nothing) == \E i \in Ids : table[i] = nothing
Unused(table, nothing) == CHOOSE i \in Ids : table[i] = nothing

--------------------------------------------------------------------------------
(* What is shown *)

\* CartList shows the summary of a cart that is not empty to its user.
Mounted == page = "cart" /\ user # Nil /\ stored # 0 /\ view.cart = stored /\ view.items # {}

\* State and mutations of CartSummary end when it is not shown any more.
KeepSummary ==
  IF Mounted' THEN UNCHANGED <<summary, estimate>>
  ELSE summary' = Blank /\ estimate' = [e \in Estimates |-> NoEstimate]

SetCart(c, items) == stored' = c /\ view' = [cart |-> c, items |-> items]
ClearCartId == stored' = 0 /\ view' = NoView

\* What CartSummary does with the answer to its checkout ends with it, too.
KeepCartPage ==
  /\ KeepSummary
  /\ checkout' = [checkout EXCEPT !.live = @ /\ Mounted']

\* Faulty variant of DropPayment: the mutation survives the page.
DropPaymentOnly == payment' = NoPayment /\ attempt' = NoAttempt /\ UNCHANGED pay

\* The payment page is not shown any more.
DropPayment == payment' = NoPayment /\ attempt' = NoAttempt /\ pay' = NoPay

OpenCart ==
  /\ page = "shop"
  /\ page' = "cart"
  /\ UNCHANGED <<user, visits, stored, serverVars, add, view, fetch, cartPageVars,
                 paymentVars, clicks, losses>>

\* A link to another page: the cart page is unmounted.
LeaveCart ==
  /\ page \in {"cart", "payment"}
  /\ page' = "shop"
  /\ DropPayment
  /\ UNCHANGED <<user, visits, stored, serverVars, add, view, fetch, clicks, losses>>
  /\ KeepCartPage

\* A navigation drops everything that the page had in memory.
Navigate ==
  /\ page' = "shop"
  /\ view' = NoView
  /\ add' = [b \in Cards |-> Rest]
  /\ fetch' = Rest
  /\ summary' = Blank
  /\ estimate' = [e \in Estimates |-> NoEstimate]
  /\ checkout' = NoCheckout
  /\ DropPayment
  /\ UNCHANGED <<serverVars, clicks, losses>>

\* logout of AuthProvider; what the bff does of it is in module Sessions.
SignOut ==
  /\ user # Nil
  /\ user' = Nil /\ stored' = 0
  /\ Navigate
  /\ UNCHANGED visits

\* After a logout, or in place of a session that has ended: then the id of
\* the cart is still stored.
SignIn(u) ==
  /\ visits < MaxVisits
  /\ visits' = visits + 1 /\ user' = u
  /\ Navigate
  /\ UNCHANGED stored

--------------------------------------------------------------------------------
(* useCart: addItem *)

GoAdd(b, step, c, items) == add' = [add EXCEPT ![b] = [step |-> step, cart |-> c, items |-> items]]

ClickAdd(b) ==
  /\ user # Nil /\ page = "shop"
  /\ add[b].step = "idle"
  /\ clicks.adds < MaxAdds /\ clicks' = [clicks EXCEPT !.adds = @ + 1]
  /\ IF stored = 0 THEN GoAdd(b, "create", 0, {}) ELSE GoAdd(b, "put", stored, {})
  /\ UNCHANGED <<user, visits, stored, serverVars, view, fetch, page, cartPageVars,
                 paymentVars, losses>>

ServeCreate(b) ==
  LET c == Unused(carts, NoCart)
  IN  /\ add[b].step = "create" /\ HasUnused(carts, NoCart)
      /\ carts' = [carts EXCEPT ![c] =
           [owner |-> user, items |-> {}, version |-> 1]]
      /\ GoAdd(b, "created", c, {})
      /\ UNCHANGED <<user, visits, stored, orders, view, fetch, page, cartPageVars,
                     paymentVars, clicks, losses>>

AnswerCreate(b) ==
  /\ add[b].step = "created"
  /\ SetCart(add[b].cart, {})
  /\ GoAdd(b, "put", add[b].cart, {})
  /\ UNCHANGED <<user, visits, serverVars, fetch, page, paymentVars, clicks, losses>>
  /\ KeepCartPage

\* A cart of somebody else is not found either.
ServePut(b) ==
  LET c == add[b].cart
  IN  /\ add[b].step = "put"
      /\ \/ /\ Owned(c)
            /\ carts' = [carts EXCEPT ![c].items = @ \union {b}, ![c].version = @ + 1]
            /\ GoAdd(b, "added", c, carts'[c].items)
         \/ /\ ~Owned(c)
            /\ GoAdd(b, "notFound", c, {})
            /\ UNCHANGED carts
      /\ UNCHANGED <<user, visits, stored, orders, view, fetch, page, cartPageVars,
                     paymentVars, clicks, losses>>

AnswerAdded(b) ==
  /\ add[b].step = "added"
  /\ SetCart(add[b].cart, add[b].items)
  /\ add' = [add EXCEPT ![b] = Rest]
  /\ UNCHANGED <<user, visits, serverVars, fetch, page, paymentVars, clicks, losses>>
  /\ KeepCartPage

\* A stale id is dropped, and the item goes to a new cart.
AnswerNotFound(b) ==
  /\ add[b].step = "notFound"
  /\ ClearCartId
  /\ GoAdd(b, "create", 0, {})
  /\ UNCHANGED <<user, visits, serverVars, fetch, page, paymentVars, clicks, losses>>
  /\ KeepCartPage

LoseAdd(b) ==
  /\ add[b].step # "idle"
  /\ Lose
  /\ add' = [add EXCEPT ![b] = Rest]
  /\ UNCHANGED <<user, visits, stored, serverVars, view, fetch, page, cartPageVars,
                 paymentVars, clicks>>

--------------------------------------------------------------------------------
(* useCart: the query *)

\* On every page, with the first component that uses the cart.  Data is not fetched
\* again while it is fresh, and without a session the answer changes nothing.
ServeFetch ==
  /\ user # Nil /\ stored # 0
  /\ fetch.step = "idle" /\ view.cart # stored
  /\ fetch' = IF Owned(stored)
                THEN [step |-> "found", cart |-> stored, items |-> carts[stored].items]
                ELSE [step |-> "notFound", cart |-> stored, items |-> {}]
  /\ UNCHANGED <<user, visits, stored, serverVars, add, view, page, cartPageVars,
                 paymentVars, clicks, losses>>

\* The data is kept per id; an id that is not found clears whatever is stored.
AnswerFetch ==
  /\ fetch.step # "idle"
  /\ fetch' = Rest
  /\ \/ fetch.step = "notFound" /\ ClearCartId
     \/ /\ fetch.step = "found"
        /\ view' = IF fetch.cart = stored THEN [cart |-> stored, items |-> fetch.items] ELSE view
        /\ UNCHANGED stored
  /\ UNCHANGED <<user, visits, serverVars, add, page, paymentVars, clicks, losses>>
  /\ KeepCartPage

--------------------------------------------------------------------------------
(* CartSummary: the estimate *)

EstimateShipping(a) ==
  \E e \in Estimates :
    /\ estimate[e].step = "idle"
    /\ estimate' = [estimate EXCEPT ![e] =
         [step |-> "sent", quote |-> [cart |-> stored, address |-> a, version |-> 0]]]

\* Once, when the addresses are there: the default is selected.
SelectDefault ==
  /\ Mounted /\ ~summary.ready
  /\ summary' = [summary EXCEPT !.ready = TRUE, !.address = DefaultAddress]
  /\ IF DefaultAddress # Nil THEN EstimateShipping(DefaultAddress) ELSE UNCHANGED estimate
  /\ UNCHANGED <<user, visits, stored, serverVars, add, view, fetch, page, checkout,
                 paymentVars, clicks, losses>>

SelectAddress(a) ==
  /\ Mounted
  /\ summary' = [summary EXCEPT !.address = a, !.estimate = NoQuote]
  /\ EstimateShipping(a)
  /\ UNCHANGED <<user, visits, stored, serverVars, add, view, fetch, page, checkout,
                 paymentVars, losses>>

ChangeAddress(a) ==
  /\ clicks.selections < MaxSelections
  /\ clicks' = [clicks EXCEPT !.selections = @ + 1]
  /\ SelectAddress(a)

\* Without an estimate there is nothing else to do than to select again.
SelectAgain ==
  /\ summary.ready /\ summary.estimate = NoQuote
  /\ \A e \in Estimates : estimate[e].step = "idle"
  /\ \E a \in Addresses : summary.address \in {Nil, a} /\ SelectAddress(a)
  /\ UNCHANGED clicks

ServeEstimate(e) ==
  LET q == estimate[e].quote
  IN  /\ estimate[e].step = "sent"
      /\ estimate' = [estimate EXCEPT ![e] =
           IF Owned(q.cart)
             THEN [step |-> "quoted", quote |-> [q EXCEPT !.version = carts[q.cart].version]]
             ELSE NoEstimate]
      /\ UNCHANGED <<user, visits, stored, serverVars, add, view, fetch, page, summary,
                     checkout, paymentVars, clicks, losses>>

\* onSuccess: whichever address is selected by now.
AnswerEstimate(e) ==
  /\ estimate[e].step = "quoted"
  /\ summary' = [summary EXCEPT !.estimate = estimate[e].quote]
  /\ estimate' = [estimate EXCEPT ![e] = NoEstimate]
  /\ UNCHANGED <<user, visits, stored, serverVars, add, view, fetch, page, checkout,
                 paymentVars, clicks, losses>>

LoseEstimate(e) ==
  /\ estimate[e].step # "idle"
  /\ Lose
  /\ estimate' = [estimate EXCEPT ![e] = NoEstimate]
  /\ UNCHANGED <<user, visits, stored, serverVars, add, view, fetch, page, summary,
                 checkout, paymentVars, clicks>>

--------------------------------------------------------------------------------
(* CartSummary: the checkout *)

\* The quote that was shown, for the address that is selected.
ClickCheckout ==
  /\ Mounted
  /\ summary.address # Nil /\ summary.estimate # NoQuote
  /\ checkout.step = "idle"
  /\ checkout' = [step |-> "sent", cart |-> stored, order |-> 0, quote |-> summary.estimate,
                  address |-> summary.address, live |-> TRUE]
  /\ UNCHANGED <<user, visits, stored, serverVars, add, view, fetch, page, summary,
                 estimate, paymentVars, clicks, losses>>

Fits(q, c, a) == q = [cart |-> c, address |-> a, version |-> carts[c].version]

ServeCheckout ==
  LET c == checkout.cart
      o == Unused(orders, NoOrder)
  IN  /\ checkout.step = "sent"
      /\ \/ /\ ~Owned(c)
            /\ checkout' = [checkout EXCEPT !.step = "notFound"]
            /\ UNCHANGED <<carts, orders, losses>>
         \/ /\ Owned(c) /\ carts[c].items = {}
            /\ checkout' = [checkout EXCEPT !.step = "refused"]
            /\ UNCHANGED <<carts, orders, losses>>
         \/ \* SHIPPING_QUOTE_EXPIRED: by its age, or because it does not fit
            /\ Owned(c) /\ carts[c].items # {}
            /\ \/ ~Fits(checkout.quote, c, checkout.address) /\ UNCHANGED losses
               \/ Fits(checkout.quote, c, checkout.address) /\ Lose
            /\ checkout' = [checkout EXCEPT !.step = "expired"]
            /\ UNCHANGED <<carts, orders>>
         \/ /\ Owned(c) /\ carts[c].items # {}
            /\ Fits(checkout.quote, c, checkout.address) /\ HasUnused(orders, NoOrder)
            /\ orders' = [orders EXCEPT ![o] =
                 [cart |-> c, quote |-> checkout.quote, items |-> carts[c].items,
                  paidBy |-> NoAttempt]]
            /\ carts' = [carts EXCEPT ![c].items = {}, ![c].version = @ + 1]
            /\ checkout' = [checkout EXCEPT !.step = "placed", !.order = o]
            /\ UNCHANGED losses
      /\ UNCHANGED <<user, visits, stored, add, view, fetch, page, summary, estimate,
                     paymentVars, clicks>>

\* setCart, and on to the payment if the summary that was clicked is still there.
AnswerPlaced ==
  /\ checkout.step = "placed"
  /\ SetCart(checkout.cart, {})
  /\ IF checkout.live
       THEN page' = "payment" /\ payment' = [order |-> checkout.order, status |-> "none"]
       ELSE UNCHANGED <<page, payment>>
  /\ checkout' = NoCheckout
  /\ UNCHANGED <<user, visits, serverVars, add, fetch, pay, attempt, clicks, losses>>
  /\ KeepSummary

\* Faulty variant of AnswerExpired: an error like another.
AnswerExpiredOnly ==
  /\ checkout.step = "expired"
  /\ checkout' = NoCheckout
  /\ UNCHANGED <<user, visits, stored, serverVars, add, view, fetch, page, summary,
                 estimate, paymentVars, clicks, losses>>

\* The quote is asked for again, for the address that was selected at the click, whatever
\* is selected now; what is shown stays until the answer.
AnswerExpired ==
  /\ checkout.step = "expired"
  /\ checkout' = NoCheckout
  /\ IF checkout.live THEN EstimateShipping(checkout.address) ELSE UNCHANGED estimate
  /\ UNCHANGED <<user, visits, stored, serverVars, add, view, fetch, page, summary,
                 paymentVars, clicks, losses>>

AnswerRefused ==
  /\ checkout.step \in {"notFound", "refused"}
  /\ IF checkout.step = "notFound" THEN ClearCartId ELSE UNCHANGED <<stored, view>>
  /\ checkout' = NoCheckout
  /\ UNCHANGED <<user, visits, serverVars, add, fetch, page, paymentVars, clicks, losses>>
  /\ KeepSummary

LoseCheckout ==
  /\ checkout.step # "idle"
  /\ Lose
  /\ checkout' = NoCheckout
  /\ UNCHANGED <<user, visits, stored, serverVars, add, view, fetch, page, summary,
                 estimate, paymentVars, clicks>>

--------------------------------------------------------------------------------
(* The payment page *)

Paid(o) == orders[o].paidBy # NoAttempt

\* useOrder: at first and every 15 seconds.
FetchOrder ==
  /\ page = "payment"
  /\ payment' = [payment EXCEPT !.status = IF Paid(payment.order) THEN "PAID" ELSE "CREATED"]
  /\ UNCHANGED <<user, visits, stored, serverVars, add, view, fetch, page, cartPageVars,
                 pay, attempt, clicks, losses>>

\* Faulty variant of AttemptFor: a key for every submission.
NewAttemptFor(input) == [input |-> input, key |-> clicks.keys + 1]

\* usePayOrder keeps the key of what was submitted last for the same input again: the same
\* saved card in as many installments.  A new card is never the same (a random token).
AttemptFor(input) ==
  IF input \in Choices /\ attempt.input = input THEN attempt
  ELSE [input |-> input, key |-> clicks.keys + 1]

SubmitCard(input) ==
  /\ page = "payment" /\ payment.status = "CREATED"
  /\ pay.step = "idle"
  /\ attempt' = AttemptFor(input)
  /\ pay' = [step |-> "sent", attempt |-> attempt']
  /\ attempt'.key <= MaxKeys
  /\ clicks' = [clicks EXCEPT !.keys = IF attempt'.key > @ THEN attempt'.key ELSE @]
  /\ UNCHANGED <<user, visits, stored, serverVars, add, view, fetch, page, cartPageVars,
                 payment, losses>>

\* The service answers a key that has paid the order as it did before.
ServePay ==
  LET o == payment.order
  IN  /\ pay.step = "sent"
      /\ orders' = IF Paid(o) THEN orders ELSE [orders EXCEPT ![o].paidBy = pay.attempt]
      /\ pay' = [pay EXCEPT !.step = IF orders'[o].paidBy = pay.attempt THEN "paid" ELSE "refused"]
      /\ UNCHANGED <<user, visits, stored, carts, add, view, fetch, page, cartPageVars,
                     payment, attempt, clicks, losses>>

AnswerPay ==
  /\ pay.step \in {"paid", "refused"}
  /\ pay' = NoPay
  /\ IF pay.step = "paid"
       THEN page' = "shop" /\ payment' = NoPayment /\ attempt' = NoAttempt
       ELSE UNCHANGED <<page, payment, attempt>>
  /\ UNCHANGED <<user, visits, stored, serverVars, add, view, fetch, cartPageVars,
                 clicks, losses>>

LosePay ==
  /\ pay.step # "idle"
  /\ Lose
  /\ pay' = NoPay
  /\ UNCHANGED <<user, visits, stored, serverVars, add, view, fetch, page, cartPageVars,
                 payment, attempt, clicks>>

--------------------------------------------------------------------------------
StoreInit ==
  /\ user = Nil /\ visits = 0
  /\ \/ stored = 0 /\ carts = [c \in Ids |-> NoCart]
     \/ \* the id that a session has left, ended without a logout
        /\ stored = 1
        /\ carts = [c \in Ids |-> IF c # 1 THEN NoCart
                                  ELSE [NoCart EXCEPT !.owner = Stranger, !.version = 1]]
  /\ orders = [o \in Ids |-> NoOrder]
  /\ add = [b \in Cards |-> Rest]
  /\ view = NoView /\ fetch = Rest
  /\ page = "shop"
  /\ summary = Blank
  /\ estimate = [e \in Estimates |-> NoEstimate]
  /\ checkout = NoCheckout
  /\ payment = NoPayment /\ pay = NoPay /\ attempt = NoAttempt
  /\ clicks = [adds |-> 0, selections |-> 0, keys |-> 0]
  /\ losses = 0

\* The customer.
Click ==
  \/ SignOut \/ \E u \in Users : SignIn(u)
  \/ \E b \in Cards : ClickAdd(b)
  \/ OpenCart \/ LeaveCart
  \/ \E a \in Addresses : ChangeAddress(a)
  \/ SelectAgain \/ ClickCheckout
  \/ \E input \in Choices \union {"new"} : SubmitCard(input)

\* The services, the answers, and what the page does by itself.
ServeCall ==
  \/ \E b \in Cards : ServeCreate(b) \/ ServePut(b)
  \/ ServeFetch \/ ServeCheckout \/ ServePay
  \/ \E e \in Estimates : ServeEstimate(e)

AnswerAdd(b) == AnswerCreate(b) \/ AnswerAdded(b) \/ AnswerNotFound(b)
AnswerCheckout == AnswerPlaced \/ AnswerExpired \/ AnswerRefused

Answer ==
  \/ \E b \in Cards : AnswerAdd(b)
  \/ \E e \in Estimates : AnswerEstimate(e)
  \/ AnswerFetch \/ AnswerCheckout \/ AnswerPay
  \/ SelectDefault \/ FetchOrder

Lost ==
  \/ \E b \in Cards : LoseAdd(b)
  \/ \E e \in Estimates : LoseEstimate(e)
  \/ LoseCheckout \/ LosePay

StoreNext == Click \/ ServeCall \/ Answer \/ Lost

StoreSpec == StoreInit /\ [][StoreNext]_storeVars

\* What is sent is served and answered, the page does what it does by itself,
\* and a customer on the cart page keeps trying.
FairStoreSpec ==
  /\ StoreSpec
  /\ WF_storeVars(SelectDefault)
  /\ WF_storeVars(SelectAgain)
  /\ WF_storeVars(ClickCheckout)
  /\ WF_storeVars(ServeCheckout)
  /\ WF_storeVars(AnswerCheckout)
  /\ \A e \in Estimates : WF_storeVars(ServeEstimate(e)) /\ WF_storeVars(AnswerEstimate(e))

--------------------------------------------------------------------------------
(* Properties *)

\* What the variables hold; there is a payment on the payment page only.
StoreTypeOK ==
  /\ user \in Users \union {Nil} /\ visits \in 0..MaxVisits /\ stored \in Handle
  /\ carts \in [Ids -> Cart] /\ orders \in [Ids -> Order]
  /\ add \in [Cards -> Call] /\ fetch \in Call
  /\ view \in [cart : Handle, items : SUBSET Cards]
  /\ page \in {"shop", "cart", "payment"}
  /\ summary \in [ready : BOOLEAN, address : Addresses \union {Nil}, estimate : Quote]
  /\ estimate \in [Estimates -> [step : {"idle", "sent", "quoted"}, quote : Quote]]
  /\ checkout \in [step : {"idle", "sent", "placed", "expired", "refused", "notFound"},
                   cart : Handle, address : Addresses \union {Nil},
                   quote : Quote, order : Handle, live : BOOLEAN]
  /\ payment \in [order : Handle, status : {"none", "CREATED", "PAID"}]
  /\ pay \in [step : {"idle", "sent", "paid", "refused"}, attempt : Attempt]
  /\ attempt \in Attempt
  /\ clicks \in [adds : 0..MaxAdds, selections : 0..MaxSelections, keys : 0..MaxKeys]
  /\ losses \in 0..MaxLosses
  /\ page = "payment" <=> payment # NoPayment
  /\ page # "payment" => pay = NoPay /\ attempt = NoAttempt

\* A customer who stays on the cart page and keeps trying gets the order: whatever
\* estimates are answered late, for an address selected before or a cart that has changed
\* since.  The answer SHIPPING_QUOTE_EXPIRED brings an estimate for the address of that
\* click, which may be the wrong one by now; the answer to the next click brings one that
\* fits (CartSummary, the onError of checkout.mutate).
CheckoutRecovers == Mounted ~> ~Mounted \/ carts[stored].items = {}

\* A saved card submitted again in as many installments, after an answer was lost, is the
\* same attempt to the service: it is refused only when something else has paid the order,
\* or was submitted in between and has had a key after the one that paid (usePayOrder).
RetryIsRecognised ==
  LET paidBy == orders[payment.order].paidBy IN
  pay.step = "refused" /\ pay.attempt.input \in Choices =>
    paidBy.input # pay.attempt.input \/ paidBy.key + 1 < pay.attempt.key
================================================================================
