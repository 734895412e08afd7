-------------------------------- MODULE OrderFeed --------------------------------
(***************************************************************************)
(* What becomes of an order's changes outside of cart-service: they leave  *)
(* through its outbox for the topic order-events, and three services read  *)
(* them, each at its own pace and each again after a failure:              *)
(*   "orders"         cart-projection keeps a copy of every order,         *)
(*   "notifications"  notifications-service stores what the customer is    *)
(*                    told and pushes it to open browsers,                 *)
(*   "reviews"        products-service lets who got a product review it.   *)
(*                                                                         *)
(* One customer.  When and why an order changes is OrderLifecycle's        *)
(* subject; of it remains here that all but the payment save a status      *)
(* computed from an earlier read, so that a status may be reported twice,  *)
(* or again after a later one.  Any number of handlers may hold a read of  *)
(* any moment, so what counts of them is which statuses could be read.     *)
(***************************************************************************)
EXTENDS OutboxRelay, SequencesExt

CONSTANTS
  Orders,
  Products,
  Items,         \* [Orders -> the products that it is of]
  Initially,     \* the statuses of orders that everyone has long known
  None,          \* nothing: no order yet
  Reviewers,     \* slots for requests that post a review
  MaxEvents,     \* bound on the changes
  MaxReviews     \* bound on the reviews posted

VARIABLES
  orders,        \* table Order: the status
  readable,      \* the statuses that each order has had, of which handlers that close
                 \* or advance it may still hold any
  copy,          \* collection orders of cart-projection
  notices,       \* table Notification
  notifying,     \* the message in hand is stored, and not yet sent to browsers
  eligible,      \* table ReviewEligibility: order and product
  registering,   \* products registered for the event in hand
  reviews,       \* table ProductReview
  reviewing,     \* what each review request is about to save
  posted         \* ids of reviews made so far

Readers == <<copy, notices, notifying, eligible, registering>>
Reviewing == <<reviews, reviewing, posted>>
vars == <<feedVars, orders, readable, Readers, Reviewing>>

ASSUME OrderFeedAssumption ==
  /\ Items \in [Orders -> SUBSET Products]
  /\ MaxEvents \in Nat /\ MaxReviews \in Nat
  /\ {"orders", "notifications", "reviews"} \subseteq Consumers

Progression == <<"CREATED", "PAID", "IN_TRANSIT", "OUT_FOR_DELIVERY", "DELIVERED">>
Statuses == ToSet(Progression) \cup {"CANCELLED", "EXPIRED"}

Event == [order : Orders, status : Statuses]

ASSUME StatusAssumption ==
  /\ Event \subseteq Events /\ \A e \in Event : RowOf[e] = e.order
  /\ Initially \subseteq Statuses \cup {None}

\* buildMessage: the transitions that the customer hears of.
Notifiable == {"PAID", "IN_TRANSIT", "OUT_FOR_DELIVERY", "DELIVERED"}

\* order and status are the sourceEventKey.
Notice == [order : Orders, status : Notifiable, read : BOOLEAN]

Review == [id : 1..MaxReviews, order : Orders, product : Products]

\* A request that posts a review, between two awaits.
ReviewJob ==
  [step : {"check", "save"}, order : Orders, product : Products, reviews : SUBSET Review]

Idle == [step |-> "idle"]

--------------------------------------------------------------------------------
(* cart-service *)

MayChange == Len(outbox) < MaxEvents

\* The row and its event in one transaction.
Change(o, status) ==
  /\ MayChange
  /\ orders' = [orders EXCEPT ![o] = status]
  /\ readable' = [readable EXCEPT ![o] = @ \cup {status}]
  /\ Announce([order |-> o, status |-> status])
  /\ UNCHANGED <<published, polling, poll, topic, offset, failures, Readers, Reviewing>>

PlaceOrder(o) == orders[o] = None /\ Change(o, "CREATED")

\* PrismaPaymentAttemptRepository.complete compares it with the row.
PayOrder(o) == orders[o] = "CREATED" /\ Change(o, "PAID")

\* What a handler that has read the status may be about to save: cancel and expire of
\* an order that awaits payment, getNextStatus of one that has left CREATED.
Following(status) ==
  IF status = "CREATED" THEN {"CANCELLED", "EXPIRED"}
  ELSE {Progression[i] : i \in {j \in 3..5 : Progression[j - 1] = status}}

\* PrismaOrderRepository.save by one of the owner, an administrator, the expiration worker
\* and the delivery simulator, who has read the order now or long ago: it compares nothing.
\* That no payment is overwritten is due to the stock (OrderLifecycle!PaidIsFinal), and
\* nothing here relies on it.
SaveOrder(o, status) ==
  /\ \E s \in readable[o] : status \in Following(s)
  /\ Change(o, status)

--------------------------------------------------------------------------------
(* cart-projection *)

SaveById ==
  LET e == Message("orders") IN
  /\ Unread("orders")
  /\ copy' = [copy EXCEPT ![e.order] = e.status]
  /\ Handled("orders")
  /\ UNCHANGED <<relayVars, failures, orders, readable, Reviewing,
                 notices, notifying, eligible, registering>>

--------------------------------------------------------------------------------
(* notifications-service *)

Unnoticed == <<relayVars, failures, orders, readable, copy, eligible, registering, Reviewing>>

SkipMessage ==
  /\ Unread("notifications")
  /\ Message("notifications").status \notin Notifiable
  /\ Handled("notifications")
  /\ UNCHANGED <<Unnoticed, notices, notifying>>

NewNotice(e) == [order |-> e.order, status |-> e.status, read |-> FALSE]

SameKey(n, m) == n.order = m.order /\ n.status = m.status

\* Faulty variant of Stored: the row with the key is written anew.
StoredAnew(e) == {m \in notices : ~SameKey(e, m)} \cup {NewNotice(e)}

\* The unique constraint: DuplicateNotificationEventError, and nothing is stored.
Stored(e) ==
  IF \E m \in notices : SameKey(e, m) THEN notices ELSE notices \cup {NewNotice(e)}

SaveNotice ==
  LET e == Message("notifications") IN
  /\ Unread("notifications") /\ ~notifying
  /\ e.status \in Notifiable
  /\ notices' = Stored(e)
  /\ notifying' = TRUE
  /\ UNCHANGED <<Unnoticed, offset>>

\* Redis, the bff's subscriber and its sockets: who is not connected misses it.
PublishNotice ==
  /\ notifying
  /\ notifying' = FALSE
  /\ Handled("notifications")
  /\ UNCHANGED <<Unnoticed, notices>>

MarkRead(n) ==
  /\ n \in notices /\ ~n.read
  /\ notices' = (notices \ {n}) \cup {[n EXCEPT !.read = TRUE]}
  /\ UNCHANGED <<Unnoticed, offset, notifying>>

MarkAllRead ==
  /\ \E n \in notices : ~n.read
  /\ notices' = {[n EXCEPT !.read = TRUE] : n \in notices}
  /\ UNCHANGED <<Unnoticed, offset, notifying>>

--------------------------------------------------------------------------------
(* Review eligibility in products-service *)

Unregistered == <<relayVars, failures, orders, readable, copy, notices,
                  notifying, Reviewing>>

Delivers(e) == e.status = "DELIVERED"

SkipEvent ==
  /\ Unread("reviews")
  /\ ~Delivers(Message("reviews"))
  /\ Handled("reviews")
  /\ UNCHANGED <<Unregistered, eligible, registering>>

\* saveIfAbsent: a row that is there is as good.
SaveIfAbsent(p) ==
  LET o == Message("reviews").order IN
  /\ Unread("reviews") /\ Delivers(Message("reviews"))
  /\ p \in Items[o] \ registering
  /\ eligible' = eligible \cup {<<o, p>>}
  /\ registering' = registering \cup {p}
  /\ UNCHANGED <<Unregistered, offset>>

EndRegistering ==
  /\ Unread("reviews") /\ Delivers(Message("reviews"))
  /\ registering = Items[Message("reviews").order]
  /\ registering' = {}
  /\ Handled("reviews")
  /\ UNCHANGED <<Unregistered, eligible>>

\* A consumer stops or its handler throws: what it had in hand is done again.
Restart(c) ==
  /\ Rewind(c)
  /\ notifying' = (notifying /\ c # "notifications")
  /\ registering' = IF c = "reviews" THEN {} ELSE registering
  /\ UNCHANGED <<relayVars, orders, readable, Reviewing, copy, notices, eligible>>

--------------------------------------------------------------------------------
(* Reviews *)

Fixed == <<feedVars, orders, readable, Readers>>

ReviewsOf(p) == {r \in reviews : r.product = p}
Same(r, q) == r.order = q.order /\ r.product = q.product

\* Faulty variant of Earned: any order of the product will do.
Bought(o, p) == p \in Items[o]

Earned(o, p) == <<o, p>> \in eligible

\* The first await: the product with its reviews.
ReadProduct(h, o, p) ==
  /\ reviewing[h] = Idle
  /\ reviewing' = [reviewing EXCEPT ![h] =
                     [step |-> "check", order |-> o, product |-> p, reviews |-> ReviewsOf(p)]]
  /\ UNCHANGED <<Fixed, reviews, posted>>

\* The second: the purchase must be delivered.  Then addReview, on the product as it
\* was read: not a second one of the purchase.
CreateReview(h) ==
  LET j == reviewing[h]
      r == [id |-> posted + 1, order |-> j.order, product |-> j.product]
  IN  /\ posted < MaxReviews
      /\ reviewing[h] # Idle /\ j.step = "check"
      /\ Earned(j.order, j.product)
      /\ \A q \in j.reviews : ~Same(r, q)
      /\ posted' = posted + 1
      /\ reviewing' = [reviewing EXCEPT ![h] =
                         [step |-> "save", order |-> j.order, product |-> j.product,
                          reviews |-> j.reviews \cup {r}]]
      /\ UNCHANGED <<Fixed, reviews>>

Insertable(mine) == \A r \in mine, q \in reviews : Same(r, q) => r = q

\* PrismaProductRepository.save: these reviews and no other.
SaveReview(h) ==
  LET j == reviewing[h] IN
  /\ j # Idle /\ j.step = "save"
  /\ Insertable(j.reviews)
  /\ reviews' = (reviews \ ReviewsOf(j.product)) \cup j.reviews
  /\ reviewing' = [reviewing EXCEPT ![h] = Idle]
  /\ UNCHANGED <<Fixed, posted>>

\* An answer with an error: no eligibility, the constraint, or any other failure.
AbandonReview(h) ==
  /\ reviewing[h] # Idle
  /\ reviewing' = [reviewing EXCEPT ![h] = Idle]
  /\ UNCHANGED <<Fixed, reviews, posted>>

--------------------------------------------------------------------------------
Init ==
  /\ FeedInit
  /\ orders \in [Orders -> Initially] /\ copy = orders
  /\ readable = [o \in Orders |-> {orders[o]}]
  /\ notices = {} /\ notifying = FALSE
  /\ eligible = {} /\ registering = {}
  /\ reviews = {} /\ reviewing = [h \in Reviewers |-> Idle] /\ posted = 0

Notifying == SkipMessage \/ SaveNotice \/ PublishNotice
Registering == SkipEvent \/ (\E p \in Products : SaveIfAbsent(p)) \/ EndRegistering

Unaffected == <<orders, readable, Readers, Reviewing>>

Next ==
  \/ \E o \in Orders : PlaceOrder(o) \/ PayOrder(o) \/ \E s \in Statuses : SaveOrder(o, s)
  \/ (Relay \/ Stop) /\ UNCHANGED Unaffected
  \/ SaveById
  \/ Notifying
  \/ (\E n \in notices : MarkRead(n)) \/ MarkAllRead
  \/ Registering
  \/ \E c \in Consumers : Restart(c)
  \/ \E h \in Reviewers :
       \/ \E o \in Orders, p \in Products : ReadProduct(h, o, p)
       \/ CreateReview(h) \/ SaveReview(h) \/ AbandonReview(h)

Spec == Init /\ [][Next]_vars

\* The relay's timer and the consumers go on; people do as they please, and
\* failures come to an end.
FairSpec ==
  /\ Spec
  /\ WF_vars(Relay /\ UNCHANGED Unaffected)
  /\ WF_vars(SaveById)
  /\ WF_vars(Notifying)
  /\ WF_vars(Registering)

--------------------------------------------------------------------------------
(* Properties *)

FeedTypeOK ==
  /\ RelayTypeOK
  /\ orders \in [Orders -> Statuses \cup {None}]
  /\ copy \in [Orders -> Statuses \cup {None}]
  /\ readable \in [Orders -> SUBSET (Statuses \cup {None})]
  /\ notices \subseteq Notice
  /\ notifying \in BOOLEAN
  /\ eligible \subseteq Orders \X Products
  /\ registering \subseteq Products
  /\ reviews \subseteq Review
  /\ reviewing \in [Reviewers -> {Idle} \cup ReviewJob]
  /\ posted \in 0..MaxReviews

\* What the customer has read stays read and stays there, however often its event
\* comes again (the sourceEventKey of CreateNotificationFromOrderEventUseCase).
ReadStaysRead == [][\A n \in notices : n.read => n \in notices']_vars

\* Every review is the only one of its purchase, and the order was reported to be
\* delivered, whatever reviews were posted at the same time (CreateReviewUseCase).
ReviewsAreEarned ==
  \A r \in reviews :
    /\ r.product \in Items[r.order]
    /\ \E i \in DOMAIN outbox : outbox[i] = [order |-> r.order, status |-> "DELIVERED"]
    /\ \A q \in reviews : Same(r, q) => r = q

Told(e) == \E n \in notices : SameKey(n, e)

\* When orders are left alone, the copy of each comes to be its row, the customer
\* has been told of every change, and who got a product may review it, although
\* each service may stop between any two of its steps.
OrdersReachEveryone ==
  <>[](/\ copy = orders
       /\ \A i \in DOMAIN outbox :
            LET e == outbox[i] IN
            /\ e.status \in Notifiable => Told(e)
            /\ e.status = "DELIVERED" => {e.order} \X Items[e.order] \subseteq eligible)
================================================================================
