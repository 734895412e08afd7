# A verification of zoom_storm in TLA+

zoom_storm is a web shop built as a monorepo of small TypeScript services. This
directory holds TLA+ models of the services that own the shop's stock, carts,
orders and payments, of the events that carry their changes to the other
services, and of what a browser has to do with them; configurations that check the
models with TLC on small instances; and proofs, checked by TLAPS, that hold for
instances of every size.

Sections 1 to 3 survey the system, 4 and 5 describe the modules and the runs, 6
the proofs, 7 what is left out, and 8 what is to be modelled next.

## 1. The system

| Part (under `apps/`) | State | Operations |
|---|---|---|
| products-service, inventory | `ProductVariant.stock/reservedStock`, `InventoryReservation` with its lines, outbox | reserve, confirm, release (HTTP), expire (worker) |
| products-service, catalogue | `Product`, `ProductVariant`, `Review` | create, edit, delete products and variants, review |
| products-service, flash offers and review eligibility | `FlashOffer`, `ReviewEligibility` | edit offers, replenish expired ones (worker), register delivered orders (Kafka consumer) |
| cart-service, orders | `Order`, `PaymentAttempt`, outbox | pay, cancel, advance (HTTP), expire (worker), advance (delivery simulator) |
| cart-service, loyalty | `LoyaltyAccount`, `LoyaltyReservation`, `LoyaltyTransaction` | reserve, consume, release, expire, earn points |
| cart-service, address book | `SavedAddress`, `SavedCard`, `UserProfile`, `WishlistItem` | add, edit, delete, pick a default |
| cart-service, cart and checkout | `Cart` with a version, `Order`, shipping quotes, coupons | edit the cart, quote, apply coupons, check out |
| outbox relays (cart-service, products-service) | `OutboxEvent` in PostgreSQL | publish to Kafka, mark as processed |
| cart-projection, products-projection, cart-products-projection | read models in MongoDB, product copies of the cart | apply events |
| notifications-service | `Notification` | turn order events into notifications, mark as read |
| bff | sessions, pending logins and the refresh lock in Redis | log in and out, refresh tokens, proxy |
| api-gateway | none | proxy |
| web | the cart id in `localStorage`, the query cache, the mutations in progress, the state of the page | add to cart, estimate, check out, pay, and everything that only shows |

How they interact:

- checkout (cart-service) calls *reserve* of products-service over HTTP, payment
  calls *confirm*, cancellation and expiration call *release*. The calls have a
  timeout and no retry; the order id is the idempotency key.
- the browser reaches every service through the bff, which refreshes the tokens of a
  session before it passes a request on.
- an order, its stock reservation and its points reservation get one common
  deadline at checkout. Two workers watch it, one in each service.
- every change of a product, cart or order also writes an `OutboxEvent` in its
  transaction. A relay publishes it to Kafka at least once, and projections,
  notifications and the review consumer follow.
- there is no lock: handlers interleave at every `await`. What protects the data
  is a serializable transaction that compares old values (inventory), a
  conditional update (payment, consumption of points, cart) or nothing (saving
  a product, an order outside of a payment, a released points reservation).

## 2. What is hard, and what has to hold

Inventory:
: a handler looks a reservation up, reads variants and commits in three database
  accesses. Two orders may compete for the last unit, a confirm may race a
  release and the worker, an answer may be lost and the request repeated.
  Counters must equal what the reservations say, each reservation is settled
  once, answers stay true, an overdue reservation is given back.

Catalogue:
: an edit reads a product, waits and writes back *every* column of every variant,
  counters included, without comparing anything.
  Available stock must not become negative, lines must name existing variants,
  nothing may be sold at a price that is no longer valid.

Orders:
: pay, cancel, expire and advance read the order once and then make up to four
  awaits on other records. The process may stop at each. A confirm or release
  that timed out may still be served. Order, stock, points and payment must tell
  the same story, an overdue order must close, points must come back.

Checkout and cart:
: a checkout reads the cart, then makes up to seven awaits before it saves the
  order and two more before it has emptied the cart. Meanwhile the cart is edited, an
  administrator changes the coupon, the same request arrives again, and any
  of the calls fails with or without its effect. All answers to one key must name one
  order, that order must have its own stock and shipping, only
  what was ordered may disappear from the cart, and stock must not be left behind.

Outbox and projections:
: an event is published and then marked, so a failure in between publishes it
  twice. The read models have no version: each document is whatever its last event
  says. The events of a row must arrive so that the last one is the row, a product
  must be copied with all of its variants, and the copies must catch up.

Events of an order:
: three services read them, each again after a failure, each in several writes. The
  customer must be told of every change, not twice of the same, what was read must stay
  read, and only who got a product may review it, once.

Sessions:
: requests of one browser find that the tokens are about to end, one refreshes them
  under a lock with a time to live and the others wait. Tokens must only be
  replaced by newer ones, every request must be answered, a logout must end it.

Address book:
: a use case reads, waits and saves; a save clears the default of the other rows and then
  writes its own. A user has one default address, not none and not two, and never touches
  the addresses of somebody else.

Browser:
: every answer may come late or never, and meets a page that shows something else by
  now. A checkout must get through although estimates are for an old address or an old
  cart; a payment that is tried again must be recognised as the same one.

`PROJECT.json` lists these hazards with the line where each one bites and the
properties that would catch it.

## 3. Conventions of the models

A step of a handler runs from one `await` to the next. A handler in progress has
a record that holds what it keeps in memory (`task`, `job`, `edit`, `request`), so data read
early and used late are stale in the model exactly when they are in the code.
(`OrderFeed` keeps instead all that such a read may have returned.) An
early return with an error that has changed nothing is a stuttering step. A
`Fail` action ends a handler at any `await`: a failed query, an exception, or the
end of the process. Time is a counter bounded by `MaxTime`. Slots (`Requests`,
`Admins`) bound how many calls are served at the same time, never how many there
are in all.

Definitions whose comment begins with "Faulty variant of" are not part of a
specification. Each is a plausible bug for one definition and shows that the
property it is paired with in `PROJECT.json` notices it.

## 4. The modules

`StockLedger` is what the inventory promises: an order has at most one
reservation, it is granted out of units nobody else holds or has bought, and it is
settled once. There are no counters and no transactions. Units are counted as a
set with one element for each unit, which keeps sums out of the specification.

`Inventory` is the code of products-service:

| Definition | Code |
|---|---|
| `Reserve`, `ReplayReserve`, `Confirm`, `Release` | first read of the use cases in `application/usecases/*Inventory*UseCase.ts`, their early returns included |
| `Poll`, `ExpireNext` | the worker's `pollOnce` and the loop of `ExpireInventoryReservationsUseCase` |
| `Snapshot` | `buildVariantChanges`: read the variants, check price and offer, compute counters |
| `Commit` | `PrismaInventoryReservationRepository.commit`: replay, compare, write, outbox event |
| `Fail` | a serialization failure, an exception or a crash |

`rows` are the counters and prices of `ProductVariant`; `reservations` is the
reservation table; `promised` records the successful answers given to callers and
`announced` the rows in the last product event, neither of which influences a step.
The transaction is serializable, so one action models it.

`ProductCatalog` extends `Inventory` with the edits that save a whole
`Product`: `EditProduct` (also a review), `EditVariant`, `AddVariant`,
`RemoveVariant`, `DeleteProduct`, and their common `Save`. The variable `edit`
holds the entity as it was read. `FairCatalogSpec` adds that the worker of `Inventory` goes
on: its liveness is stated here, next to the changes of price that can stop it.

`OrderLifecycle` is cart-service from the created order on. The stock of an order
is a status here: the refinement of `StockLedger` shows that one call changes it
in one step. `SettleStock` is a call that is answered, `stray` holds the calls
whose caller has given up and `ServeStray` serves them, at any time or never.
`CatalogChanges` makes products-service refuse every settlement of an active reservation
(`refused`), which is what a new price, a deleted product or an overwritten counter
does, or lets it through again.
`FindLoyalty`, `PrepareLoyalty`, `RedeemPoints` and `FreePoints` are the four
awaits on the points. `Complete` is the transaction that stores a payment,
`SaveOrder` the unconditional save of every other change. `Sweep`, `ExpireOrder`,
`FindUnused`, `ExpireLoyalty`, `EndSweep` are one tick of the
`OrderExpirationWorker`.

`Checkout` is cart-service up to the created order:

| Definition | Code |
|---|---|
| `AddItem` ... `ChangeRedemption`, `SaveCart` | the use cases that edit a cart, and `PrismaCartRepository.save`, which compares the version |
| `CalculateShipping` | `CalculateShippingUseCase`: a quote bound to a cart, its version and an address |
| `UpdateCoupon`, `DeleteCoupon`, `SaveCoupon` | an administrator's read, and a save that compares nothing |
| `FindCart`, `FindNoReplay`, `Replay` | the first two awaits of `CheckoutUseCase`, and `completePendingCartClear` |
| `RevalidateCart`, `RevalidateCoupon` | `RevalidateCartCouponsUseCase`: the cart again, then the coupon |
| `CheckQuote`, `Reserve`, `SaveOrder`, `RefuseOrder`, `Release`, `ClearCart` | the rest of `CheckoutUseCase`, in its order |
| `LoseReservation`, `Fail` | an HTTP call that has its effect and loses its answer; any other failure |

The stock is an instance of `StockLedger`, the specification that `Inventory`
implements, so nothing of the transactions of products-service is repeated
here. It is an instance without a clock: what may expire at all may expire at once.
`job` is what a request still needs after each await. `answers` and `stranded` are
history: the successful answers, and the reservations that a failure has left to the
expiration worker. Choices worth knowing:

- A read by Prisma with `include` is one step, although PostgreSQL may run
  several queries for it.
- Reading the address and reading a quote are part of the step before or after:
  nothing in the model changes them. A quote that runs out is a `Fail`.
- A checkout repeated after its cart was left uncleared empties the cart when it holds
  exactly the ordered items (`CheckoutUseCase.ts:208-226`), at whatever version: also when
  they were all put there anew after the order. `ClearsOnlyOrdered` states what is kept in
  spite of that: an item that is not among the ordered ones is never lost, and the request
  that makes an order empties the version that it ordered and no other.
- Points are absent. `PrismaCartRepository` neither stores nor reads
  `loyaltyRedemptionPoints`, so `findById` gives 0 and the reservation in
  `CheckoutUseCase.ts:125-140` is never reached, although the test 'reserves loyalty
  points when the cart has a pending redemption' (with an in-memory repository)
  expects it. `OrderLifecycle` models the code that settles points as it is
  written, for orders with and without a reservation.
- `SaveOrder` may commit and be reported as failed. The `catch` block then
  releases the stock of an order that exists. `OrderLifecycle` starts from
  such orders too: `Init` gives them stock that is ACTIVE or RELEASED.

`OutboxRelay` is the outbox table with its relay and the topic with its consumers,
without saying what is announced. `PollOnce`, `Publish` and `Mark` are
`OutboxRelay.pollOnce` between its awaits; the timer may start another poll at any time,
and the flag `polling` is what keeps it out. `Stop` is an error or a crash of the relay;
`Rewind` one of a consumer, which reads again from any offset it may have
committed last. The topic is a sequence, because topics are created with one
partition and messages have no key.

The relay takes events by `createdAt`, which is stamped when an event is inserted and not
when its transaction commits. Transactions on one row wait for each other, so the events of
one row are stamped in the order in which they are committed; those of different rows need not be,
and an older event can appear after a newer one of another row is marked. So `Batches` and
`Oldest` follow the order of the table only within a row (`Before`) and leave any choice
between rows. Two events of one row are taken to have different stamps: a second save of
a row within one millisecond would need a read, a lock and a commit in between.

`EventLog` is what all of this comes to for somebody who reads the topic: of every row
the events are sent one by one in the order of its changes, each until its sending is
acknowledged, and that an event was sent may be forgotten. Between rows nothing is promised.
`Log` maps the relay to it: acknowledged are the events with a `publishedAt`, and
unconfirmed is the one that a poll has published and not marked. Two modules extend
`OutboxRelay`:

| `ProductFeed` | Code |
|---|---|
| `CreateProduct`, `SaveProduct`, `DeleteProduct`, `CommitReservation` | the use cases that save a product, and the commit of a reservation, each with its event |
| `HandleProduct` | `ProductSavedHandler` of products-projection: one document per product |
| `TakeEvent`, `ReplaceOne`, `DeleteMany` | `ProductRepository` of cart-products-projection: one document per variant, then the others of the product are deleted |
| `Restart` | the same consumer after a stop between two of these writes |

| `OrderFeed` | Code |
|---|---|
| `PlaceOrder`, `PayOrder` | a new order, and the payment, which compares the status in its transaction |
| `SaveOrder` | `PrismaOrderRepository.save` after a cancellation, an expiration or a progress, which compares nothing: what is saved follows *any* status the order has had (`readable`), because some handler may have read it then |
| `SaveById` | the copy of cart-projection |
| `SaveNotice`, `PublishNotice`, `MarkRead`, `MarkAllRead` | notifications-service |
| `SaveIfAbsent`, `EndRegistering` | the consumer that registers a delivered order's products for review |
| `ReadProduct`, `CreateReview`, `SaveReview` | the two reads of `CreateReviewUseCase`, product first, and the save of the whole product that follows |

`Sessions` is the bff. A request goes from `FindSession` through `DropExpired` or
`AcquireRefreshLock`, `Refresh`, `SaveRefreshed`, `ReleaseRefreshLock` (or
`WaitForConcurrentRefresh`) to `Serve` or `Logout`; `Login`, `Callback`, `ForgetPending`,
`ExchangeCode`, `CreateSession` sign in. There is no clock: a token comes near its end
(`AccessTokenExpires`), ends (`RefreshTokenExpires`) and a lock runs out (`LockEnds`)
whenever they do. `overran` records that a lock ran out before the refresh under it
was over.

`AddressBook` is the saved addresses of cart-service, or its saved cards, statement by
statement. The two tables have use cases and repositories of the same shape that never
meet, so a behaviour is that of one (`book`): `AddSavedAddress` and `AddSavedCard`, and so
on, are `Add`, `Edit`, `Choose` and `Remove` of that table. `FindOthers` and `ClearOthers`
are the `updateMany` of a save, `Upsert` its second statement, `Locked` the row locks of
PostgreSQL (READ COMMITTED) and `Indexed` the partial unique index. `MakeDefault` is the
successor of a deleted default, `CreateFirst` the address that comes with the first
profile. `SaveCardOfPayment` is the card that is stored with a paid order, by the same
statements in the transaction of the payment.

`Storefront` is one page of a browser. Every call has three actions: it is sent
(`ClickAdd`, `EstimateShipping`, `ClickCheckout`, `SubmitCard`), served
(`ServePut`, `ServeCheckout`, ...) and answered (`AnswerAdded`, `AnswerEstimate`,
`AnswerExpired`, ...), or lost. What a page holds ends with the page (`KeepSummary`,
`DropPayment`, `Navigate`), what is in `localStorage` does not. The callbacks given to
`checkout.mutate` keep the address of their click, and run only while the component that
made the click is there (`live`, `KeepCartPage`). The key of a payment stays while the whole input
does (`AttemptFor`): with a saved card this is the card and the installments
(`Choices`), and a new card is tokenised into another input each time. A second checkout is not
clicked while an answer to the one before, from a page that was left, is still out.
The services are external
there: they answer as `Checkout` and `OrderLifecycle` do.

The `MC` modules hold the values of constants for TLC. The theorems are in
`InventoryProofs` (with those of `ProductCatalog`), `OrderProofs`, `CheckoutProofs`,
`ProductFeedProofs` and `OrderFeedProofs` (both on the lemmas of `RelayProofs`),
`BrowserProofs` (of `Sessions` and `Storefront`) and `AddressBookProofs`.

## 5. The runs

| Run | Checks | Instance |
|---|---|---|
| `inventory` | `TypeOK`, `Conservation`, `PromisesKept`, `OutboxCarriesRows`, `ImplementsLedger` | 2 orders, 2 variants, 3 baskets, 2 requests and the worker, clock to 1 |
| `catalog` | `CatalogTypeOK`, `WithinStock`, `ReservedVariantsExist`, `TradesAtCurrentPrice`, `OverdueReservationsEnd` | 2 orders, 1 variant and 1 to be created, 2 prices, 1 request, 1 administrator, clock to 1, worker fair |
| `order` | `TypeOK`, `PaidOrderHasStock`, `ClosedOrderReturnsStock`, `OnePaymentPerOrder`, `DiscountIsRedeemed`, `PaidIsFinal` | 1 order, 2 keys, 3 requests and the worker |
| `order_live` | `OverdueOrdersClose`, `PointsAreSettled` | 1 order, 1 key, 1 request, worker fair |
| `checkout` | `TypeOK`, `AnswersAgree`, `OrderHoldsStock`, `ShippingFitsOrder`, `NoStrandedStock`, `ClearsOnlyOrdered` | 1 cart, 2 requests, 2 orders, 1 key, 2 addresses, 1 variant in quantities to 2, 1 coupon |
| `product_feed` | `FeedEndsWithRow`, `AppliedWholly`, `ImplementsLog`, `CopiesCatchUp` | 2 products with 2 and 1 variants, 3 saves, 2 polls, 1 failure, fair |
| `order_feed` | `ReviewsAreEarned`, `ReadStaysRead`, `OrdersReachEveryone` | 1 order of 1 product, 2 changes, 2 polls, 3 consumers, 2 reviewers, 2 reviews, 1 failure, fair |
| `sessions` | `SessionsTypeOK`, `TokensMoveForward`, `RequestsAreAnswered` | 1 browser, 2 requests, 3 tokens, 2 tries, 1 crash, fair |
| `address_book` | `TypeOK`, `OneDefault`, `OthersUntouched` | addresses or cards: 2 users, 2 requests, 3 rows, 1 failure |
| `storefront` | `StoreTypeOK`, `RetryIsRecognised`, `CheckoutRecovers` | 1 user and a stale cart id, 1 product card, 2 addresses, 2 estimates at a time, 2 choices of a saved card, 3 payment keys, 1 loss, fair |
| `session_logout` | `LogoutEndsSession`, violated | as `sessions` |
| `catalog_stale_stock` | `StockCoversReservations`, violated | as `catalog` |

Why the bounds are enough. Three handlers are the most that one conflict needs:
two that race and one that has made their reads stale. In `inventory` two
baskets fit into the stock together, though neither fits twice, so that two orders compete in
one behaviour and are both active, and both overdue, in another; one basket carries an old
price; a TTL of 1 and a clock to 1 allow a reservation before and at its deadline, and
an order that is reserved only then; `BatchLimit` 1 makes a poll leave the other overdue order
behind.
In `catalog` the two orders are for one unit each of the same two units, at the price before
or after the administrator's change: of two overdue reservations a poll takes one, and a
changed price stops one of them, made before the change, or both. The other edits add the
second variant, remove one, or write back counters read earlier.
In `order` orders do not interact except in the worker's list and through a key
that has already paid another order, so one order is the instance for safety;
the proofs cover every number of orders, keys and clients.
In `checkout` two requests are two checkouts, or a checkout and an edit, or
either and an administrator, on one cart, since carts share nothing
but the coupon; quantities 1 and 2 are two different contents. A cart is edited only
at versions 0 and 1 (`MaxVersion` 2), and cleared at any version: one edit makes a read stale,
two also fill a cart again that an order has emptied, before the checkout is repeated. Both requests
have one key, which is what a repeated checkout is; checkouts of one cart under different
keys meet only in its version, and are covered by the proofs, which are about any number of
keys and include every property of this run.
There is stock for every order, because who gets the last unit is
the subject of `inventory`.
In `product_feed` three saves are a creation, an edit that drops a variant and one that
deletes the product or brings it back, next to events of another product; with two
polls and one failure an event can be out twice with a newer one behind it. In `order_feed`
orders do not interact, so one order is enough; it starts without an order, or with one that
awaits payment or is on its way. Two changes are then a payment and a cancellation decided
before it, a status saved twice, or a delivery and what was to precede it, and they are every
notification between them. Two reviewers post for one purchase, before and after its
delivery is registered.
In `sessions` sessions do not interact; three tokens are those of the sign-in and of two
refreshes, one of which outruns the other. In `address_book` two calls are what one
conflict needs and three rows leave a choice of successor. In `storefront` two
estimates at a time are a late one and a current one, and the item added a second time
makes a quote stale; three keys are a saved card whose answer was lost, another card
or another number of installments in between, and the first input again. One failure at every place is checked in each of
these; a failure leaves nothing behind that a second one could add to, except duplicates of the same kind.
Symmetry is used in `inventory`, `order`, `checkout` and `address_book`, none of which checks
a liveness property.

Fairness. In the services that keep stock and orders only workers are fair: `setInterval`
calls them again and again. A step that can fail (a query, a transaction, an HTTP call)
gets *strong* fairness: it is attempted at every poll, and the assumption is that it does
not fail for ever. Steps of HTTP clients get no fairness at all, since a client may go
away. For `order_live` this includes the call to products-service, but a call that is *answered
with a refusal* is answered: while the catalogue has changed under a reservation
(`CatalogChanges`) every release of it is refused, the use case throws, and the order stays
as it is. `OverdueOrdersClose` therefore excepts an order whose release is refused and one
whose stock is confirmed (see below), and promises the others to close.
In `catalog` each step of the worker ends, well or not (weak fairness of `WorkerStep`,
failures included), and of the attempts at one reservation not all end with an error
(`WorkerFairness`). An answer is no success: a release that is refused is one.
`OverdueReservationsEnd` is what remains to be promised: every overdue reservation ends, unless its release is
refused, or as many refused ones as a poll takes are due no later and fill every poll
before it, or administrators save products without end.
In the feeds the relay is a timer and the consumers are loops of kafkajs that a
supervisor restarts: weak fairness of each, with `MaxFailures` failures in all; nobody is
fair who saves products, changes orders or posts reviews. In `sessions` a handler that
waits in Node goes on (weak fairness of each request's steps) and Redis drops a lock
when its time is over; nobody has to sign in, and no token has to end. In
`storefront` what is sent is served and answered while `MaxLosses` allows no further
loss, and the customer *on the cart page* keeps trying: `CheckoutRecovers` is a promise to
that customer and says nothing of one who leaves.

What the violated runs show:

- `catalog_stale_stock`: an edit of a variant that was read before a reservation
  and is saved after it erases the reserved units, and may enter less stock than
  is reserved. `WithinStock` holds nevertheless: the later settlement finds too
  few reserved units and is refused. A deletion decided before a reservation was
  made succeeds in the same way.
- `session_logout`: a refresh saves the session without looking whether it is still there.
  A request that refreshes while another logs out writes the session back with the
  tokens that Keycloak has just issued. The browser has lost its cookie, but the id in
  it is valid again.

Seen while modelling, without a run of their own:

- The price check is also made when a reservation is released or expired, so a new price
  keeps the units of older reservations reserved until the price returns
  (`Inventory!CanApply`). The order cannot be cancelled or expired meanwhile, since both
  release its stock first, and a hundred such reservations would fill every poll of the worker.
- `save` of an order compares nothing, so the same status can be reported twice, the worker
  can turn CANCELLED into EXPIRED, and `save` of a points reservation CONSUMED into EXPIRED.
  The checked invariants show what saves the rest: stock is settled first and only
  once, so a paid order is never overwritten by `cancel` or `expire`. What is stored
  of notifications and eligibility is keyed by order and status, and a status that is reported
  twice, or after a later one, adds nothing and takes nothing away (`OrderFeed`); the copy of
  the order follows its row.
- A checkout that is repeated after its answer and the emptying of its cart were lost empties
  a cart that has been filled again with the very same items.
- An answer that a quote has expired asks for an estimate for the address of the click, not
  for the one chosen since. The page recovers with the next click (`CheckoutRecovers`).
- A saved card tried again with other installments, or another saved card, has another key, and
  is refused although the first attempt has paid.
- A repeated payment is answered as the first one only while the order is exactly PAID.
- Stock confirmed and order not paid is a state from which cancellation and expiration
  fail on every try; only a payment in time helps.
- An order is priced with the cart of a checkout's first read, and the coupon is revalidated
  with the cart of a second one.
- A notification whose event comes again is pushed again, under an id that was not
  stored.
- Of two reviews of a product that are posted at once the later save deletes the other.
- Two product cards clicked before the first cart is known create two carts.
- The balance of points is written as a number computed from an earlier read, so two
  orders of one user that are paid at once may earn the points of one.
- `ReplenishExpiredFlashOffersUseCase` saves the replacement and then deletes the expired
  offer; stopped in between it replaces the offer again, and an administrator who extends the
  offer between its two reads loses the extension.

## 6. The proofs

Every theorem holds for all values of the constants that the named assumptions of its
module allow: any number of requests, orders, carts, products, users, sessions and polls,
any bounds. Each proof module begins with the inductive invariant, which TLC has checked
on the instances of section 5, then lemmas, one for each action, and ends with the
theorems. What follows says why the property by itself is not inductive and what is added.

**Inventory** (`InventoryProofs`, `InventoryAssumption`).

- `InventoryInvariant`: `Spec => []Inductive`. `Conservation` alone is not
  inductive, since a commit applies counters computed from an older read.
  `Inductive` adds that a handler about to commit has computed its counters from
  rows that allowed the change (`TasksOK`: the compared values make the old check
  valid again), that a task's lines and deadline are those of its reservation,
  which never change once written, that whatever a task or the worker's batch
  takes for overdue stays overdue, and that reserved units never exceed stock.
- Counting. `CountMoves`, `CountRises` and `CountDrops` say how the cardinality of
  the set of units changes when one reservation changes status; they rest on
  `FiniteSetTheorems` and not on induction.
- `InventoryTypes`, `InventoryConservation`, `InventoryPromises`, `InventoryOutbox` and
  `InventoryNeverOversells` follow from it.
- `InventoryImplementsLedger`: every step of `Inventory` is a step of `StockLedger`
  or leaves it unchanged. A commit that reserves shows that the quantity fits into
  what is neither held nor sold, by `Conservation`.

**Catalogue** (same module, also `CatalogAssumption`: administrators enter prices and
stocks, and new rows begin with nothing reserved). An edit overwrites counters, so
`Conservation` and `Announced` are gone; what is left is the part called `Core`, which the
lemmas about the inventory prove step by step without them. `CatalogInvariant` adds that
an entity waiting to be saved has never more reserved than in stock (`EntitiesOK`:
`ProductVariant` checks it when it is built, and the save writes all of a row).
`CatalogTypes`, `CatalogWithinStock`, `CatalogReservedExist` (the commit looks at the
catalogue again, and the foreign key stops a later deletion), `CatalogTradesAtCurrentPrice`,
`CatalogPromises` and `CatalogSettlesOnce` follow. So what an edit can break is the
agreement of counters with reservations (`catalog_stale_stock`), and nothing else of these.

**Orders** (`OrderProofs`, `OrderAssumption`): `OrderInvariant` with
`OrderTypes`, `OrderPaidHasStock`, `OrderClosedReturnsStock`,
`OrderDiscountIsRedeemed`, `OrderOnePayment` and `OrderPaidIsFinal`. `Inductive`
says of each handler what it has secured so far (`JobsOK`): a payment past its
confirm has the stock CONFIRMED, one about to save has redeemed the points; a
cancellation past its release has the stock given back and the points not
redeemed. Both facts persist because a settled stock reservation never changes
(`SettledOnce`), which is what makes the two kinds of handler exclude each other
without any lock. The argument that points were not redeemed once an order is closed
also needs the common deadline: a payment passes the check of the deadline
after it has confirmed the stock.

**Checkout** (`CheckoutProofs`, `CheckoutAssumption`, `NoneIsNoOrder`): `CheckoutTypes`,
`CheckoutIsIdempotent`, `OrdersHoldTheirStock`, `ShippingIsOfTheOrder`, `StockIsWatched`
and `CheckoutClearsWhatItOrdered`, all that its run checks. A request holds an order id, a
draft and a version across up to five awaits. Its id is its own (`IdsAreOwned`), what it
says of the order and the reservation of that id stays true (`JobsOK`), saved orders have
different keys and the lines of their reservations (`OrdersOK`). Shipping and the clearing
of the cart are right because of `ReadsFit`: whatever was read of a cart at some version,
by a checkout or by a quote, agrees with every other read at that version, and with the
cart while it has it. `CheckoutClearsWhatItOrdered` is about versions too: a request that
has made its order empties the version whose quote it used, and one that has found it
(`again`) a cart with exactly its items.

**Outbox relay** (`RelayProofs`, `RelayAssumption`). `RelayInductive`: the flag leaves one
poll (`OnePoll`), and what it has in hand of a row follows what is published of it, the one
event it has sent being the first of those (`InHand`). So of every row the published events
are its first ones, and there is a set of positions, the published ones and at most one more
of a row, such that of any kind of events of one row (`OneRow`) the topic ends with what the
outbox has last at those positions (`Relayed`). Both feeds use it; without the flag it is false.
`ProductFeedImplementsLog` and `OrderFeedImplementsLog` are the refinement of `EventLog`:
`Publish` is `Send` of an event whose predecessors in its row are all marked, `Mark` is
`Acknowledge`, `Stop` is `Forget` or nothing, and a poll that takes its batch changes nothing
of the log. No order between rows is assumed or shown.

**Product feed** (`ProductFeedProofs`): `TopicEndsWithRow` adds that row and event are
written together (`RowsAnnounced`). `DocumentsAreOfOneEvent` adds what is done of the event
in hand (`Applying`), that products are announced with variants of their own (`Fits`), and
that each other product is as its last event left it (`AppliedSoFar`).

**Order feed** (`OrderFeedProofs`): `OrderFeedTypes`, `OneReviewPerDelivery`,
`NoticesStayRead`. A review is saved with the reviews read earlier, so what each request
holds must be as sound as the table (`ReviewsSound`), and eligibility must rest on an
announcement that nothing takes back (`EligibleGotIt`). A notification that is stored and not
sent has its message still unread (`Telling`), without which the types would not hold.

**Sessions** (`BrowserProofs`, `SessionsAssumption`): `SessionTypes` (that is,
`SessionsTypeOK`) and `RefreshesMoveForward`. While no lock
has run out under a refresh there is one request between lock and release for each session,
the lock is there (`OneRefresher`), and what it will save is not older than what is stored
(`SavesAreNewer`, which needs that tokens are numbered as Keycloak issues them).

**Page** (`BrowserProofs`, `StorefrontAssumption`): `StorefrontTypes` and
`RetriesAreRecognised`. What is refused is decided by the attempt that has paid, which the
page does not see, and by the one it keeps, which a later submission replaces. `Paying`
relates the two: if a saved card has paid, its attempt is the one that is kept, or another
input has had a later key since, or the same input has it again, after another one in
between, with a key at least two higher (`Passed`). It
needs that keys are handed out in order (`KeysInOrder`), that what is on its way is what is
kept, and that an order is unpaid when its page is shown (`PlacedUnpaid`). `Unused` is a
choice among ids, which the guard `HasUnused` makes one of an unused id: clicks are bounded,
so the guard holds wherever an id is asked for (TLC finds the same states without it), but
that is a matter of counting clicks and not part of the theorems.

**Address book** (`AddressBookProofs`): `BookTypes`, `OneDefaultEach`,
`RowsStayWithTheirUser`. The rows a call has read and will write are its user's (`Owned`,
`Shared`, and no id is used twice: `Created`). Not two defaults follows from the unique index
(`Unique`), not none from what a call that is alone relies on at each of its steps
(`OneByOne`).

Assumptions on constants are those of the code and no more: placeholders are not ids,
bounds are numbers, consumers that are modelled are consumers, configured prices are
prices. Bounds such as `MaxEvents` are parameters of the theorems.

Only model-checked: the liveness properties (`OverdueReservationsEnd`, `OverdueOrdersClose`,
`PointsAreSettled`, `CopiesCatchUp`, `OrdersReachEveryone`, `RequestsAreAnswered`,
`CheckoutRecovers`), since neither ENABLED nor fairness is within the prover's reach. Every
other property of a passing run is a theorem; the two that are violated are refuted by TLC.
`FeedTypeOK` and, for the relay of cart-service, `ImplementsLog` are theorems that no run
lists.

## 7. What is not modelled

- Names, texts, images, postal addresses, card numbers: data that no property tells apart.
- Payment methods: resolving one reads the user's cards, and its failures are among `Fail`.
  The card that a payment may save is a writer of the table of cards, and modelled there
  (`AddressBook!SaveCardOfPayment`), next to the other writers and not to the order.
- Flash offers as such: for the inventory a variant is on offer or it is not.
- Balances of points: no test or comment of the code says what they add up to.
- The copies of carts in cart-projection, which are announced and copied like products,
  one document per row.
- The wishlist: one `upsert` and one `deleteMany` on a unique key.
- api-gateway, a proxy without state; and of web the account, administration and catalogue
  pages, which call one operation each and keep nothing between two calls.
- Creating a coupon: nobody knows its id before; coupon dates are part of whether the
  coupon is live.
- A second checkout of a page while an answer to the first, sent before the page was left, is
  still out.
- Liveness of HTTP clients, and with it the end of a checkout.
- Loss of Redis or PostgreSQL data, and Kafka topics with several partitions.

## 8. Plan

1. A payment that is repeated after the order has moved on, as a property of
   `OrderLifecycle`.
2. `FlashOffers`: the worker and administrators on one list of offers.
3. `LoyaltyAccounts`: balances written as absolute values, once there is a word of the code
   to check them against.
4. The inbox of web: pushed notifications merged with the ones that were fetched.
