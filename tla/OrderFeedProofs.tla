------------------------------ MODULE OrderFeedProofs ------------------------------
(***************************************************************************)
(* Theorems about OrderFeed.tla for every value of its constants: its      *)
(* types, that what the customer has read stays read, and that every       *)
(* review is the only one of a purchase that was delivered.                *)
(*                                                                         *)
(* A review is saved some time after it was found to be earned, and with   *)
(* the reviews there were then.  It may because nothing takes back that an *)
(* order was delivered (Reported only grows), and because what a request   *)
(* holds is as good as the table (Sound).                                  *)
(***************************************************************************)
EXTENDS OrderFeed, RelayProofs

--------------------------------------------------------------------------------
(* The inductive invariant *)

\* The order was announced to be delivered.
Reported(o) == \E i \in DOMAIN outbox : outbox[i] = [order |-> o, status |-> "DELIVERED"]

Deserved(o, p) == p \in Items[o] /\ Reported(o)

\* Who may review a product got it.
EligibleGotIt == \A o \in Orders, p \in Products : <<o, p>> \in eligible => Deserved(o, p)

\* Reviews that may stand in the table together.
Sound(S) ==
  /\ \A r \in S : Deserved(r.order, r.product)
  /\ \A r, q \in S : Same(r, q) => r = q

\* The table, and what each request is about to make of it.
ReviewsSound ==
  /\ Sound(reviews)
  /\ \A h \in Reviewers : reviewing[h] # Idle => Sound(reviewing[h].reviews)

\* The notice that is about to be sent is of the message in hand.
Telling ==
  notifying => Unread("notifications") /\ Message("notifications").status \in Notifiable

Inductive ==
  /\ FeedTypeOK /\ RelayInductive
  /\ outbox \in Seq(Event)
  /\ EligibleGotIt /\ ReviewsSound /\ Telling

--------------------------------------------------------------------------------
(* Events *)

\* What is sent was announced, and is an event of this feed.
LEMMA SentIsEvent ==
  ASSUME Inductive, NEW c \in Consumers, Unread(c)
  PROVE  Message(c) \in Event /\ \E i \in DOMAIN outbox : outbox[i] = Message(c)
<1>1. /\ offset \in [Consumers -> [done : 0..Len(topic), from : 0..Len(topic)]]
      /\ topic \in Seq(Events) /\ Len(topic) \in Nat
  BY DEF Inductive, RelayInductive, RelayTypeOK
<1>2. offset[c].done + 1 \in DOMAIN topic
  BY <1>1 DEF Unread
<1>3. PICK i \in DOMAIN outbox : Message(c) = outbox[i]
  BY <1>2 DEF Inductive, RelayInductive, Announced, Message
<1>4. outbox[i] \in Event
  BY <1>3 DEF Inductive
<1> QED
  BY <1>3, <1>4

\* An order that was reported stays so, and with it what rests on the report.
LEMMA ReportsStay ==
  ASSUME Inductive, UNCHANGED <<eligible, reviews, reviewing>>,
         \A o : Reported(o) => Reported(o)'
  PROVE  EligibleGotIt' /\ ReviewsSound'
<1>1. \A o, p : Deserved(o, p) => Deserved(o, p)'
  BY DEF Deserved
<1>2. EligibleGotIt'
  BY <1>1 DEF Inductive, EligibleGotIt
<1>3. \A S : Sound(S) => Sound(S)'
  BY <1>1 DEF Sound
<1>4. Sound(reviews)'
  BY <1>3 DEF Inductive, ReviewsSound
<1>5. ASSUME NEW h \in Reviewers, reviewing'[h] # Idle
      PROVE  Sound(reviewing[h].reviews)'
  BY <1>3, <1>5 DEF Inductive, ReviewsSound
<1> QED
  BY <1>2, <1>4, <1>5 DEF ReviewsSound

\* A step that announces nothing takes no report back.
LEMMA NothingNew ==
  ASSUME UNCHANGED outbox
  PROVE  \A o : Reported(o) => Reported(o)'
BY DEF Reported

\* A message stays the one in hand, whatever is sent after it.
LEMMA TellingStays ==
  ASSUME Inductive, topic' = topic \/ \E e \in Events : topic' = Append(topic, e),
         offset'["notifications"] = offset["notifications"], notifying' = notifying
  PROVE  Telling'
<1>1. "notifications" \in Consumers
  BY OrderFeedAssumption
<1>2. /\ offset["notifications"] \in [done : 0..Len(topic), from : 0..Len(topic)]
      /\ topic \in Seq(Events) /\ Len(topic) \in Nat
  BY <1>1 DEF Inductive, RelayInductive, RelayTypeOK
<1> DEFINE k == offset["notifications"].done
<1>3. k \in Nat
  BY <1>2
<1>4. ASSUME k < Len(topic)
      PROVE  k < Len(topic') /\ topic'[k + 1] = topic[k + 1]
  BY <1>2, <1>3, <1>4
<1> QED
  BY <1>4 DEF Inductive, Telling, Unread, Message

--------------------------------------------------------------------------------
(* Orders *)

\* A handler saves a status, and its event goes into the outbox.
LEMMA ChangeKeeps ==
  ASSUME Inductive, NEW o \in Orders, NEW status \in Statuses, Change(o, status)
  PROVE  Inductive'
<1> DEFINE e == [order |-> o, status |-> status]
<1>1. e \in Event /\ e \in Events
  BY StatusAssumption DEF Event
<1>2. /\ Announce(e) /\ orders' = [orders EXCEPT ![o] = status]
      /\ readable' = [readable EXCEPT ![o] = @ \cup {status}]
      /\ UNCHANGED <<published, polling, poll, topic, offset, failures, Readers, Reviewing>>
  BY DEF Change
<1> HIDE DEF e
<1>3. RelayInductive'
  BY <1>1, <1>2, AnnounceKeeps DEF Inductive
<1>4. outbox' \in Seq(Event) /\ Len(outbox) \in Nat /\ Len(outbox') = Len(outbox) + 1
      /\ \A i \in DOMAIN outbox : i \in DOMAIN outbox' /\ outbox'[i] = outbox[i]
  BY <1>1, <1>2 DEF Inductive, Announce
<1>5. FeedTypeOK'
  BY <1>2, <1>3 DEF Inductive, FeedTypeOK, RelayInductive, Readers, Reviewing
<1>6. \A x : Reported(x) => Reported(x)'
  BY <1>4 DEF Reported
<1>7. EligibleGotIt' /\ ReviewsSound'
  BY <1>2, <1>6, ReportsStay DEF Readers, Reviewing
<1>8. Telling'
  BY <1>2, TellingStays DEF Readers
<1> QED
  BY <1>3, <1>4, <1>5, <1>7, <1>8 DEF Inductive

\* The status of a new order is one, and so is that of an order paid.
LEMMA CreatedIsStatus == "CREATED" \in Statuses /\ "PAID" \in Statuses
<1>1. /\ Progression[1] = "CREATED" /\ 1 \in DOMAIN Progression
      /\ Progression[2] = "PAID" /\ 2 \in DOMAIN Progression
  BY DEF Progression
<1> QED
  BY <1>1 DEF Statuses, ToSet

\* Whoever changes orders keeps the invariant.
LEMMA OrdersKeep ==
  ASSUME Inductive, NEW o \in Orders,
         PlaceOrder(o) \/ PayOrder(o) \/ \E s \in Statuses : SaveOrder(o, s)
  PROVE  Inductive'
<1>1. PICK status \in Statuses : Change(o, status)
  BY CreatedIsStatus DEF PlaceOrder, PayOrder, SaveOrder
<1> QED
  BY <1>1, ChangeKeeps

\* Nothing happens.
LEMMA StutterKeeps ==
  ASSUME Inductive, UNCHANGED vars
  PROVE  Inductive'
<1> USE DEF vars, feedVars, relayVars, Readers, Reviewing
<1>1. RelayInductive'
  <2>1. /\ failures' \in 0 .. MaxFailures
        /\ offset' \in [Consumers -> [done : 0..Len(topic), from : 0..Len(topic)]]
        /\ \A c \in Consumers : offset'[c].from <= offset'[c].done
    BY DEF Inductive, RelayInductive, RelayTypeOK
  <2> QED
    BY <2>1, ConsumersKeep DEF Inductive
<1>2. FeedTypeOK'
  BY <1>1 DEF Inductive, FeedTypeOK, RelayInductive
<1>3. EligibleGotIt' /\ ReviewsSound'
  BY NothingNew, ReportsStay
<1>4. Telling'
  BY TellingStays
<1> QED
  BY <1>1, <1>2, <1>3, <1>4 DEF Inductive

--------------------------------------------------------------------------------
(* The relay and the consumers *)

LEMMA RelayingKeeps ==
  ASSUME Inductive, Relay \/ Stop, UNCHANGED Unaffected
  PROVE  Inductive'
<1> USE DEF Unaffected, Readers, Reviewing
<1>1. RelayInductive'
  BY RelayKeeps DEF Inductive
<1>2. UNCHANGED <<outbox, offset>>
  BY RelayAppends DEF Inductive
<1>3. FeedTypeOK'
  BY <1>1 DEF Inductive, FeedTypeOK, RelayInductive
<1>4. EligibleGotIt' /\ ReviewsSound'
  BY <1>2, NothingNew, ReportsStay
<1>5. Telling'
  BY <1>2, RelayAppends, TellingStays DEF Inductive
<1> QED
  BY <1>1, <1>2, <1>3, <1>4, <1>5 DEF Inductive

\* A consumer has handled its message, and keeps its tables to their types.
LEMMA ReadersKeep ==
  ASSUME Inductive, RelayInductive', UNCHANGED <<outbox, orders, readable, Reviewing>>,
         copy' \in [Orders -> Statuses \cup {None}],
         notices' \subseteq Notice, notifying' \in BOOLEAN, registering' \subseteq Products,
         eligible' \subseteq Orders \X Products, EligibleGotIt', Telling'
  PROVE  Inductive'
<1>1. FeedTypeOK'
  BY DEF Inductive, FeedTypeOK, RelayInductive, Reviewing
<1>2. \A o, p : Deserved(o, p) => Deserved(o, p)'
  BY NothingNew DEF Deserved
<1>3. \A S : Sound(S) => Sound(S)'
  BY <1>2 DEF Sound
<1>4. Sound(reviews)'
  BY <1>3 DEF Inductive, ReviewsSound, Reviewing
<1>5. ASSUME NEW h \in Reviewers, reviewing'[h] # Idle
      PROVE  Sound(reviewing[h].reviews)'
  BY <1>3, <1>5 DEF Inductive, ReviewsSound, Reviewing
<1>6. ReviewsSound'
  BY <1>4, <1>5 DEF ReviewsSound
<1> QED
  BY <1>1, <1>6 DEF Inductive

\* Who was eligible still is, when nobody becomes it.
LEMMA StillEligible ==
  ASSUME Inductive, UNCHANGED <<outbox, eligible>>
  PROVE  EligibleGotIt'
BY NothingNew DEF Inductive, EligibleGotIt, Deserved

\* The state is as the types say.
LEMMA ReaderTypes ==
  ASSUME Inductive
  PROVE  /\ copy \in [Orders -> Statuses \cup {None}]
         /\ notices \subseteq Notice /\ registering \subseteq Products
         /\ eligible \subseteq Orders \X Products
BY DEF Inductive, FeedTypeOK

LEMMA SaveByIdKeeps ==
  ASSUME Inductive, SaveById
  PROVE  Inductive'
<1>1. "orders" \in Consumers
  BY OrderFeedAssumption
<1>2. /\ Unread("orders") /\ Handled("orders")
      /\ copy' = [copy EXCEPT ![Message("orders").order] = Message("orders").status]
      /\ UNCHANGED <<relayVars, failures, orders, readable, Reviewing,
                     notices, notifying, eligible, registering>>
  BY DEF SaveById
<1>3. RelayInductive'
  BY <1>1, <1>2, HandledKeeps DEF Inductive
<1>4. copy' \in [Orders -> Statuses \cup {None}]
  <2>1. Message("orders").status \in Statuses
    BY <1>1, <1>2, SentIsEvent DEF Event
  <2> QED
    BY <1>2, <2>1, ReaderTypes
<1>5. notifying' \in BOOLEAN
  BY <1>2 DEF Inductive, FeedTypeOK
<1>6. UNCHANGED <<outbox, eligible>>
  BY <1>2 DEF relayVars
<1>7. Telling'
  <2>1. offset'["notifications"] = offset["notifications"]
    BY <1>2 DEF Handled
  <2> QED
    BY <1>2, <2>1, TellingStays DEF relayVars
<1> QED
  BY <1>2, <1>3, <1>4, <1>5, <1>6, <1>7, ReaderTypes, StillEligible, ReadersKeep

\* A notice that is stored is one.
LEMMA NoticesAre ==
  ASSUME Inductive, NEW e \in Event, e.status \in Notifiable
  PROVE  Stored(e) \subseteq Notice /\ notices \subseteq Stored(e)
<1>1. NewNotice(e) \in Notice
  BY DEF NewNotice, Notice, Event
<1> QED
  BY <1>1, ReaderTypes DEF Stored

\* Of the notices, only those that are not read change.
LEMMA ReadNotice ==
  ASSUME Inductive, NEW n \in notices
  PROVE  /\ [n EXCEPT !.read = TRUE] \in Notice
         /\ n.read => [n EXCEPT !.read = TRUE] = n
<1>1. n \in Notice
  BY ReaderTypes
<1>2. [n EXCEPT !.read = TRUE] \in Notice
  BY <1>1 DEF Notice
<1>3. ASSUME n.read
      PROVE  [n EXCEPT !.read = TRUE] = n
  <2>1. n.read = TRUE
    BY <1>1, <1>3 DEF Notice
  <2>2. n = [f \in {"order", "status", "read"} |-> n[f]]
    BY <1>1 DEF Notice
  <2> QED
    BY <2>1, <2>2
<1> QED
  BY <1>2, <1>3

LEMMA NotifyingKeeps ==
  ASSUME Inductive, Notifying \/ (\E n \in notices : MarkRead(n)) \/ MarkAllRead
  PROVE  Inductive' /\ \A n \in notices : n.read => n \in notices'
<1>1. "notifications" \in Consumers
  BY OrderFeedAssumption
<1>2. notifying \in BOOLEAN
  BY DEF Inductive, FeedTypeOK
<1>3. ASSUME UNCHANGED Unnoticed, RelayInductive', notices' \subseteq Notice,
             notifying' \in BOOLEAN, Telling'
      PROVE  Inductive'
  <2>1. UNCHANGED <<outbox, orders, readable, copy, eligible, registering, Reviewing>>
    BY <1>3 DEF Unnoticed, relayVars
  <2> QED
    BY <1>3, <2>1, ReaderTypes, StillEligible, ReadersKeep
<1>4. ASSUME UNCHANGED <<Unnoticed, offset>>
      PROVE  /\ RelayInductive'
             /\ notifying' = notifying => Telling'
  <2>1. /\ failures' \in 0 .. MaxFailures
        /\ offset' \in [Consumers -> [done : 0..Len(topic), from : 0..Len(topic)]]
        /\ \A c \in Consumers : offset'[c].from <= offset'[c].done
    BY <1>4 DEF Inductive, RelayInductive, RelayTypeOK, Unnoticed
  <2>2. RelayInductive'
    BY <1>4, <2>1, ConsumersKeep DEF Inductive, Unnoticed
  <2> QED
    BY <1>4, <2>2, TellingStays DEF Unnoticed, relayVars
<1>5. CASE SkipMessage
  <2>1. RelayInductive'
    BY <1>1, <1>5, HandledKeeps DEF Inductive, SkipMessage, Unnoticed
  <2>2. notices' = notices /\ notifying' = notifying /\ UNCHANGED Unnoticed
    BY <1>5 DEF SkipMessage
  <2>3. ~notifying
    BY <1>5 DEF SkipMessage, Inductive, Telling
  <2>4. Telling'
    BY <2>2, <2>3 DEF Telling
  <2> QED
    BY <1>2, <1>3, <2>1, <2>2, <2>4, ReaderTypes
<1>6. CASE SaveNotice
  <2>1. Message("notifications") \in Event /\ Message("notifications").status \in Notifiable
    BY <1>1, <1>6, SentIsEvent DEF SaveNotice
  <2>2. notices' = Stored(Message("notifications")) /\ UNCHANGED <<Unnoticed, offset>>
    BY <1>6 DEF SaveNotice
  <2>3. notifying' \in BOOLEAN
    BY <1>6 DEF SaveNotice
  <2>4. notices' \subseteq Notice /\ notices \subseteq notices'
    BY <2>1, <2>2, NoticesAre
  <2>5. Telling'
    <3>1. topic' = topic /\ offset' = offset
      BY <2>2 DEF Unnoticed, relayVars
    <3> QED
      BY <1>6, <2>1, <3>1 DEF SaveNotice, Telling, Unread, Message
  <2> QED
    BY <1>3, <1>4, <2>2, <2>3, <2>4, <2>5
<1>7. CASE PublishNotice
  <2>1. /\ Unread("notifications") /\ Handled("notifications")
        /\ notices' = notices /\ UNCHANGED Unnoticed
    BY <1>7 DEF PublishNotice, Inductive, Telling
  <2>2. notifying' \in BOOLEAN
    BY <1>7 DEF PublishNotice
  <2>3. Telling'
    BY <1>7 DEF PublishNotice, Telling
  <2>4. RelayInductive'
    BY <1>1, <2>1, HandledKeeps DEF Inductive, Unnoticed
  <2> QED
    BY <1>3, <2>1, <2>2, <2>3, <2>4, ReaderTypes
<1>8. ASSUME NEW n \in notices, MarkRead(n)
      PROVE  Inductive' /\ \A m \in notices : m.read => m \in notices'
  <2>1. /\ ~n.read /\ notices' = (notices \ {n}) \cup {[n EXCEPT !.read = TRUE]}
        /\ notifying' = notifying /\ UNCHANGED <<Unnoticed, offset>>
    BY <1>8 DEF MarkRead
  <2>2. notices' \subseteq Notice
    BY <2>1, ReadNotice, ReaderTypes
  <2>3. \A m \in notices : m.read => m \in notices'
    BY <2>1
  <2> QED
    BY <1>2, <1>3, <1>4, <2>1, <2>2, <2>3
<1>9. CASE MarkAllRead
  <2>1. /\ notices' = {[n EXCEPT !.read = TRUE] : n \in notices}
        /\ notifying' = notifying /\ UNCHANGED <<Unnoticed, offset>>
    BY <1>9 DEF MarkAllRead
  <2>2. notices' \subseteq Notice
    BY <2>1, ReadNotice
  <2>3. \A m \in notices : m.read => m \in notices'
    BY <2>1, ReadNotice
  <2> QED
    BY <1>2, <1>3, <1>4, <2>1, <2>2, <2>3
<1> QED
  BY <1>5, <1>6, <1>7, <1>8, <1>9 DEF Notifying

\* Who got a product becomes eligible, once or again.
LEMMA RegisteringKeeps ==
  ASSUME Inductive, Registering
  PROVE  Inductive'
<1>1. "reviews" \in Consumers
  BY OrderFeedAssumption
<1>2. notifying \in BOOLEAN
  BY DEF Inductive, FeedTypeOK
<1>3. ASSUME UNCHANGED Unregistered, RelayInductive', registering' \subseteq Products,
             eligible' \subseteq Orders \X Products, EligibleGotIt',
             offset'["notifications"] = offset["notifications"]
      PROVE  Inductive'
  <2>1. UNCHANGED <<outbox, topic, orders, readable, copy, notices, notifying, Reviewing>>
    BY <1>3 DEF Unregistered, relayVars
  <2>2. Telling'
    BY <1>3, <2>1, TellingStays
  <2>3. notifying' \in BOOLEAN
    BY <1>2, <2>1
  <2> QED
    BY <1>3, <2>1, <2>2, <2>3, ReaderTypes, ReadersKeep
<1>4. ASSUME UNCHANGED Unregistered, Unread("reviews"), Handled("reviews"), eligible' = eligible,
             registering' \subseteq Products
      PROVE  Inductive'
  <2>1. RelayInductive'
    BY <1>1, <1>4, HandledKeeps DEF Inductive, Unregistered
  <2>2. offset'["notifications"] = offset["notifications"]
    BY <1>4 DEF Handled
  <2>3. EligibleGotIt'
    BY <1>4, StillEligible DEF Unregistered, relayVars
  <2> QED
    BY <1>3, <1>4, <2>1, <2>2, <2>3, ReaderTypes
<1>5. CASE SkipEvent
  BY <1>4, <1>5, ReaderTypes DEF SkipEvent
<1>6. ASSUME NEW p \in Products, SaveIfAbsent(p)
      PROVE  Inductive'
  <2> DEFINE e == Message("reviews")
  <2>1. /\ Unread("reviews") /\ Delivers(e) /\ p \in Items[e.order]
        /\ eligible' = eligible \cup {<<e.order, p>>} /\ registering' = registering \cup {p}
        /\ UNCHANGED <<Unregistered, offset>>
    BY <1>6 DEF SaveIfAbsent
  <2>2. e \in Event /\ \E i \in DOMAIN outbox : outbox[i] = e
    BY <1>1, <2>1, SentIsEvent
  <2> HIDE DEF e
  <2>3. PICK o \in Orders : e = [order |-> o, status |-> "DELIVERED"]
    BY <2>1, <2>2 DEF Event, Delivers
  <2>4. Deserved(o, p) /\ eligible' = eligible \cup {<<o, p>>}
    BY <2>1, <2>2, <2>3 DEF Deserved, Reported
  <2>5. EligibleGotIt'
    <3>1. \A x, y : Deserved(x, y) => Deserved(x, y)'
      BY <2>1, NothingNew DEF Deserved, Unregistered, relayVars
    <3>2. ASSUME NEW x \in Orders, NEW y \in Products, <<x, y>> \in eligible'
          PROVE  Deserved(x, y)'
      <4>1. CASE <<x, y>> \in eligible
        BY <3>1, <4>1 DEF Inductive, EligibleGotIt
      <4>2. CASE <<x, y>> = <<o, p>>
        <5>1. x = o /\ y = p
          BY <4>2
        <5> QED
          BY <2>4, <3>1, <5>1
      <4> QED
        BY <2>4, <3>2, <4>1, <4>2
    <3> QED
      BY <3>2 DEF EligibleGotIt
  <2>6. RelayInductive'
    <3>1. /\ failures' \in 0 .. MaxFailures
          /\ offset' \in [Consumers -> [done : 0..Len(topic), from : 0..Len(topic)]]
          /\ \A c \in Consumers : offset'[c].from <= offset'[c].done
      BY <2>1 DEF Inductive, RelayInductive, RelayTypeOK, Unregistered
    <3> QED
      BY <2>1, <3>1, ConsumersKeep DEF Inductive, Unregistered
  <2>7. registering' \subseteq Products /\ eligible' \subseteq Orders \X Products
    BY <2>1, <2>4, ReaderTypes
  <2> QED
    BY <1>3, <2>1, <2>5, <2>6, <2>7
<1>7. CASE EndRegistering
  BY <1>4, <1>7 DEF EndRegistering
<1> QED
  BY <1>5, <1>6, <1>7 DEF Registering

\* A consumer goes back, and what it had in hand is forgotten.
LEMMA RestartKeeps ==
  ASSUME Inductive, NEW c \in Consumers, Restart(c)
  PROVE  Inductive'
<1>1. /\ Rewind(c) /\ notifying' = (notifying /\ c # "notifications")
      /\ registering' = IF c = "reviews" THEN {} ELSE registering
      /\ UNCHANGED <<relayVars, orders, readable, Reviewing, copy, notices, eligible>>
  BY DEF Restart
<1>2. notifying \in BOOLEAN
  BY DEF Inductive, FeedTypeOK
<1>3. RelayInductive'
  BY <1>1, RewindKeeps DEF Inductive
<1>4. Telling'
  <2>1. CASE c = "notifications"
    <3>1. notifying' = FALSE
      BY <1>1, <2>1
    <3> QED
      BY <3>1 DEF Telling
  <2>2. CASE c # "notifications"
    <3>1. notifying' = notifying
      BY <1>1, <1>2, <2>2
    <3>2. offset'["notifications"] = offset["notifications"]
      BY <1>1, <2>2 DEF Rewind
    <3> QED
      BY <1>1, <3>1, <3>2, TellingStays DEF relayVars
  <2> QED
    BY <2>1, <2>2
<1>5. UNCHANGED <<outbox, orders, readable, copy, notices, eligible, Reviewing>>
  BY <1>1 DEF relayVars
<1>6. registering' \subseteq Products
  BY <1>1, ReaderTypes
<1>7. notifying' \in BOOLEAN
  BY <1>1, <1>2
<1> QED
  BY <1>3, <1>4, <1>5, <1>6, <1>7, ReaderTypes, StillEligible, ReadersKeep

--------------------------------------------------------------------------------
(* Reviews *)

\* The table and the requests are kept sound.
LEMMA ReviewsKeep ==
  ASSUME Inductive, UNCHANGED Fixed,
         reviews' \subseteq Review, posted' \in 0 .. MaxReviews,
         reviewing' \in [Reviewers -> {Idle} \cup ReviewJob],
         Sound(reviews'), \A h \in Reviewers : reviewing'[h] # Idle => Sound(reviewing'[h].reviews)
  PROVE  Inductive'
<1>1. UNCHANGED <<outbox, relayVars, offset, failures, topic, orders, readable, Readers>>
  BY DEF Fixed, feedVars, relayVars
<1>2. RelayInductive'
  <2>1. /\ failures' \in 0 .. MaxFailures
        /\ offset' \in [Consumers -> [done : 0..Len(topic), from : 0..Len(topic)]]
        /\ \A c \in Consumers : offset'[c].from <= offset'[c].done
    BY <1>1 DEF Inductive, RelayInductive, RelayTypeOK
  <2> QED
    BY <1>1, <2>1, ConsumersKeep DEF Inductive
<1>3. FeedTypeOK'
  BY <1>1, <1>2 DEF Inductive, FeedTypeOK, RelayInductive, Readers
<1>4. EligibleGotIt'
  BY <1>1, StillEligible DEF Readers
<1>5. \A o, p : Deserved(o, p) => Deserved(o, p)'
  BY <1>1, NothingNew DEF Deserved
<1>6. ReviewsSound'
  BY <1>5 DEF ReviewsSound, Sound
<1>7. Telling'
  BY <1>1, TellingStays DEF Readers
<1> QED
  BY <1>1, <1>2, <1>3, <1>4, <1>6, <1>7 DEF Inductive

LEMMA ReviewTypes ==
  ASSUME Inductive
  PROVE  /\ reviews \subseteq Review /\ posted \in 0 .. MaxReviews
         /\ reviewing \in [Reviewers -> {Idle} \cup ReviewJob]
         /\ Sound(reviews)
         /\ \A h \in Reviewers : reviewing[h] # Idle => Sound(reviewing[h].reviews)
BY DEF Inductive, FeedTypeOK, ReviewsSound

LEMMA ReviewingKeeps ==
  ASSUME Inductive, NEW h \in Reviewers,
         \/ \E o \in Orders, p \in Products : ReadProduct(h, o, p)
         \/ CreateReview(h) \/ SaveReview(h) \/ AbandonReview(h)
  PROVE  Inductive'
<1>1. ASSUME NEW j \in ReviewJob, Sound(j.reviews), reviewing' = [reviewing EXCEPT ![h] = j]
      PROVE  /\ reviewing' \in [Reviewers -> {Idle} \cup ReviewJob]
             /\ \A g \in Reviewers : reviewing'[g] # Idle => Sound(reviewing'[g].reviews)
  <2>1. \A g \in Reviewers : reviewing'[g] = IF g = h THEN j ELSE reviewing[g]
    BY <1>1, ReviewTypes
  <2>2. reviewing' \in [Reviewers -> {Idle} \cup ReviewJob]
    BY <1>1, ReviewTypes
  <2> QED
    BY <1>1, <2>1, <2>2, ReviewTypes
<1>2. ASSUME NEW o \in Orders, NEW p \in Products, ReadProduct(h, o, p)
      PROVE  Inductive'
  <2> DEFINE j == [step |-> "check", order |-> o, product |-> p, reviews |-> ReviewsOf(p)]
  <2>1. reviewing' = [reviewing EXCEPT ![h] = j] /\ UNCHANGED <<Fixed, reviews, posted>>
    BY <1>2 DEF ReadProduct
  <2>2. ReviewsOf(p) \subseteq reviews
    BY DEF ReviewsOf
  <2>3. Sound(ReviewsOf(p)) /\ ReviewsOf(p) \subseteq Review
    BY <2>2, ReviewTypes DEF Sound
  <2>4. j \in ReviewJob /\ j.reviews = ReviewsOf(p)
    BY <2>3 DEF ReviewJob
  <2> HIDE DEF j
  <2>5. /\ reviewing' \in [Reviewers -> {Idle} \cup ReviewJob]
        /\ \A g \in Reviewers : reviewing'[g] # Idle => Sound(reviewing'[g].reviews)
    BY <1>1, <2>1, <2>3, <2>4
  <2>6. Sound(reviews') /\ reviews' \subseteq Review /\ posted' \in 0 .. MaxReviews
    BY <2>1, ReviewTypes
  <2> QED
    BY <2>1, <2>5, <2>6, ReviewsKeep
<1>3. CASE CreateReview(h)
  <2> DEFINE o == reviewing[h].order
             p == reviewing[h].product
             seen == reviewing[h].reviews
             r == [id |-> posted + 1, order |-> o, product |-> p]
             mine == seen \cup {r}
             j == [step |-> "save", order |-> o, product |-> p, reviews |-> mine]
  <2>1. /\ posted < MaxReviews /\ <<o, p>> \in eligible /\ \A q \in seen : ~Same(r, q)
        /\ reviewing[h] # Idle
        /\ posted' = posted + 1 /\ reviewing' = [reviewing EXCEPT ![h] = j]
        /\ UNCHANGED <<Fixed, reviews>>
    BY <1>3 DEF CreateReview, Earned
  <2>2. /\ o \in Orders /\ p \in Products /\ seen \subseteq Review /\ Sound(seen)
    BY <2>1, ReviewTypes DEF ReviewJob
  <2> HIDE DEF o, p, seen
  <2>3. r \in Review /\ posted' \in 0 .. MaxReviews /\ r.order = o /\ r.product = p
    BY <2>1, <2>2, ReviewTypes, OrderFeedAssumption DEF Review
  <2>4. Deserved(o, p)
    BY <2>1, <2>2 DEF Inductive, EligibleGotIt
  <2>5. \A q \in seen : ~Same(r, q) /\ ~Same(q, r)
    BY <2>1 DEF Same
  <2> HIDE DEF r
  <2>6. Sound(mine)
    <3>1. \A q \in mine : Deserved(q.order, q.product)
      BY <2>2, <2>3, <2>4 DEF Sound
    <3>2. \A q, s \in mine : Same(q, s) => q = s
      BY <2>2, <2>5 DEF Sound
    <3> QED
      BY <3>1, <3>2 DEF Sound
  <2>7. mine \subseteq Review
    BY <2>2, <2>3
  <2> HIDE DEF mine
  <2>8. j \in ReviewJob /\ j.reviews = mine
    BY <2>2, <2>7 DEF ReviewJob
  <2> HIDE DEF j
  <2>9. /\ reviewing' \in [Reviewers -> {Idle} \cup ReviewJob]
        /\ \A g \in Reviewers : reviewing'[g] # Idle => Sound(reviewing'[g].reviews)
    BY <1>1, <2>1, <2>6, <2>8
  <2>10. Sound(reviews') /\ reviews' \subseteq Review /\ UNCHANGED Fixed
    BY <2>1, ReviewTypes
  <2> QED
    BY <2>3, <2>9, <2>10, ReviewsKeep
<1>4. ASSUME reviewing' = [reviewing EXCEPT ![h] = Idle]
      PROVE  /\ reviewing' \in [Reviewers -> {Idle} \cup ReviewJob]
             /\ \A g \in Reviewers : reviewing'[g] # Idle => Sound(reviewing'[g].reviews)
  <2>1. \A g \in Reviewers : reviewing'[g] # Idle => reviewing'[g] = reviewing[g]
    BY <1>4, ReviewTypes
  <2>2. reviewing' \in [Reviewers -> {Idle} \cup ReviewJob]
    BY <1>4, ReviewTypes
  <2> QED
    BY <2>1, <2>2, ReviewTypes
<1>5. CASE SaveReview(h)
  <2> DEFINE mine == reviewing[h].reviews
             p == reviewing[h].product
  <2>1. /\ reviewing[h] # Idle /\ Insertable(mine)
        /\ reviews' = (reviews \ ReviewsOf(p)) \cup mine
        /\ reviewing' = [reviewing EXCEPT ![h] = Idle] /\ UNCHANGED <<Fixed, posted>>
    BY <1>5 DEF SaveReview
  <2>2. Sound(mine) /\ mine \subseteq Review
    BY <2>1, ReviewTypes DEF ReviewJob
  <2> HIDE DEF mine, p
  <2>3. \A r \in mine, q \in reviews : (Same(r, q) \/ Same(q, r)) => r = q
    BY <2>1 DEF Insertable, Same
  <2>4. reviews' \subseteq reviews \cup mine
    BY <2>1
  <2>5. Sound(reviews')
    <3>1. \A q \in reviews' : Deserved(q.order, q.product)
      BY <2>2, <2>4, ReviewTypes DEF Sound
    <3>2. \A q, s \in reviews' : Same(q, s) => q = s
      BY <2>2, <2>3, <2>4, ReviewTypes DEF Sound
    <3> QED
      BY <3>1, <3>2 DEF Sound
  <2>6. reviews' \subseteq Review /\ posted' \in 0 .. MaxReviews
    BY <2>1, <2>2, <2>4, ReviewTypes
  <2> QED
    BY <1>4, <2>1, <2>5, <2>6, ReviewsKeep
<1>6. CASE AbandonReview(h)
  <2>1. reviewing' = [reviewing EXCEPT ![h] = Idle] /\ UNCHANGED <<Fixed, reviews, posted>>
    BY <1>6 DEF AbandonReview
  <2> QED
    BY <1>4, <2>1, ReviewTypes, ReviewsKeep
<1> QED
  BY <1>2, <1>3, <1>5, <1>6

--------------------------------------------------------------------------------
(* Theorems *)

LEMMA InitInductive == Init => Inductive
<1> SUFFICES ASSUME Init PROVE Inductive
  OBVIOUS
<1>1. RelayInductive
  BY RelayStarts DEF Init
<1>2. FeedTypeOK
  <2>1. orders \in [Orders -> Statuses \cup {None}]
    BY StatusAssumption DEF Init
  <2>2. notifying \in BOOLEAN
    BY DEF Init
  <2>3. posted \in 0 .. MaxReviews
    BY OrderFeedAssumption DEF Init
  <2> QED
    BY <1>1, <2>1, <2>2, <2>3 DEF Init, FeedTypeOK, RelayInductive
<1>3. outbox \in Seq(Event)
  BY DEF Init, FeedInit, RelayInit
<1>4. EligibleGotIt
  BY DEF Init, EligibleGotIt
<1>5. ReviewsSound
  BY DEF Init, ReviewsSound, Sound
<1>6. Telling
  BY DEF Init, Telling
<1> QED
  BY <1>1, <1>2, <1>3, <1>4, <1>5, <1>6 DEF Inductive

LEMMA NextInductive == Inductive /\ [Next]_vars => Inductive'
<1> SUFFICES ASSUME Inductive, [Next]_vars PROVE Inductive'
  OBVIOUS
<1>1. CASE UNCHANGED vars
  BY <1>1, StutterKeeps
<1>2. CASE Next
  BY <1>2, OrdersKeep, RelayingKeeps, SaveByIdKeeps, NotifyingKeeps, RegisteringKeeps,
     RestartKeeps, ReviewingKeeps DEF Next
<1> QED
  BY <1>1, <1>2

\* What the theorems rest on holds in every state.
THEOREM OrderFeedInductive == Spec => []Inductive
BY InitInductive, NextInductive, PTL DEF Spec

\* Rows, messages and what handlers have in memory are of their types.
THEOREM OrderFeedTypes == Spec => []FeedTypeOK
<1>1. Inductive => FeedTypeOK
  BY DEF Inductive
<1> QED
  BY <1>1, OrderFeedInductive, PTL

\* A review is the only one of its purchase, and of an order reported delivered.
THEOREM OneReviewPerDelivery == Spec => []ReviewsAreEarned
<1>1. Inductive => ReviewsAreEarned
  BY DEF Inductive, ReviewsSound, Sound, Deserved, Reported, ReviewsAreEarned
<1> QED
  BY <1>1, OrderFeedInductive, PTL

\* No event, however often it comes, makes a notice unread.
THEOREM NoticesStayRead == Spec => ReadStaysRead
<1>1. Inductive /\ [Next]_vars => [\A n \in notices : n.read => n \in notices']_vars
  <2> SUFFICES ASSUME Inductive, Next
               PROVE  \A n \in notices : n.read => n \in notices'
    BY DEF vars, Readers
  <2>1. CASE Notifying \/ (\E n \in notices : MarkRead(n)) \/ MarkAllRead
    BY <2>1, NotifyingKeeps
  <2>2. ASSUME NEW o \in Orders,
               PlaceOrder(o) \/ PayOrder(o) \/ \E s \in Statuses : SaveOrder(o, s)
        PROVE  notices' = notices
    BY <2>2 DEF PlaceOrder, PayOrder, SaveOrder, Change, Readers
  <2>3. CASE (Relay \/ Stop) /\ UNCHANGED Unaffected
    BY <2>3 DEF Unaffected, Readers
  <2>4. CASE SaveById
    BY <2>4 DEF SaveById
  <2>5. CASE Registering
    BY <2>5 DEF Registering, SkipEvent, SaveIfAbsent, EndRegistering, Unregistered
  <2>6. ASSUME NEW c \in Consumers, Restart(c)
        PROVE  notices' = notices
    BY <2>6 DEF Restart
  <2>7. ASSUME NEW h \in Reviewers,
               \/ \E o \in Orders, p \in Products : ReadProduct(h, o, p)
               \/ CreateReview(h) \/ SaveReview(h) \/ AbandonReview(h)
        PROVE  notices' = notices
    BY <2>7 DEF ReadProduct, CreateReview, SaveReview, AbandonReview, Fixed, Readers
  <2> QED
    BY <2>1, <2>2, <2>3, <2>4, <2>5, <2>6, <2>7 DEF Next
<1> QED
  BY <1>1, OrderFeedInductive, PTL DEF Spec, ReadStaysRead

\* Every change of an order announces an event of the log.
LEMMA ChangeAnnounces ==
  ASSUME NEW o \in Orders, NEW status \in Statuses, Change(o, status)
  PROVE  Announces
<1>1. [order |-> o, status |-> status] \in Events
  BY StatusAssumption DEF Event
<1> QED
  BY <1>1 DEF Change, Announces

\* Every step of the order feed is a step of the log, or none.
LEMMA OrderStepImplements == Inductive /\ [Next]_vars => LogStep
<1> SUFFICES ASSUME Inductive, [Next]_vars PROVE LogStep
  OBVIOUS
<1> USE DEF feedVars
<1>1. ASSUME NEW o \in Orders,
             PlaceOrder(o) \/ PayOrder(o) \/ \E s \in Statuses : SaveOrder(o, s)
      PROVE  Announces
  BY <1>1, ChangeAnnounces, CreatedIsStatus DEF PlaceOrder, PayOrder, SaveOrder
<1>2. ASSUME SaveById \/ Notifying \/ Registering \/ \E c \in Consumers : Restart(c)
      PROVE  UNCHANGED relayVars
  BY <1>2 DEF SaveById, Notifying, SkipMessage, SaveNotice, PublishNotice, Unnoticed,
              Registering, SkipEvent, SaveIfAbsent, EndRegistering, Unregistered, Restart
<1>3. ASSUME (\E n \in notices : MarkRead(n)) \/ MarkAllRead
      PROVE  UNCHANGED relayVars
  BY <1>3 DEF MarkRead, MarkAllRead, Unnoticed
<1>4. ASSUME NEW h \in Reviewers,
             \/ \E o \in Orders, p \in Products : ReadProduct(h, o, p)
             \/ CreateReview(h) \/ SaveReview(h) \/ AbandonReview(h)
      PROVE  UNCHANGED relayVars
  BY <1>4 DEF ReadProduct, CreateReview, SaveReview, AbandonReview, Fixed
<1>5. ASSUME UNCHANGED vars
      PROVE  UNCHANGED relayVars
  BY <1>5 DEF vars
<1>6. Relay \/ Stop \/ UNCHANGED relayVars \/ Announces
  BY <1>1, <1>2, <1>3, <1>4, <1>5 DEF Next
<1>7. RelayInductive
  BY DEF Inductive
<1> QED
  BY <1>7, <1>6, RelayImplements

\* Whatever its polls, errors and restarts, the relay of cart-service sends the events
\* of each order one by one in the order of its saves, each until it is marked.
THEOREM OrderFeedImplementsLog == Spec => ImplementsLog
<1>1. Init => Log!Init
  BY LogStarts DEF Init
<1>2. LogStep => [Log!Next]_(Log!vars)
  BY DEF LogStep
<1>3. Spec => Log!Spec
  BY <1>1, <1>2, OrderStepImplements, OrderFeedInductive, PTL DEF Spec, Log!Spec
<1> QED
  BY <1>3 DEF ImplementsLog
================================================================================
