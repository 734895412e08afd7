------------------------------ MODULE ProductFeedProofs ------------------------------
(***************************************************************************)
(* Theorems about ProductFeed.tla for every value of its constants: what   *)
(* is published ends with the row, and the documents of a product are      *)
(* together those of one event.                                            *)
(*                                                                         *)
(* Outbox and row change together (RowsAnnounced), and the relay keeps the *)
(* order (Relayed).  Documents are replaced one by one: those of the event *)
(* in hand that are not left to do are of its edition (Applying), and no   *)
(* event touches the documents of another product (Fits), so that every    *)
(* other product keeps what its last event made of it (AppliedSoFar).      *)
(***************************************************************************)
EXTENDS ProductFeed, RelayProofs

--------------------------------------------------------------------------------
(* The inductive invariant *)

Types ==
  /\ rows \in [Products -> Content \cup {Gone}]
  /\ catalog \in [Products -> Content \cup {Gone}]
  /\ priced \in [Variants -> 0 .. MaxEditions]
  /\ applying \in [left : SUBSET Variants, prune : BOOLEAN]
  /\ outbox \in Seq(Event)

\* A product is announced with variants of its own.
FitsIts(e) == e.content.variants \subseteq VariantsOf(e.product)

Fits ==
  /\ \A i \in DOMAIN outbox : FitsIts(outbox[i])
  /\ \A p \in Products : rows[p].variants \subseteq VariantsOf(p)

EventsOf(p) == {e \in Event : e.product = p}

\* The last event of a product in the outbox has the content of its row.
RowsAnnounced ==
  \A p \in Products :
    /\ \A e \in Events :
         IsLast(outbox, DOMAIN outbox, EventsOf(p), e) => rows[p] = e.content
    /\ ~Known(p) => rows[p] = Gone

\* What of the event in hand is done.
Applying ==
  LET e == Message("priced") IN
  /\ ~applying.prune => applying.left = {}
  /\ applying.prune =>
       /\ Unread("priced")
       /\ applying.left \subseteq e.content.variants
       /\ \A v \in e.content.variants \ applying.left : priced[v] = e.content.edition

\* The events handled since the process started.
Since == offset["priced"].from + 1 .. offset["priced"].done

LastHandled(i) == \A j \in Since : topic[j].product = topic[i].product => j <= i

\* A product with no event in hand is as the last one left it.
AppliedSoFar ==
  \A i \in Since :
    \/ ~LastHandled(i)
    \/ applying.prune /\ topic[i].product = Message("priced").product
    \/ DocumentsOf(topic[i].product, topic[i].content)

Inductive ==
  /\ RelayInductive /\ Types
  /\ Fits /\ RowsAnnounced
  /\ Applying /\ AppliedSoFar

--------------------------------------------------------------------------------
(* Events and what is handled *)

\* Whoever has gone, or is there, has variants of its own.
LEMMA ContentKind ==
  ASSUME NEW content \in Content \cup {Gone}
  PROVE  content.variants \subseteq Variants /\ content.edition \in Nat
BY ProductFeedAssumption DEF Content, Gone

\* What is sent is an event of this feed, of a product and its own variants.
LEMMA SentIsEvent ==
  ASSUME Inductive, NEW k \in DOMAIN topic
  PROVE  topic[k] \in Event /\ FitsIts(topic[k])
<1>1. PICK i \in DOMAIN outbox : topic[k] = outbox[i]
  BY DEF Inductive, RelayInductive, Announced
<1>2. outbox[i] \in Event
  BY <1>1 DEF Inductive, Types
<1> QED
  BY <1>1, <1>2 DEF Inductive, Fits

\* Where a consumer stands.
LEMMA OffsetKind ==
  ASSUME Inductive, NEW c \in Consumers
  PROVE  /\ offset[c] \in [done : 0..Len(topic), from : 0..Len(topic)]
         /\ topic \in Seq(Events) /\ Len(topic) \in Nat /\ DOMAIN topic = 1 .. Len(topic)
         /\ offset[c].from \in Nat /\ offset[c].done \in Nat
         /\ offset[c].from .. offset[c].done \subseteq 0 .. Len(topic)
         /\ offset[c].from + 1 .. offset[c].done \subseteq DOMAIN topic
         /\ Unread(c) => offset[c].done + 1 \in DOMAIN topic
BY DEF Inductive, RelayInductive, RelayTypeOK, Unread

\* The message in hand is an event of this feed.
LEMMA MessageIsEvent ==
  ASSUME Inductive, NEW c \in Consumers, Unread(c)
  PROVE  Message(c) \in Event /\ FitsIts(Message(c))
BY OffsetKind, SentIsEvent DEF Message

\* What a consumer has done stays done, whatever is sent after it.
LEMMA HandledStays ==
  ASSUME Inductive, topic' = topic \/ \E e \in Events : topic' = Append(topic, e),
         offset'["priced"] = offset["priced"], UNCHANGED <<priced, applying>>
  PROVE  Applying' /\ AppliedSoFar'
<1>1. "priced" \in Consumers
  BY ProductFeedAssumption
<1> DEFINE k == offset["priced"].done
<1>2. /\ topic \in Seq(Events) /\ Len(topic) \in Nat /\ DOMAIN topic = 1 .. Len(topic)
      /\ Since \subseteq DOMAIN topic /\ k \in Nat
  BY <1>1, OffsetKind DEF Since
<1>3. \A i \in DOMAIN topic : topic'[i] = topic[i]
  BY <1>2
<1>4. Len(topic) <= Len(topic')
  BY <1>2
<1>5. Unread("priced") => Unread("priced")' /\ Message("priced")' = Message("priced")
  <2>1. ASSUME k < Len(topic)
        PROVE  k + 1 \in DOMAIN topic /\ k < Len(topic')
    BY <1>2, <1>4, <2>1
  <2> QED
    BY <1>3, <2>1 DEF Unread, Message
<1>6. Applying'
  BY <1>5 DEF Inductive, Applying
<1>7. Since' = Since
  BY DEF Since
<1>8. ASSUME NEW i \in Since
      PROVE  topic'[i] = topic[i] /\ (LastHandled(i)' => LastHandled(i))
  BY <1>2, <1>3, <1>7 DEF LastHandled
<1>9. \A p, content : DocumentsOf(p, content) => DocumentsOf(p, content)'
  BY DEF DocumentsOf
<1>10. applying.prune => Message("priced")' = Message("priced") /\ applying'.prune
  BY <1>5 DEF Inductive, Applying
<1>11. AppliedSoFar'
  BY <1>7, <1>8, <1>9, <1>10 DEF Inductive, AppliedSoFar
<1> QED
  BY <1>6, <1>11

--------------------------------------------------------------------------------
(* products-service *)

\* While saves may be made, what one writes is an edition.
LEMMA NextIsContent ==
  ASSUME Inductive, MayWrite, NEW p \in Products, NEW vs \in SUBSET VariantsOf(p)
  PROVE  NextEdition(vs) \in Content /\ NextEdition(vs).variants = vs
<1>1. Len(outbox) + 1 \in 1 .. MaxEditions
  BY ProductFeedAssumption DEF MayWrite, Inductive, Types
<1>2. vs \subseteq Variants
  BY DEF VariantsOf
<1> QED
  BY <1>1, <1>2 DEF NextEdition, Content

\* A row and its event, in one transaction.
LEMMA WriteKeeps ==
  ASSUME Inductive, NEW p \in Products, NEW content \in Content \cup {Gone},
         content.variants \subseteq VariantsOf(p), Write(p, content)
  PROVE  Inductive'
<1> DEFINE x == [product |-> p, content |-> content]
<1>1. /\ rows' = [rows EXCEPT ![p] = content] /\ outbox' = Append(outbox, x)
      /\ UNCHANGED <<published, polling, poll, topic, offset, failures, catalog, priced, applying>>
  BY DEF Write, Announce
<1>2. x \in Event /\ x \in Events /\ x.product = p /\ x.content = content
  BY EventAssumption DEF Event
<1>3. Announce(x)
  BY <1>1 DEF Announce
<1> HIDE DEF x
<1>4. RelayInductive'
  BY <1>1, <1>2, <1>3, AnnounceKeeps DEF Inductive
<1>5. Types'
  BY <1>1, <1>2 DEF Inductive, Types
<1>6. /\ outbox \in Seq(Event) /\ outbox \in Seq(Events) /\ Len(outbox) \in Nat
      /\ Len(outbox') = Len(outbox) + 1 /\ outbox'[Len(outbox) + 1] = x
      /\ DOMAIN outbox = 1 .. Len(outbox) /\ DOMAIN outbox' = 1 .. Len(outbox) + 1
      /\ \A i \in DOMAIN outbox : outbox'[i] = outbox[i]
  BY <1>1, <1>2 DEF Inductive, Types, RelayInductive, RelayTypeOK
<1>7. \A i \in DOMAIN outbox' : i \in DOMAIN outbox \/ i = Len(outbox) + 1
  BY <1>6
<1>8. \A q \in Products : rows'[q] = IF q = p THEN content ELSE rows[q]
  BY <1>1 DEF Inductive, Types
<1>9. Fits'
  <2>1. FitsIts(x)
    BY <1>2 DEF FitsIts
  <2>2. \A i \in DOMAIN outbox' : FitsIts(outbox'[i])
    BY <1>6, <1>7, <2>1 DEF Inductive, Fits
  <2> QED
    BY <1>8, <2>2 DEF Inductive, Fits, FitsIts
<1>10. RowsAnnounced'
  <2>1. ASSUME NEW q \in Products, NEW e \in Events, IsLast(outbox', DOMAIN outbox', EventsOf(q), e)
        PROVE  rows'[q] = e.content
    <3>1. IF x \in EventsOf(q) THEN e = x ELSE IsLast(outbox, DOMAIN outbox, EventsOf(q), e)
      BY <1>1, <1>2, <1>6, <2>1, LastOfAppended
    <3>2. x \in EventsOf(q) <=> q = p
      BY <1>2 DEF EventsOf
    <3> QED
      BY <1>2, <1>8, <3>1, <3>2 DEF Inductive, RowsAnnounced
  <2>2. ASSUME NEW q \in Products, ~Known(q)'
        PROVE  rows'[q] = Gone
    <3>1. q # p
      BY <1>2, <1>6, <2>2 DEF Known
    <3>2. ~Known(q)
      BY <1>6, <2>2 DEF Known
    <3> QED
      BY <1>8, <3>1, <3>2 DEF Inductive, RowsAnnounced
  <2> QED
    BY <2>1, <2>2 DEF RowsAnnounced
<1>11. Applying' /\ AppliedSoFar'
  BY <1>1, HandledStays
<1> QED
  BY <1>4, <1>5, <1>9, <1>10, <1>11 DEF Inductive

LEMMA WritesKeep ==
  ASSUME Inductive, NEW p \in Products,
         \/ \E vs \in SUBSET VariantsOf(p) \ {{}} : CreateProduct(p, vs) \/ SaveProduct(p, vs)
         \/ DeleteProduct(p)
         \/ CommitReservation(p)
  PROVE  Inductive'
<1>1. ASSUME MayWrite, NEW vs \in SUBSET VariantsOf(p)
      PROVE  NextEdition(vs) \in Content \cup {Gone} /\ NextEdition(vs).variants = vs
  BY <1>1, NextIsContent
<1>2. ASSUME NEW vs \in SUBSET VariantsOf(p) \ {{}}, CreateProduct(p, vs) \/ SaveProduct(p, vs)
      PROVE  Inductive'
  <2>1. MayWrite /\ Write(p, NextEdition(vs))
    BY <1>2 DEF CreateProduct, SaveProduct
  <2> QED
    BY <1>1, <2>1, WriteKeeps
<1>3. CASE DeleteProduct(p)
  <2>1. Gone \in Content \cup {Gone} /\ Gone.variants \subseteq VariantsOf(p)
    BY DEF Gone
  <2> QED
    BY <1>3, <2>1, WriteKeeps DEF DeleteProduct
<1>4. CASE CommitReservation(p)
  <2>1. rows[p].variants \in SUBSET VariantsOf(p)
    BY DEF Inductive, Fits
  <2> QED
    BY <1>1, <1>4, <2>1, WriteKeeps DEF CommitReservation
<1> QED
  BY <1>2, <1>3, <1>4

--------------------------------------------------------------------------------
(* The relay and the copies *)

\* Rows and outbox are as they were.
LEMMA RowsStay ==
  ASSUME Inductive, UNCHANGED <<outbox, rows>>
  PROVE  Fits' /\ RowsAnnounced'
BY DEF Inductive, Fits, RowsAnnounced, Known

LEMMA RelayingKeeps ==
  ASSUME Inductive, Relay \/ Stop, UNCHANGED Copies
  PROVE  Inductive'
<1>1. RelayInductive'
  BY RelayKeeps DEF Inductive
<1>2. UNCHANGED <<outbox, offset>>
  BY RelayAppends DEF Inductive
<1>3. topic' = topic \/ \E e \in Events : topic' = Append(topic, e)
  BY RelayAppends DEF Inductive
<1>4. Types'
  BY <1>2 DEF Inductive, Types, Copies
<1>5. Fits' /\ RowsAnnounced'
  BY <1>2, RowsStay DEF Copies
<1>6. Applying' /\ AppliedSoFar'
  BY <1>2, <1>3, HandledStays DEF Copies
<1> QED
  BY <1>1, <1>4, <1>5, <1>6 DEF Inductive

LEMMA HandleProductKeeps ==
  ASSUME Inductive, HandleProduct
  PROVE  Inductive'
<1>1. "catalog" \in Consumers /\ "priced" \in Consumers
  BY ProductFeedAssumption
<1>2. /\ Unread("catalog") /\ Handled("catalog")
      /\ catalog' = [catalog EXCEPT ![Message("catalog").product] = Message("catalog").content]
      /\ UNCHANGED <<relayVars, failures, rows, priced, applying>>
  BY DEF HandleProduct
<1>3. RelayInductive'
  BY <1>1, <1>2, HandledKeeps DEF Inductive
<1>4. UNCHANGED <<outbox, topic>> /\ offset'["priced"] = offset["priced"]
  BY <1>2 DEF relayVars, Handled
<1>5. Types'
  <2>1. Message("catalog").content \in Content \cup {Gone}
    BY <1>1, <1>2, MessageIsEvent DEF Event
  <2> QED
    BY <1>2, <1>4, <2>1 DEF Inductive, Types
<1>6. Fits' /\ RowsAnnounced'
  BY <1>2, <1>4, RowsStay
<1>7. Applying' /\ AppliedSoFar'
  BY <1>2, <1>4, HandledStays
<1> QED
  BY <1>3, <1>5, <1>6, <1>7 DEF Inductive

--------------------------------------------------------------------------------
(* cart-products-projection *)

\* A step of this consumer that leaves everything else alone.
LEMMA PricedKeeps ==
  ASSUME Inductive, RelayInductive', UNCHANGED <<outbox, rows, catalog>>,
         priced' \in [Variants -> 0 .. MaxEditions],
         applying' \in [left : SUBSET Variants, prune : BOOLEAN],
         Applying', AppliedSoFar'
  PROVE  Inductive'
<1>1. Types'
  BY DEF Inductive, Types
<1> QED
  BY <1>1, RowsStay DEF Inductive

\* Nothing that the relay or a consumer's place depends on changes.
LEMMA FeedStays ==
  ASSUME Inductive, UNCHANGED feedVars
  PROVE  RelayInductive'
<1>1. /\ failures' \in 0 .. MaxFailures
      /\ offset' \in [Consumers -> [done : 0..Len(topic), from : 0..Len(topic)]]
      /\ \A c \in Consumers : offset'[c].from <= offset'[c].done
  BY DEF Inductive, RelayInductive, RelayTypeOK, feedVars
<1> QED
  BY <1>1, ConsumersKeep DEF Inductive, feedVars

LEMMA TakeEventKeeps ==
  ASSUME Inductive, TakeEvent
  PROVE  Inductive'
<1> DEFINE e == Message("priced")
           j == [left |-> e.content.variants, prune |-> TRUE]
<1>1. /\ Unread("priced") /\ applying = Resting /\ applying' = j
      /\ UNCHANGED <<feedVars, rows, catalog, priced>>
  BY DEF TakeEvent
<1>2. "priced" \in Consumers
  BY ProductFeedAssumption
<1>3. e \in Event /\ e.content.variants \subseteq Variants
  BY <1>1, <1>2, MessageIsEvent, ContentKind DEF Event
<1>4. UNCHANGED <<outbox, topic, offset>> /\ Since' = Since
  BY <1>1 DEF feedVars, relayVars, Since
<1>5. Unread("priced")' /\ e' = e
  BY <1>1, <1>4 DEF Unread, Message
<1> HIDE DEF e
<1>6. applying' \in [left : SUBSET Variants, prune : BOOLEAN]
      /\ applying'.left = e.content.variants /\ applying'.prune = TRUE
  BY <1>1, <1>3
<1>7. Applying'
  BY <1>5, <1>6 DEF Applying, e
<1>8. AppliedSoFar'
  <2>1. ~applying.prune
    BY <1>1 DEF Resting
  <2>2. \A i \in Since : LastHandled(i)' => LastHandled(i)
    BY <1>4 DEF LastHandled
  <2>3. \A p, content : DocumentsOf(p, content) => DocumentsOf(p, content)'
    BY <1>1 DEF DocumentsOf
  <2> QED
    BY <1>4, <2>1, <2>2, <2>3 DEF Inductive, AppliedSoFar
<1>9. priced' \in [Variants -> 0 .. MaxEditions]
  BY <1>1 DEF Inductive, Types
<1> QED
  BY <1>1, <1>4, <1>6, <1>7, <1>8, <1>9, FeedStays, PricedKeeps

LEMMA ReplaceOneKeeps ==
  ASSUME Inductive, NEW v \in Variants, ReplaceOne(v)
  PROVE  Inductive'
<1> DEFINE e == Message("priced")
           j == [applying EXCEPT !.left = @ \ {v}]
<1>1. /\ v \in applying.left /\ priced' = [priced EXCEPT ![v] = e.content.edition]
      /\ applying' = j
      /\ UNCHANGED <<feedVars, rows, catalog>>
  BY DEF ReplaceOne
<1>2. "priced" \in Consumers
  BY ProductFeedAssumption
<1>3. /\ applying.prune /\ Unread("priced") /\ applying.left \subseteq e.content.variants
      /\ \A w \in e.content.variants \ applying.left : priced[w] = e.content.edition
  BY <1>1 DEF Inductive, Applying
<1>4. /\ e \in Event /\ e.content.variants \subseteq VariantsOf(e.product)
      /\ e.content.edition \in 0 .. MaxEditions
  <2>1. e \in Event /\ e.content.variants \subseteq VariantsOf(e.product)
    BY <1>2, <1>3, MessageIsEvent DEF FitsIts
  <2>2. e.content \in Content \cup {Gone}
    BY <2>1 DEF Event
  <2>3. e.content.edition \in 0 .. MaxEditions
    BY <2>2, ProductFeedAssumption DEF Content, Gone
  <2> QED
    BY <2>1, <2>3
<1>5. UNCHANGED <<outbox, topic, offset>> /\ Since' = Since
  BY <1>1 DEF feedVars, relayVars, Since
<1>6. Unread("priced")' /\ e' = e
  BY <1>3, <1>5 DEF Unread, Message
<1>7. applying \in [left : SUBSET Variants, prune : BOOLEAN] /\ priced \in [Variants -> 0 .. MaxEditions]
  BY DEF Inductive, Types
<1>8. applying' \in [left : SUBSET Variants, prune : BOOLEAN]
      /\ applying'.left = applying.left \ {v} /\ applying'.prune = applying.prune
  BY <1>1, <1>7
<1> HIDE DEF e, j
<1>9. priced' \in [Variants -> 0 .. MaxEditions] /\ priced'[v] = e.content.edition
      /\ \A w \in Variants : w # v => priced'[w] = priced[w]
  BY <1>1, <1>4, <1>7
<1>10. Applying'
  <2>1. \A w \in e.content.variants \ applying'.left : priced'[w] = e.content.edition
    BY <1>3, <1>4, <1>8, <1>9 DEF VariantsOf
  <2>2. applying'.left \subseteq e.content.variants /\ applying'.prune
    BY <1>3, <1>8
  <2> QED
    BY <1>6, <2>1, <2>2 DEF Applying, e
<1>11. AppliedSoFar'
  <2>1. ASSUME NEW i \in Since, LastHandled(i)', topic[i].product # e.product
        PROVE  DocumentsOf(topic[i].product, topic[i].content)'
    <3>1. LastHandled(i)
      BY <1>5, <2>1 DEF LastHandled
    <3>2. DocumentsOf(topic[i].product, topic[i].content)
      BY <2>1, <3>1 DEF Inductive, AppliedSoFar, e
    <3>3. v \notin VariantsOf(topic[i].product)
      BY <1>1, <1>3, <1>4, <2>1 DEF VariantsOf
    <3>4. \A w \in VariantsOf(topic[i].product) : priced'[w] = priced[w]
      BY <1>9, <3>3 DEF VariantsOf
    <3> QED
      BY <1>5, <3>2, <3>4 DEF DocumentsOf
  <2> QED
    BY <1>3, <1>5, <1>6, <1>8, <2>1 DEF AppliedSoFar, e
<1> QED
  BY <1>1, <1>5, <1>8, <1>9, <1>10, <1>11, FeedStays, PricedKeeps

LEMMA DeleteManyKeeps ==
  ASSUME Inductive, DeleteMany
  PROVE  Inductive'
<1> DEFINE e == Message("priced")
           k == offset["priced"].done + 1
<1>1. /\ applying.prune /\ applying.left = {} /\ priced' = Pruned(e) /\ applying' = Resting
      /\ Handled("priced") /\ UNCHANGED <<relayVars, failures, rows, catalog>>
  BY DEF DeleteMany
<1>2. "priced" \in Consumers
  BY ProductFeedAssumption
<1>3. Unread("priced") /\ \A w \in e.content.variants : priced[w] = e.content.edition
  BY <1>1 DEF Inductive, Applying
<1>4. e \in Event /\ e.content.variants \subseteq VariantsOf(e.product)
  BY <1>2, <1>3, MessageIsEvent DEF FitsIts
<1>5. RelayInductive'
  BY <1>1, <1>2, <1>3, HandledKeeps DEF Inductive
<1>6. UNCHANGED <<outbox, topic>>
  BY <1>1 DEF relayVars
<1>7. e = topic[k] /\ k \in DOMAIN topic /\ offset["priced"].from \in Nat /\ offset["priced"].done \in Nat
  BY <1>2, <1>3, OffsetKind DEF Message
<1>8. offset'["priced"].done = k /\ offset'["priced"].from = offset["priced"].from
  BY <1>1, <1>2 DEF Handled, Inductive, RelayInductive, RelayTypeOK
<1> HIDE DEF e
<1>9. \A i \in Since' : i \in Since \/ i = k
  BY <1>7, <1>8 DEF Since
<1>10. Since \subseteq Since' /\ \A i \in Since : i < k
  BY <1>7, <1>8 DEF Since
<1>11. priced \in [Variants -> 0 .. MaxEditions]
  BY DEF Inductive, Types
<1>12. \A w \in Variants :
         priced'[w] = IF w \in VariantsOf(e.product) \ e.content.variants THEN 0 ELSE priced[w]
  BY <1>1 DEF Pruned
<1>13. priced' \in [Variants -> 0 .. MaxEditions]
  <2>1. 0 \in 0 .. MaxEditions
    BY ProductFeedAssumption
  <2>2. priced' = [w \in Variants |->
           IF w \in VariantsOf(e.product) \ e.content.variants THEN 0 ELSE priced[w]]
    BY <1>1 DEF Pruned
  <2> QED
    BY <1>11, <2>1, <2>2
<1>14. \A w \in VariantsOf(e.product) :
         priced'[w] = IF w \in e.content.variants THEN e.content.edition ELSE 0
  <2>1. ASSUME NEW w \in VariantsOf(e.product)
        PROVE  priced'[w] = IF w \in e.content.variants THEN e.content.edition ELSE 0
    <3>1. w \in Variants
      BY DEF VariantsOf
    <3> QED
      BY <1>3, <1>12, <3>1
  <2> QED
    BY <2>1
<1>15. applying' \in [left : SUBSET Variants, prune : BOOLEAN]
       /\ applying'.left = {} /\ ~applying'.prune
  BY <1>1 DEF Resting
<1>16. Applying'
  BY <1>15 DEF Applying
<1>17. AppliedSoFar'
  <2>1. ASSUME NEW i \in Since', LastHandled(i)'
        PROVE  DocumentsOf(topic[i].product, topic[i].content)'
    <3>1. CASE i = k
      BY <1>6, <1>7, <1>14, <3>1 DEF DocumentsOf
    <3>2. CASE i \in Since
      <4>1. topic[i].product # e.product
        <5>1. k \in Since' /\ i < k /\ i \in Nat /\ k \in Nat
          BY <1>7, <1>8, <1>10, <3>2 DEF Since
        <5>2. topic[k].product = topic[i].product => k <= i
          BY <1>6, <2>1, <5>1 DEF LastHandled
        <5> QED
          BY <1>7, <5>1, <5>2
      <4>2. LastHandled(i)
        BY <1>6, <1>10, <2>1 DEF LastHandled
      <4>3. DocumentsOf(topic[i].product, topic[i].content)
        BY <3>2, <4>1, <4>2 DEF Inductive, AppliedSoFar, e
      <4>4. \A w \in VariantsOf(topic[i].product) : w \notin VariantsOf(e.product)
        BY <4>1 DEF VariantsOf
      <4>5. \A w \in VariantsOf(topic[i].product) : priced'[w] = priced[w]
        BY <1>12, <4>4 DEF VariantsOf
      <4> QED
        BY <1>6, <4>3, <4>5 DEF DocumentsOf
    <3> QED
      BY <1>9, <2>1, <3>1, <3>2
  <2> QED
    BY <2>1 DEF AppliedSoFar
<1> QED
  BY <1>1, <1>5, <1>6, <1>13, <1>15, <1>16, <1>17, PricedKeeps

\* The process stops, with an event half applied: it will be applied again.
LEMMA RestartKeeps ==
  ASSUME Inductive, NEW c \in Consumers, Restart(c)
  PROVE  Inductive'
<1>1. /\ Rewind(c) /\ applying' = IF c = "priced" THEN Resting ELSE applying
      /\ UNCHANGED <<relayVars, rows, catalog, priced>>
  BY DEF Restart
<1>2. RelayInductive'
  BY <1>1, RewindKeeps DEF Inductive
<1>3. UNCHANGED <<outbox, topic>>
  BY <1>1 DEF relayVars
<1>4. priced' \in [Variants -> 0 .. MaxEditions]
      /\ applying' \in [left : SUBSET Variants, prune : BOOLEAN]
  BY <1>1 DEF Inductive, Types, Resting
<1>5. CASE c = "priced"
  <2>1. applying'.left = {} /\ ~applying'.prune
    BY <1>1, <1>5 DEF Resting
  <2>2. Since' = {}
    <3>1. PICK k \in offset[c].from .. offset[c].done : offset' = [offset EXCEPT ![c] = Fresh(k)]
      BY <1>1 DEF Rewind
    <3>2. offset'["priced"].from = k /\ offset'["priced"].done = k /\ k \in Nat
      BY <1>5, <3>1, OffsetKind DEF Fresh, Inductive, RelayInductive, RelayTypeOK
    <3> QED
      BY <3>2 DEF Since
  <2>3. Applying' /\ AppliedSoFar'
    BY <2>1, <2>2 DEF Applying, AppliedSoFar
  <2> QED
    BY <1>1, <1>2, <1>3, <1>4, <2>3, PricedKeeps
<1>6. CASE c # "priced"
  <2>1. offset'["priced"] = offset["priced"]
    BY <1>1, <1>6 DEF Rewind
  <2>2. Applying' /\ AppliedSoFar'
    BY <1>1, <1>3, <1>6, <2>1, HandledStays
  <2> QED
    BY <1>1, <1>2, <1>3, <1>4, <2>2, PricedKeeps
<1> QED
  BY <1>5, <1>6

--------------------------------------------------------------------------------
(* Theorems *)

LEMMA InitInductive == Init => Inductive
<1> SUFFICES ASSUME Init PROVE Inductive
  OBVIOUS
<1>1. RelayInductive
  BY RelayStarts DEF Init
<1>2. outbox = <<>> /\ Len(outbox) = 0 /\ Since = {}
  <2>1. "priced" \in Consumers
    BY ProductFeedAssumption
  <2> QED
    BY <2>1 DEF Init, FeedInit, RelayInit, Fresh, Since
<1>3. Types
  BY <1>2, ProductFeedAssumption DEF Init, Types, Resting
<1>4. Fits
  BY <1>2 DEF Init, Fits, Gone
<1>5. RowsAnnounced
  BY <1>2 DEF Init, RowsAnnounced, IsLast
<1>6. ~applying.prune /\ applying.left = {}
  BY DEF Init, Resting
<1>7. Applying /\ AppliedSoFar
  BY <1>2, <1>6 DEF Applying, AppliedSoFar
<1> QED
  BY <1>1, <1>3, <1>4, <1>5, <1>7 DEF Inductive

LEMMA NextInductive == Inductive /\ [Next]_vars => Inductive'
<1> SUFFICES ASSUME Inductive, [Next]_vars PROVE Inductive'
  OBVIOUS
<1>1. CASE UNCHANGED vars
  <2>1. UNCHANGED <<feedVars, outbox, topic, offset, rows, catalog, priced, applying>>
    BY <1>1 DEF vars, feedVars, relayVars
  <2>2. priced' \in [Variants -> 0 .. MaxEditions]
        /\ applying' \in [left : SUBSET Variants, prune : BOOLEAN]
    BY <2>1 DEF Inductive, Types
  <2> QED
    BY <2>1, <2>2, FeedStays, HandledStays, PricedKeeps
<1>2. CASE Next
  BY <1>2, WritesKeep, RelayingKeeps, HandleProductKeeps, TakeEventKeeps, ReplaceOneKeeps,
     DeleteManyKeeps, RestartKeeps DEF Next, Projecting
<1> QED
  BY <1>1, <1>2

\* What the theorems rest on holds in every state.
THEOREM ProductFeedInductive == Spec => []Inductive
BY InitInductive, NextInductive, PTL DEF Spec

\* The topic and what is still to be published end, for each product, with its row.
THEOREM TopicEndsWithRow == Spec => []FeedEndsWithRow
<1>1. ASSUME Inductive, NEW p \in Products
      PROVE  LET waiting == Of(outbox, Pending, p)
                 sent    == Of(topic, DOMAIN topic, p)
             IN  rows[p] = IF waiting # {} THEN outbox[Max(waiting)].content
                           ELSE IF sent # {} THEN topic[Max(sent)].content ELSE Gone
  <2> DEFINE waiting == Of(outbox, Pending, p)
             sent == Of(topic, DOMAIN topic, p)
             K == EventsOf(p)
  <2>1. PICK S \in SUBSET DOMAIN outbox : RelayedBy(S)
    BY <1>1 DEF Inductive, RelayInductive, Relayed
  <2>2. /\ outbox \in Seq(Event) /\ Len(outbox) \in Nat /\ DOMAIN outbox = 1 .. Len(outbox)
        /\ topic \in Seq(Events) /\ Len(topic) \in Nat /\ DOMAIN topic = 1 .. Len(topic)
    BY <1>1 DEF Inductive, Types, RelayInductive, RelayTypeOK
  <2>3. /\ \A i \in 1 .. Len(outbox) : outbox[i] \in K <=> outbox[i].product = p
        /\ \A i \in 1 .. Len(topic) : topic[i] \in K <=> topic[i].product = p
        /\ \A i \in 1 .. Len(outbox) : outbox[i] \in Events
        /\ \A i \in 1 .. Len(topic) : topic[i] \in Events
    BY <1>1, <2>2, SentIsEvent, EventAssumption DEF EventsOf
  <2>4. /\ published \subseteq S
        /\ \A i \in S, j \in DOMAIN outbox :
             outbox[i] \in K /\ outbox[j] \in K /\ j < i => j \in published
        /\ \A e \in Events : IsLast(topic, DOMAIN topic, K, e) <=> IsLast(outbox, S, K, e)
    <3>1. K \in SUBSET Events /\ OneRow(K)
      BY EventAssumption DEF EventsOf, OneRow
    <3>2. \A i \in S, j \in DOMAIN outbox :
            outbox[i] \in K /\ outbox[j] \in K /\ j < i => j \in published
      BY <2>1, <3>1 DEF RelayedBy, Before, OneRow
    <3> QED
      BY <2>1, <3>1, <3>2 DEF RelayedBy
  <2>5. \A e \in Events : IsLast(outbox, DOMAIN outbox, K, e) => rows[p] = e.content
    BY <1>1 DEF Inductive, RowsAnnounced
  <2>6. waiting \subseteq 1 .. Len(outbox) /\ sent \subseteq 1 .. Len(topic)
    BY <2>2 DEF Of, Pending
  <2>7. \A i \in 1 .. Len(outbox) : outbox[i] \in K => i \in waiting \/ i \in published
    BY <2>2, <2>3 DEF Of, Pending
  <2>8. CASE waiting # {}
    <3> DEFINE m == Max(waiting)
    <3>1. m \in waiting /\ \A j \in waiting : j <= m
      BY <2>2, <2>6, <2>8, MaxOf
    <3> HIDE DEF m
    <3>2. m \in 1 .. Len(outbox) /\ m \notin published /\ outbox[m] \in K
      BY <2>3, <2>6, <3>1 DEF Of, Pending
    <3>3. \A j \in 1 .. Len(outbox) : outbox[j] \in K => j <= m
      BY <2>2, <2>4, <2>7, <3>1, <3>2
    <3>4. IsLast(outbox, DOMAIN outbox, K, outbox[m])
      BY <3>2, <3>3 DEF IsLast
    <3> QED
      BY <2>3, <2>5, <2>8, <3>2, <3>4 DEF m
  <2>9. CASE waiting = {} /\ sent # {}
    <3> DEFINE m == Max(sent)
    <3>1. m \in sent /\ \A j \in sent : j <= m
      BY <2>2, <2>6, <2>9, MaxOf
    <3> HIDE DEF m
    <3>2. m \in 1 .. Len(topic) /\ topic[m] \in K
      BY <2>3, <2>6, <3>1 DEF Of
    <3>3. \A j \in 1 .. Len(topic) : topic[j] \in K => j <= m
      BY <2>2, <2>3, <3>1 DEF Of
    <3>4. IsLast(topic, DOMAIN topic, K, topic[m])
      BY <3>2, <3>3 DEF IsLast
    <3>5. IsLast(outbox, S, K, topic[m])
      BY <2>3, <2>4, <3>2, <3>4
    <3>6. PICK i \in S : outbox[i] = topic[m] /\ \A j \in S : outbox[j] \in K => j <= i
      BY <3>5 DEF IsLast
    <3>7. \A j \in 1 .. Len(outbox) : outbox[j] \in K => j <= i
      BY <2>4, <2>7, <2>9, <3>6
    <3>8. i \in 1 .. Len(outbox)
      BY <2>1, <2>2, <3>6
    <3>9. IsLast(outbox, DOMAIN outbox, K, topic[m])
      BY <3>2, <3>6, <3>7, <3>8 DEF IsLast
    <3>10. rows[p] = topic[m].content
      BY <2>3, <2>5, <3>2, <3>9
    <3> QED
      BY <2>9, <3>10 DEF m
  <2>10. CASE waiting = {} /\ sent = {}
    <3> DEFINE old == {i \in S : outbox[i] \in K}
    <3>1. old = {}
      <4> SUFFICES ASSUME old # {} PROVE FALSE
        OBVIOUS
      <4>1. old \subseteq 1 .. Len(outbox) /\ Len(outbox) \in Nat
        BY <2>2
      <4>2. PICK i \in old : \A j \in old : j <= i
        BY <4>1, MaxOf
      <4>3. IsLast(outbox, S, K, outbox[i])
        BY <4>2 DEF IsLast
      <4>4. outbox[i] \in Events
        BY <2>1, <2>2, <2>3, <4>2
      <4>5. IsLast(topic, DOMAIN topic, K, outbox[i])
        BY <2>4, <4>3, <4>4
      <4>6. PICK k \in 1 .. Len(topic) : topic[k] = outbox[i]
        BY <4>5 DEF IsLast
      <4>7. k \in sent
        BY <2>2, <2>3, <4>2, <4>6 DEF Of
      <4> QED
        BY <2>10, <4>7
    <3>2. \A i \in 1 .. Len(outbox) : outbox[i] \notin K
      BY <2>4, <2>7, <2>10, <3>1
    <3>3. ~Known(p)
      BY <2>2, <2>3, <3>2 DEF Known
    <3> QED
      BY <1>1, <2>10, <3>3 DEF Inductive, RowsAnnounced
  <2> QED
    BY <2>8, <2>9, <2>10
<1>2. Inductive => FeedEndsWithRow
  BY <1>1 DEF FeedEndsWithRow
<1> QED
  BY <1>2, ProductFeedInductive, PTL

\* The documents of a product are together those of the last event handled.
THEOREM DocumentsAreOfOneEvent == Spec => []AppliedWholly
<1>1. ASSUME Inductive, applying = Resting, NEW p \in Products,
             Of(topic, Since, p) # {}
      PROVE  DocumentsOf(p, topic[Max(Of(topic, Since, p))].content)
  <2> DEFINE m == Max(Of(topic, Since, p))
  <2>1. Since \subseteq 1 .. Len(topic) /\ Len(topic) \in Nat
    BY <1>1, OffsetKind, ProductFeedAssumption DEF Since
  <2>2. Of(topic, Since, p) \subseteq 1 .. Len(topic)
    BY <2>1 DEF Of
  <2>3. m \in Of(topic, Since, p) /\ \A j \in Of(topic, Since, p) : j <= m
    BY <1>1, <2>1, <2>2, MaxOf
  <2> HIDE DEF m
  <2>4. m \in Since /\ topic[m].product = p /\ LastHandled(m)
    BY <2>3 DEF Of, LastHandled
  <2>5. ~applying.prune
    BY <1>1 DEF Resting
  <2>6. DocumentsOf(p, topic[m].content)
    BY <1>1, <2>4, <2>5 DEF Inductive, AppliedSoFar
  <2> QED
    BY <2>6 DEF m
<1>2. Inductive => AppliedWholly
  BY <1>1 DEF AppliedWholly, Since
<1> QED
  BY <1>2, ProductFeedInductive, PTL

\* Every save announces an event of the log.
LEMMA WriteAnnounces ==
  ASSUME Inductive, NEW p \in Products, NEW content \in Content \cup {Gone}, Write(p, content)
  PROVE  Announces
<1>1. [product |-> p, content |-> content] \in Events
  BY EventAssumption DEF Event
<1> QED
  BY <1>1 DEF Write, Announces

\* Every step of the product feed is a step of the log, or none.
LEMMA ProductStepImplements == Inductive /\ [Next]_vars => LogStep
<1> SUFFICES ASSUME Inductive, [Next]_vars PROVE LogStep
  OBVIOUS
<1>1. ASSUME NEW p \in Products, NEW vs \in SUBSET VariantsOf(p),
             CreateProduct(p, vs) \/ SaveProduct(p, vs)
      PROVE  Announces
  <2>1. NextEdition(vs) \in Content
    BY <1>1, NextIsContent DEF CreateProduct, SaveProduct
  <2> QED
    BY <1>1, <2>1, WriteAnnounces DEF CreateProduct, SaveProduct
<1>2. ASSUME NEW p \in Products, DeleteProduct(p)
      PROVE  Announces
  BY <1>2, WriteAnnounces DEF DeleteProduct
<1>3. ASSUME NEW p \in Products, CommitReservation(p)
      PROVE  Announces
  <2>1. rows[p].variants \in SUBSET VariantsOf(p)
    BY DEF Inductive, Fits
  <2>2. NextEdition(rows[p].variants) \in Content
    BY <1>3, <2>1, NextIsContent DEF CommitReservation
  <2> QED
    BY <1>3, <2>2, WriteAnnounces DEF CommitReservation
<1>4. ASSUME Projecting \/ \E c \in Consumers : Restart(c)
      PROVE  UNCHANGED relayVars
  BY <1>4 DEF Projecting, HandleProduct, TakeEvent, ReplaceOne, DeleteMany, Restart, feedVars
<1>5. ASSUME UNCHANGED vars
      PROVE  UNCHANGED relayVars
  BY <1>5 DEF vars, feedVars
<1>6. Relay \/ Stop \/ UNCHANGED relayVars \/ Announces
  BY <1>1, <1>2, <1>3, <1>4, <1>5 DEF Next
<1>7. RelayInductive
  BY DEF Inductive
<1> QED
  BY <1>6, <1>7, RelayImplements

\* Whatever its polls, errors and restarts, the relay of products-service sends the
\* events of each product one by one in the order of its saves, each until it is marked.
THEOREM ProductFeedImplementsLog == Spec => ImplementsLog
<1>1. Init => Log!Init
  BY LogStarts DEF Init
<1>2. LogStep => [Log!Next]_(Log!vars)
  BY DEF LogStep
<1>3. Spec => Log!Spec
  BY <1>1, <1>2, ProductStepImplements, ProductFeedInductive, PTL DEF Spec, Log!Spec
<1> QED
  BY <1>3 DEF ImplementsLog
================================================================================
