------------------------------ MODULE RelayProofs ------------------------------
(***************************************************************************)
(* Lemmas about OutboxRelay.tla, for the two feeds that are built on it:   *)
(* whatever is published twice, the relay never sends an old event after a *)
(* newer one for good.                                                     *)
(*                                                                         *)
(* The flag of pollOnce is what the argument rests on: there is one poll,  *)
(* and of every row it has the oldest events that are not published.  So   *)
(* the published events of a row are always its first ones, and of every   *)
(* row the topic ends with the last published event or with the next one,  *)
(* sent and not marked (Relayed).                                          *)
(***************************************************************************)
EXTENDS OutboxRelay, FiniteSetTheorems, WellFoundedInduction, TLAPS

--------------------------------------------------------------------------------
(* The inductive invariant of the relay *)

\* Polls are kept apart by the flag.
OnePoll ==
  /\ \A s \in Polls : poll[s] # NoPoll => polling
  /\ \A s, t \in Polls : poll[s] # NoPoll /\ poll[t] # NoPoll => s = t

\* What a poll has in hand is next in its row, and what it has sent is first of that.
InHand ==
  \A s \in Polls :
    /\ \A i \in poll[s].rows :
         /\ i \notin published
         /\ \A j \in DOMAIN outbox : Before(j, i) => j \in published \cup poll[s].rows
    /\ poll[s].sent \subseteq Oldest(poll[s].rows)
    /\ \A i, j \in poll[s].sent : i = j

\* Nothing is sent that was not announced.
Announced == \A k \in DOMAIN topic : \E i \in DOMAIN outbox : topic[k] = outbox[i]

\* Of the members of s at the positions S, the last one in K is e.
IsLast(s, S, K, e) ==
  /\ e \in K
  /\ \E i \in S : s[i] = e /\ \A j \in S : s[j] \in K => j <= i

\* Events of one row.
OneRow(K) == \A e, f \in K : RowOf[e] = RowOf[f]

\* Of every row S has the events that are published and at most the next one, which
\* has been sent, and of every kind of its events the last one sent is the last in S.
RelayedBy(S) ==
  /\ published \subseteq S
  /\ \A i \in S, j \in DOMAIN outbox : Before(j, i) => j \in published
  /\ \A s \in Polls : poll[s].sent \subseteq S
  /\ \A K \in SUBSET Events, e \in Events :
       OneRow(K) => (IsLast(topic, DOMAIN topic, K, e) <=> IsLast(outbox, S, K, e))

Relayed == \E S \in SUBSET DOMAIN outbox : RelayedBy(S)

RelayInductive == RelayTypeOK /\ OnePoll /\ InHand /\ Announced /\ Relayed

--------------------------------------------------------------------------------
(* Numbers *)

\* A set of natural numbers has a least one.
LEMMA LeastOne ==
  ASSUME NEW S \in SUBSET Nat, S # {}
  PROVE  \E i \in S : \A j \in S : i <= j
<1> DEFINE Less == OpToRel(<, Nat)
<1>1. IsWellFoundedOn(Less, Nat)
  BY NatLessThanWellFounded
<1>2. \A i, j \in Nat : <<i, j>> \in Less <=> i < j
  BY DEF OpToRel
<1> HIDE DEF Less
<1>3. PICK i \in S : \A j \in S : <<j, i>> \notin Less
  BY <1>1, WFMin
<1>4. ASSUME NEW j \in S
      PROVE  i <= j
  <2>1. ~(j < i) /\ i \in Nat /\ j \in Nat
    BY <1>2, <1>3
  <2> QED
    BY <2>1
<1> QED
  BY <1>4

\* Positions have a last one, and Max is it.
LEMMA MaxOf ==
  ASSUME NEW n \in Nat, NEW S \in SUBSET (1 .. n), S # {}
  PROVE  Max(S) \in S /\ \A j \in S : j <= Max(S)
<1> DEFINE T == {n - i : i \in S}
<1>1. T \in SUBSET Nat /\ T # {}
  OBVIOUS
<1> HIDE DEF T
<1>2. PICK t \in T : \A u \in T : t <= u
  BY <1>1, LeastOne
<1>3. PICK i \in S : t = n - i
  BY <1>2 DEF T
<1>4. ASSUME NEW j \in S
      PROVE  j <= i
  <2>1. n - j \in T
    BY DEF T
  <2>2. n - i <= n - j
    BY <1>2, <1>3, <2>1
  <2> QED
    BY <2>2
<1>5. \E k \in S : \A j \in S : k >= j
  <2>1. \A j \in S : i >= j
    BY <1>4
  <2> QED
    BY <2>1
<1>6. Max(S) \in S /\ \A j \in S : Max(S) >= j
  BY <1>5 DEF Max
<1> QED
  BY <1>6

--------------------------------------------------------------------------------
(* Last events *)

\* The last of one more that is not before the others is that one, when it is of the
\* kind.
LEMMA LastOfMore ==
  ASSUME NEW s \in Seq(Events), NEW S \in SUBSET DOMAIN s, NEW i \in DOMAIN s, NEW K, NEW e,
         \A j \in S : s[i] \in K /\ s[j] \in K => j <= i
  PROVE  IsLast(s, S \cup {i}, K, e) <=> IF s[i] \in K THEN e = s[i] ELSE IsLast(s, S, K, e)
<1>1. \A j \in DOMAIN s : j \in Nat
  OBVIOUS
<1>2. CASE s[i] \in K
  <2>1. ASSUME IsLast(s, S \cup {i}, K, e)
        PROVE  e = s[i]
    <3>1. PICK k \in S \cup {i} : s[k] = e /\ \A j \in S \cup {i} : s[j] \in K => j <= k
      BY <2>1 DEF IsLast
    <3>2. i <= k /\ k <= i
      BY <1>1, <1>2, <2>1, <3>1 DEF IsLast
    <3>3. i = k
      BY <1>1, <3>1, <3>2
    <3> QED
      BY <3>1, <3>3
  <2>2. IsLast(s, S \cup {i}, K, s[i])
    BY <1>1, <1>2 DEF IsLast
  <2> QED
    BY <1>2, <2>1, <2>2
<1>3. CASE s[i] \notin K
  <2>1. \A k \in S \cup {i} : s[k] = e /\ e \in K => k \in S
    BY <1>3
  <2> QED
    BY <1>3, <2>1 DEF IsLast
<1> QED
  BY <1>2, <1>3

\* What is appended changes nothing among those before.
LEMMA LastOfPrefix ==
  ASSUME NEW s \in Seq(Events), NEW x \in Events, NEW S \in SUBSET DOMAIN s, NEW K, NEW e
  PROVE  IsLast(Append(s, x), S, K, e) <=> IsLast(s, S, K, e)
<1>1. \A i \in S : Append(s, x)[i] = s[i]
  OBVIOUS
<1> QED
  BY <1>1 DEF IsLast

\* The last of what one more was appended to.
LEMMA LastOfAppended ==
  ASSUME NEW s \in Seq(Events), NEW x \in Events, NEW K, NEW e
  PROVE  IsLast(Append(s, x), DOMAIN Append(s, x), K, e)
           <=> IF x \in K THEN e = x ELSE IsLast(s, DOMAIN s, K, e)
<1> DEFINE t == Append(s, x)
           n == Len(s) + 1
<1>1. /\ t \in Seq(Events) /\ t[n] = x /\ n \in DOMAIN t /\ DOMAIN s \in SUBSET DOMAIN t
      /\ DOMAIN t = DOMAIN s \cup {n} /\ \A j \in DOMAIN s : j <= n
  OBVIOUS
<1>2. IsLast(t, DOMAIN s, K, e) <=> IsLast(s, DOMAIN s, K, e)
  BY LastOfPrefix
<1> HIDE DEF t, n
<1>3. IsLast(t, DOMAIN s \cup {n}, K, e) <=> IF t[n] \in K THEN e = t[n] ELSE IsLast(t, DOMAIN s, K, e)
  BY <1>1, LastOfMore
<1>4. IsLast(t, DOMAIN t, K, e) <=> IF x \in K THEN e = x ELSE IsLast(s, DOMAIN s, K, e)
  BY <1>1, <1>2, <1>3
<1> QED
  BY <1>4 DEF t

--------------------------------------------------------------------------------
(* Polls *)

Poll == [rows : SUBSET DOMAIN outbox, sent : SUBSET DOMAIN outbox]

\* A run of pollOnce that has rows in hand is going on, and what it has sent is one.
LEMMA PollKind ==
  ASSUME RelayInductive, NEW s \in Polls
  PROVE  /\ poll \in [Polls -> Poll] /\ poll[s] \in Poll
         /\ poll[s].rows \subseteq DOMAIN outbox
         /\ poll[s].sent \subseteq poll[s].rows
         /\ poll[s].rows # {} => poll[s] # NoPoll
BY DEF RelayInductive, RelayTypeOK, Poll, InHand, Oldest, NoPoll

\* A poll takes the oldest of the pending events of every row, and not none.
LEMMA BatchOf ==
  ASSUME RelayTypeOK, Pending # {}, NEW S \in Batches
  PROVE  /\ S # {} /\ S \subseteq Pending /\ Pending \subseteq DOMAIN outbox
         /\ \A i \in S, j \in Pending : Before(j, i) => j \in S
<1>1. S # {}
  <2>1. Cardinality({}) = 0
    BY FS_EmptySet
  <2> QED
    BY <2>1, RelayAssumption DEF Batches
<1> QED
  BY <1>1 DEF Batches, Pending

\* The order of the events of a row does not change.
LEMMA BeforeStays ==
  ASSUME RelayTypeOK, outbox' = outbox \/ \E e \in Events : outbox' = Append(outbox, e),
         NEW i \in DOMAIN outbox, NEW j \in DOMAIN outbox
  PROVE  Before(j, i)' <=> Before(j, i)
<1>1. outbox \in Seq(Events)
  BY DEF RelayTypeOK
<1>2. CASE outbox' = outbox
  BY <1>2 DEF Before
<1>3. ASSUME NEW e \in Events, outbox' = Append(outbox, e)
      PROVE  Before(j, i)' <=> Before(j, i)
  <2>1. outbox'[i] = outbox[i] /\ outbox'[j] = outbox[j]
    BY <1>1, <1>3
  <2> QED
    BY <2>1 DEF Before
<1> QED
  BY <1>2, <1>3

--------------------------------------------------------------------------------
(* Each step of the relay keeps the invariant *)

\* In the beginning there is nothing.
LEMMA RelayStarts ==
  ASSUME FeedInit
  PROVE  RelayInductive
<1> USE RelayAssumption DEF FeedInit, RelayInit
<1>1. RelayTypeOK
  <2>1. outbox \in Seq(Events) /\ topic \in Seq(Events) /\ published \subseteq DOMAIN outbox
    OBVIOUS
  <2>2. poll \in [Polls -> [rows : SUBSET DOMAIN outbox, sent : SUBSET DOMAIN outbox]]
    BY DEF NoPoll
  <2>4. /\ offset \in [Consumers -> [done : 0..Len(topic), from : 0..Len(topic)]]
        /\ \A c \in Consumers : offset[c].from <= offset[c].done
    BY DEF Fresh
  <2>5. failures \in 0 .. MaxFailures
    OBVIOUS
  <2>6. polling \in BOOLEAN
    OBVIOUS
  <2> QED
    BY <2>1, <2>2, <2>4, <2>5, <2>6 DEF RelayTypeOK
<1>2. OnePoll /\ Announced
  BY DEF OnePoll, Announced
<1>3. InHand
  BY DEF InHand, NoPoll
<1>4. RelayedBy({})
  <2>1. published = {} /\ DOMAIN topic = {} /\ \A s \in Polls : poll[s].sent = {}
    BY DEF NoPoll
  <2>2. \A K \in SUBSET Events, e \in Events :
          IsLast(topic, DOMAIN topic, K, e) <=> IsLast(outbox, {}, K, e)
    BY <2>1 DEF IsLast
  <2> QED
    BY <2>1, <2>2 DEF RelayedBy
<1>5. Relayed
  BY <1>4 DEF Relayed
<1> QED
  BY <1>1, <1>2, <1>3, <1>5 DEF RelayInductive

\* A transaction announces one more event.
LEMMA AnnounceKeeps ==
  ASSUME RelayInductive, NEW event \in Events, Announce(event),
         UNCHANGED <<published, polling, poll, topic, offset, failures>>
  PROVE  RelayInductive'
<1>1. /\ outbox \in Seq(Events) /\ outbox' \in Seq(Events) /\ Len(outbox) \in Nat
      /\ Len(outbox') = Len(outbox) + 1 /\ DOMAIN outbox \subseteq DOMAIN outbox'
      /\ \A i \in DOMAIN outbox : outbox'[i] = outbox[i]
  BY DEF RelayInductive, RelayTypeOK, Announce
<1>2. RelayTypeOK'
  <2>1. poll' \in [Polls -> [rows : SUBSET DOMAIN outbox', sent : SUBSET DOMAIN outbox']]
    BY <1>1 DEF RelayInductive, RelayTypeOK
  <2> QED
    BY <1>1, <2>1 DEF RelayInductive, RelayTypeOK
<1>3. OnePoll'
  BY DEF RelayInductive, OnePoll
<1>4. \A i \in DOMAIN outbox, j \in DOMAIN outbox' :
        Before(j, i)' <=> j \in DOMAIN outbox /\ Before(j, i)
  <2>1. ASSUME NEW i \in DOMAIN outbox, NEW j \in DOMAIN outbox'
        PROVE  Before(j, i)' <=> j \in DOMAIN outbox /\ Before(j, i)
    <3>1. CASE j \in DOMAIN outbox
      BY <1>1, <3>1, BeforeStays DEF Announce, RelayInductive
    <3>2. CASE j \notin DOMAIN outbox
      BY <1>1, <3>2 DEF Before
    <3> QED
      BY <3>1, <3>2
  <2> QED
    BY <2>1
<1>5. InHand'
  <2>1. \A S \in SUBSET DOMAIN outbox : Oldest(S)' = Oldest(S)
    BY <1>1, <1>4 DEF Oldest
  <2>2. \A s \in Polls : poll[s].rows \subseteq DOMAIN outbox
    BY DEF RelayInductive, RelayTypeOK
  <2> QED
    BY <1>4, <2>1, <2>2 DEF RelayInductive, InHand
<1>6. Announced'
  BY <1>1 DEF RelayInductive, Announced
<1>7. Relayed'
  <2>1. PICK S \in SUBSET DOMAIN outbox : RelayedBy(S)
    BY DEF RelayInductive, Relayed
  <2>2. \A K \in SUBSET Events, e \in Events : IsLast(outbox', S, K, e) <=> IsLast(outbox, S, K, e)
    BY <1>1, LastOfPrefix DEF Announce
  <2>3. RelayedBy(S)'
    BY <1>4, <2>1, <2>2 DEF RelayedBy
  <2>4. S \in SUBSET DOMAIN outbox'
    BY <1>1
  <2> QED
    BY <2>3, <2>4 DEF Relayed
<1> QED
  BY <1>2, <1>3, <1>5, <1>6, <1>7 DEF RelayInductive

\* Consumers read on, or go back.
LEMMA ConsumersKeep ==
  ASSUME RelayInductive, UNCHANGED relayVars, failures' \in 0 .. MaxFailures,
         offset' \in [Consumers -> [done : 0..Len(topic), from : 0..Len(topic)]],
         \A c \in Consumers : offset'[c].from <= offset'[c].done
  PROVE  RelayInductive'
<1> USE DEF relayVars, RelayInductive
<1>1. RelayTypeOK'
  BY DEF RelayTypeOK
<1>2. OnePoll' /\ InHand' /\ Announced'
  BY DEF OnePoll, InHand, Announced, Before, Oldest
<1>3. Relayed'
  <2>1. /\ outbox' = outbox /\ published' = published /\ poll' = poll /\ topic' = topic
    OBVIOUS
  <2> QED
    BY <2>1 DEF Relayed, RelayedBy, Before
<1> QED
  BY <1>1, <1>2, <1>3

LEMMA HandledKeeps ==
  ASSUME RelayInductive, NEW c \in Consumers, Unread(c), Handled(c),
         UNCHANGED <<relayVars, failures>>
  PROVE  RelayInductive'
<1>1. /\ offset \in [Consumers -> [done : 0..Len(topic), from : 0..Len(topic)]]
      /\ \A d \in Consumers : offset[d].from <= offset[d].done
      /\ failures \in 0 .. MaxFailures /\ Len(topic) \in Nat
  BY DEF RelayInductive, RelayTypeOK
<1>2. offset[c].done \in Nat /\ offset[c].done + 1 \in 0 .. Len(topic)
  BY <1>1 DEF Unread
<1> DEFINE o == [offset[c] EXCEPT !.done = @ + 1]
<1>3. o \in [done : 0..Len(topic), from : 0..Len(topic)] /\ o.from <= o.done
  BY <1>1, <1>2
<1>4. offset' = [offset EXCEPT ![c] = o]
  BY DEF Handled
<1> HIDE DEF o
<1>5. offset' \in [Consumers -> [done : 0..Len(topic), from : 0..Len(topic)]]
  BY <1>1, <1>3, <1>4
<1>6. \A d \in Consumers : offset'[d].from <= offset'[d].done
  BY <1>1, <1>3, <1>4
<1> QED
  BY <1>1, <1>5, <1>6, ConsumersKeep

LEMMA RewindKeeps ==
  ASSUME RelayInductive, NEW c \in Consumers, Rewind(c), UNCHANGED relayVars
  PROVE  RelayInductive'
<1>1. /\ offset \in [Consumers -> [done : 0..Len(topic), from : 0..Len(topic)]]
      /\ \A d \in Consumers : offset[d].from <= offset[d].done
      /\ failures \in 0 .. MaxFailures /\ Len(topic) \in Nat
  BY DEF RelayInductive, RelayTypeOK
<1>2. PICK k \in offset[c].from .. offset[c].done : offset' = [offset EXCEPT ![c] = Fresh(k)]
  BY DEF Rewind
<1>3. k \in 0 .. Len(topic)
  BY <1>1, <1>2
<1>4. Fresh(k) \in [done : 0..Len(topic), from : 0..Len(topic)] /\ Fresh(k).from <= Fresh(k).done
  BY <1>1, <1>3 DEF Fresh
<1>5. offset' \in [Consumers -> [done : 0..Len(topic), from : 0..Len(topic)]]
  BY <1>1, <1>2, <1>4
<1>6. \A d \in Consumers : offset'[d].from <= offset'[d].done
  BY <1>1, <1>2, <1>4
<1>7. failures' \in 0 .. MaxFailures
  BY <1>1, RelayAssumption DEF Rewind, Fail
<1> QED
  BY <1>5, <1>6, <1>7, ConsumersKeep

\* Nothing is announced, and neither is what was sent.
LEMMA OutboxStays ==
  ASSUME outbox' = outbox
  PROVE  /\ \A i, j : Before(i, j)' <=> Before(i, j)
         /\ \A S : Oldest(S)' = Oldest(S)
BY DEF Before, Oldest

\* A poll begins, when there is none.
LEMMA PollOnceKeeps ==
  ASSUME RelayInductive, NEW s \in Polls, PollOnce(s)
  PROVE  RelayInductive'
<1>1. /\ ~polling /\ poll[s] = NoPoll /\ Pending # {} /\ polling' = TRUE
      /\ UNCHANGED <<outbox, published, topic, offset, failures>>
  BY DEF PollOnce, MayPoll
<1>2. PICK S \in Batches : poll' = [poll EXCEPT ![s].rows = S]
  BY DEF PollOnce
<1>3. RelayTypeOK /\ poll \in [Polls -> Poll]
  BY PollKind DEF RelayInductive
<1>4. /\ S # {} /\ S \subseteq Pending /\ S \subseteq DOMAIN outbox
      /\ \A i \in S, k \in Pending : Before(k, i) => k \in S
  BY <1>1, <1>3, BatchOf
<1>5. \A t \in Polls : poll[t] = NoPoll
  BY <1>1 DEF RelayInductive, OnePoll
<1>6. /\ poll'[s].rows = S /\ \A t \in Polls : t # s => poll'[t] = NoPoll
      /\ \A t \in Polls : poll'[t].sent = {}
  <2>1. \A t \in Polls : t # s => poll'[t] = NoPoll
    BY <1>2, <1>3, <1>5
  <2>2. poll'[s].rows = S /\ poll'[s].sent = poll[s].sent
    BY <1>2, <1>3 DEF Poll
  <2> QED
    BY <1>5, <2>1, <2>2 DEF NoPoll
<1>7. \A t \in Polls : t # s => poll'[t].rows = {}
  BY <1>6 DEF NoPoll
<1>8. RelayTypeOK'
  <2>1. poll' \in [Polls -> Poll']
    BY <1>1, <1>2, <1>3, <1>4 DEF Poll
  <2>2. polling' \in BOOLEAN
    BY <1>1
  <2> QED
    BY <1>1, <2>1, <2>2 DEF RelayInductive, RelayTypeOK, Poll
<1>9. OnePoll'
  BY <1>1, <1>6 DEF OnePoll
<1>10. InHand'
  <2>1. ASSUME NEW i \in S
        PROVE  /\ i \notin published
               /\ \A j \in DOMAIN outbox : Before(j, i) => j \in published \cup S
    BY <1>4 DEF Pending
  <2> QED
    BY <1>1, <1>6, <1>7, <2>1, OutboxStays DEF InHand
<1>11. Announced'
  BY <1>1 DEF RelayInductive, Announced
<1>12. Relayed'
  <2>1. PICK T \in SUBSET DOMAIN outbox : RelayedBy(T)
    BY DEF RelayInductive, Relayed
  <2>2. RelayedBy(T)'
    BY <1>1, <1>6, <2>1, OutboxStays DEF RelayedBy
  <2> QED
    BY <1>1, <2>2 DEF Relayed
<1> QED
  BY <1>8, <1>9, <1>10, <1>11, <1>12 DEF RelayInductive

\* What a poll publishes is the next event of its row.
LEMMA PublishKind ==
  ASSUME RelayInductive, NEW s \in Polls, Publish(s)
  PROVE  \E i \in DOMAIN outbox :
           /\ i \in poll[s].rows /\ i \notin published
           /\ \A j \in DOMAIN outbox : Before(j, i) => j \in published
           /\ i \in Oldest(poll[s].rows)
           /\ topic' = Append(topic, outbox[i])
           /\ poll' = [poll EXCEPT ![s].sent = {i}]
           /\ \A t \in Polls : poll[t].sent = {}
<1>1. /\ poll \in [Polls -> Poll] /\ poll[s] \in Poll /\ poll[s].rows \subseteq DOMAIN outbox
  BY PollKind
<1>2. PICK i \in Oldest(poll[s].rows) : topic' = Append(topic, outbox[i])
                                       /\ poll' = [poll EXCEPT ![s].sent = {i}]
  BY DEF Publish
<1>3. i \in poll[s].rows /\ \A j \in poll[s].rows : ~Before(j, i)
  BY <1>2 DEF Oldest
<1>4. i \notin published /\ \A j \in DOMAIN outbox : Before(j, i) => j \in published
  BY <1>1, <1>3 DEF RelayInductive, InHand
<1>5. \A t \in Polls : poll[t].sent = {}
  BY <1>3 DEF RelayInductive, OnePoll, NoPoll, Publish
<1> QED
  BY <1>1, <1>2, <1>3, <1>4, <1>5

\* The event is in the topic, perhaps for the second time.
LEMMA PublishKeeps ==
  ASSUME RelayInductive, NEW s \in Polls, Publish(s)
  PROVE  RelayInductive'
<1>1. UNCHANGED <<outbox, published, polling, offset, failures>>
  BY DEF Publish
<1>2. PICK i \in DOMAIN outbox :
           /\ i \in poll[s].rows /\ i \notin published
           /\ \A j \in DOMAIN outbox : Before(j, i) => j \in published
           /\ i \in Oldest(poll[s].rows)
           /\ topic' = Append(topic, outbox[i])
           /\ poll' = [poll EXCEPT ![s].sent = {i}]
           /\ \A t \in Polls : poll[t].sent = {}
  BY PublishKind
<1>3. RelayTypeOK /\ poll \in [Polls -> Poll] /\ poll[s].rows \in SUBSET DOMAIN outbox
  BY PollKind DEF RelayInductive
<1>4. poll[s] # NoPoll
  BY <1>2 DEF NoPoll
<1>5. \A t \in Polls : t # s => poll'[t] = poll[t]
  BY <1>2, <1>3
<1>6. /\ \A t \in Polls : poll'[t].rows = poll[t].rows
      /\ poll'[s].sent = {i} /\ \A t \in Polls : t # s => poll'[t].sent = {}
  BY <1>2, <1>3, <1>5 DEF Poll
<1> DEFINE e == outbox[i]
<1>7. e \in Events /\ outbox \in Seq(Events) /\ topic \in Seq(Events)
  BY <1>3 DEF RelayTypeOK
<1> HIDE DEF e
<1>8. topic' = Append(topic, e)
  BY <1>2 DEF e
<1>9. RelayTypeOK'
  <2>1. poll' \in [Polls -> Poll']
    BY <1>1, <1>2, <1>3 DEF Poll
  <2>2. topic' \in Seq(Events) /\ Len(topic') = Len(topic) + 1 /\ Len(topic) \in Nat
    BY <1>7, <1>8
  <2>3. offset' \in [Consumers -> [done : 0..Len(topic'), from : 0..Len(topic')]]
    BY <1>1, <1>3, <2>2 DEF RelayTypeOK
  <2> QED
    BY <1>1, <1>3, <2>1, <2>2, <2>3 DEF RelayTypeOK, Poll
<1>10. OnePoll'
  BY <1>1, <1>4, <1>5 DEF RelayInductive, OnePoll
<1>11. InHand'
  BY <1>1, <1>2, <1>6, OutboxStays DEF RelayInductive, InHand
<1>12. Announced'
  <2>1. \A k \in DOMAIN topic' : (k \in DOMAIN topic /\ topic'[k] = topic[k]) \/ topic'[k] = outbox[i]
    BY <1>2, <1>7
  <2> QED
    BY <1>1, <2>1 DEF RelayInductive, Announced
<1>13. Relayed'
  <2>1. PICK S \in SUBSET DOMAIN outbox : RelayedBy(S)
    BY DEF RelayInductive, Relayed
  <2>2. ASSUME NEW K \in SUBSET Events, NEW x \in Events, OneRow(K)
        PROVE  IsLast(topic', DOMAIN topic', K, x) <=> IsLast(outbox, S \cup {i}, K, x)
    <3>1. IsLast(topic', DOMAIN topic', K, x)
            <=> IF e \in K THEN x = e ELSE IsLast(topic, DOMAIN topic, K, x)
      BY <1>7, <1>8, LastOfAppended
    <3>2. ASSUME NEW j \in S, outbox[i] \in K, outbox[j] \in K
          PROVE  j <= i
      <4>1. RowOf[outbox[i]] = RowOf[outbox[j]]
        BY <2>2, <3>2 DEF OneRow
      <4>2. ~Before(i, j)
        BY <1>2, <2>1 DEF RelayedBy
      <4>3. i \in Nat /\ j \in Nat
        BY <1>7
      <4> QED
        BY <4>1, <4>2, <4>3 DEF Before
    <3>3. IsLast(outbox, S \cup {i}, K, x) <=> IF e \in K THEN x = e ELSE IsLast(outbox, S, K, x)
      BY <1>7, <3>2, LastOfMore DEF e
    <3>4. IsLast(topic, DOMAIN topic, K, x) <=> IsLast(outbox, S, K, x)
      BY <2>1, <2>2 DEF RelayedBy
    <3> QED
      BY <3>1, <3>3, <3>4
  <2>3. published \subseteq S \cup {i} /\ \A t \in Polls : poll'[t].sent \subseteq S \cup {i}
    BY <1>6, <2>1 DEF RelayedBy
  <2>4. \A k \in S \cup {i}, j \in DOMAIN outbox : Before(j, k) => j \in published
    BY <1>2, <2>1 DEF RelayedBy
  <2>5. RelayedBy(S \cup {i})'
    BY <1>1, <2>2, <2>3, <2>4, OutboxStays DEF RelayedBy
  <2>6. S \cup {i} \in SUBSET DOMAIN outbox'
    BY <1>1
  <2> QED
    BY <2>5, <2>6 DEF Relayed
<1> QED
  BY <1>9, <1>10, <1>11, <1>12, <1>13 DEF RelayInductive

\* The event is marked, and the next one is in turn.
LEMMA MarkKeeps ==
  ASSUME RelayInductive, NEW s \in Polls, Mark(s)
  PROVE  RelayInductive'
<1> DEFINE sent == poll[s].sent
           rest == poll[s].rows \ sent
<1>1. /\ sent # {} /\ published' = published \cup sent
      /\ poll' = [poll EXCEPT ![s] = [rows |-> rest, sent |-> {}]] /\ polling' = (rest # {})
      /\ UNCHANGED <<outbox, topic, offset, failures>>
  BY DEF Mark
<1>2. /\ RelayTypeOK /\ poll \in [Polls -> Poll] /\ poll[s] # NoPoll
      /\ poll[s].rows \subseteq DOMAIN outbox /\ sent \subseteq poll[s].rows
  BY <1>1, PollKind DEF RelayInductive, NoPoll
<1>3. \A t \in Polls : t # s => poll[t] = NoPoll
  BY <1>2 DEF RelayInductive, OnePoll
<1>4. poll'[s] = [rows |-> rest, sent |-> {}] /\ \A t \in Polls : t # s => poll'[t] = NoPoll
  BY <1>1, <1>2, <1>3
<1>5. /\ poll'[s].rows = rest /\ \A t \in Polls : t # s => poll'[t].rows = {}
      /\ \A t \in Polls : poll'[t].sent = {}
  BY <1>4 DEF NoPoll
<1>6. RelayTypeOK'
  <2>1. poll' \in [Polls -> Poll']
    BY <1>1, <1>2 DEF Poll
  <2>2. polling' \in BOOLEAN
    BY <1>1
  <2>3. published' \subseteq DOMAIN outbox
    BY <1>1, <1>2 DEF RelayTypeOK
  <2> QED
    BY <1>1, <1>2, <2>1, <2>2, <2>3 DEF RelayTypeOK, Poll
<1>7. OnePoll'
  <2>1. \A t \in Polls : poll'[t] # NoPoll => t = s /\ rest # {}
    BY <1>4 DEF NoPoll
  <2> QED
    BY <1>1, <2>1 DEF OnePoll
<1>8. InHand'
  <2>1. ASSUME NEW i \in rest
        PROVE  /\ i \notin published'
               /\ \A j \in DOMAIN outbox : Before(j, i) => j \in published' \cup rest
    <3>1. i \in poll[s].rows /\ i \notin sent
      OBVIOUS
    <3>2. i \notin published /\ \A j \in DOMAIN outbox : Before(j, i) => j \in published \cup poll[s].rows
      BY <3>1 DEF RelayInductive, InHand
    <3> QED
      BY <1>1, <3>1, <3>2
  <2> HIDE DEF rest
  <2> QED
    BY <1>1, <1>5, <2>1, OutboxStays DEF InHand
<1>9. Announced'
  BY <1>1 DEF RelayInductive, Announced
<1>10. Relayed'
  <2>1. PICK S \in SUBSET DOMAIN outbox : RelayedBy(S)
    BY DEF RelayInductive, Relayed
  <2>2. published' \subseteq S
    BY <1>1, <2>1 DEF RelayedBy
  <2>3. RelayedBy(S)'
    BY <1>1, <1>5, <2>1, <2>2, OutboxStays DEF RelayedBy
  <2> QED
    BY <1>1, <2>3 DEF Relayed
<1> QED
  BY <1>6, <1>7, <1>8, <1>9, <1>10 DEF RelayInductive

\* The process stops: what was sent and not marked will be sent again.
LEMMA StopKeeps ==
  ASSUME RelayInductive, Stop
  PROVE  RelayInductive'
<1>1. /\ poll' = [s \in Polls |-> NoPoll] /\ polling' = FALSE
      /\ UNCHANGED <<outbox, published, topic, offset>>
  BY DEF Stop
<1>2. failures' \in 0 .. MaxFailures
  BY RelayAssumption DEF RelayInductive, RelayTypeOK, Stop, Fail
<1>3. \A s \in Polls : poll'[s] = NoPoll /\ poll'[s].rows = {} /\ poll'[s].sent = {}
  BY <1>1 DEF NoPoll
<1>4. RelayTypeOK'
  <2>1. poll' \in [Polls -> Poll']
    BY <1>1 DEF Poll, NoPoll
  <2>2. polling' \in BOOLEAN
    BY <1>1
  <2> QED
    BY <1>1, <1>2, <2>1, <2>2 DEF RelayInductive, RelayTypeOK, Poll
<1>5. OnePoll'
  BY <1>3 DEF OnePoll
<1>6. InHand'
  BY <1>3 DEF InHand
<1>7. Announced'
  BY <1>1 DEF RelayInductive, Announced
<1>8. Relayed'
  <2>1. PICK S \in SUBSET DOMAIN outbox : RelayedBy(S)
    BY DEF RelayInductive, Relayed
  <2>2. RelayedBy(S)'
    BY <1>1, <1>3, <2>1, OutboxStays DEF RelayedBy
  <2> QED
    BY <1>1, <2>2 DEF Relayed
<1> QED
  BY <1>4, <1>5, <1>6, <1>7, <1>8 DEF RelayInductive

\* Whatever the relay does.
LEMMA RelayKeeps ==
  ASSUME RelayInductive, Relay \/ Stop
  PROVE  RelayInductive'
BY PollOnceKeeps, PublishKeeps, MarkKeeps, StopKeeps DEF Relay

\* The relay only adds to the topic, and touches neither the outbox's events nor a
\* consumer.
LEMMA RelayAppends ==
  ASSUME RelayInductive, Relay \/ Stop
  PROVE  /\ UNCHANGED <<outbox, offset>>
         /\ topic' = topic \/ \E e \in Events : topic' = Append(topic, e)
<1>1. ASSUME NEW s \in Polls, Publish(s)
      PROVE  \E e \in Events : topic' = Append(topic, e)
  <2>1. PICK i \in DOMAIN outbox : topic' = Append(topic, outbox[i])
    BY <1>1, PublishKind
  <2> QED
    BY <2>1 DEF RelayInductive, RelayTypeOK
<1>2. UNCHANGED <<outbox, offset>>
  BY DEF Relay, PollOnce, Publish, Mark, Stop
<1> QED
  BY <1>1, <1>2 DEF Relay, PollOnce, Publish, Mark, Stop

--------------------------------------------------------------------------------
(* The relay implements the log *)

Sent == UNION {poll[s].sent : s \in Polls}

\* Taking a batch is nothing to the log.
LEMMA PollImplements ==
  ASSUME RelayInductive, NEW s \in Polls, PollOnce(s)
  PROVE  UNCHANGED Log!vars
<1>1. poll \in [Polls -> Poll] /\ UNCHANGED <<outbox, published, topic>>
  BY PollKind DEF PollOnce
<1>2. \A t \in Polls : poll'[t].sent = poll[t].sent
  BY <1>1 DEF PollOnce, Poll
<1> QED
  BY <1>1, <1>2 DEF Log!vars

\* What is published is the next event of its row.
LEMMA PublishImplements ==
  ASSUME RelayInductive, NEW s \in Polls, Publish(s)
  PROVE  \E i \in DOMAIN outbox : Log!Send(i)
<1>1. UNCHANGED <<outbox, published>>
  BY DEF Publish
<1>2. PICK i \in DOMAIN outbox :
           /\ i \in poll[s].rows /\ i \notin published
           /\ \A j \in DOMAIN outbox : Before(j, i) => j \in published
           /\ i \in Oldest(poll[s].rows)
           /\ topic' = Append(topic, outbox[i])
           /\ poll' = [poll EXCEPT ![s].sent = {i}]
           /\ \A t \in Polls : poll[t].sent = {}
  BY PublishKind
<1>3. poll \in [Polls -> Poll] /\ DOMAIN outbox = 1 .. Len(outbox) /\ Len(outbox) \in Nat
  BY PollKind DEF RelayInductive, RelayTypeOK
<1>4. poll'[s].sent = {i} /\ \A t \in Polls : t # s => poll'[t].sent = {}
  BY <1>2, <1>3 DEF Poll
<1>5. Sent = {} /\ Sent' = {i}
  BY <1>2, <1>4 DEF Sent
<1>6. Log!IsNext(i)
  <2>1. ASSUME NEW j \in 1 .. i - 1, RowOf[outbox[j]] = RowOf[outbox[i]]
        PROVE  j \in published
    BY <1>2, <1>3, <2>1 DEF Before
  <2> QED
    BY <1>2, <2>1 DEF Log!IsNext
<1> QED
  BY <1>1, <1>2, <1>5, <1>6 DEF Log!Send, Sent

\* What is marked is that event.
LEMMA MarkImplements ==
  ASSUME RelayInductive, NEW s \in Polls, Mark(s)
  PROVE  Log!Acknowledge
<1>1. /\ poll[s].sent # {} /\ published' = published \cup poll[s].sent
      /\ poll' = [poll EXCEPT ![s] = [rows |-> poll[s].rows \ poll[s].sent, sent |-> {}]]
      /\ UNCHANGED <<outbox, topic>>
  BY DEF Mark
<1>2. poll \in [Polls -> Poll]
  BY PollKind
<1>3. \A t \in Polls : t # s => poll[t].sent = {}
  BY <1>1 DEF RelayInductive, OnePoll, NoPoll
<1>4. \A t \in Polls : poll'[t].sent = {}
  BY <1>1, <1>2, <1>3
<1>5. Sent = poll[s].sent /\ Sent' = {}
  BY <1>3, <1>4 DEF Sent
<1> QED
  BY <1>1, <1>5 DEF Log!Acknowledge, Sent

\* A stop forgets at most that an event was sent.
LEMMA StopImplements ==
  ASSUME Stop
  PROVE  Log!Forget \/ UNCHANGED Log!vars
<1>1. UNCHANGED <<outbox, published, topic>> /\ Sent' = {}
  BY DEF Stop, NoPoll, Sent
<1> QED
  BY <1>1 DEF Log!Forget, Log!vars, Sent

LogStep == Log!Next \/ UNCHANGED Log!vars

\* Somebody writes an event, and the relay does nothing.
Announces == (\E e \in Events : Announce(e)) /\ UNCHANGED <<published, polling, poll, topic>>

\* Whatever the relay does, and whatever else happens, is a step of the log or none.
LEMMA RelayImplements ==
  ASSUME RelayInductive,
         Relay \/ Stop \/ UNCHANGED relayVars \/ Announces
  PROVE  LogStep
<1> USE DEF LogStep
<1>1. CASE Relay
  BY <1>1, PollImplements, PublishImplements, MarkImplements DEF Relay, Log!Next
<1>2. CASE Stop
  BY <1>2, StopImplements DEF Log!Next
<1>3. CASE UNCHANGED relayVars
  BY <1>3 DEF relayVars, Log!vars
<1>4. CASE Announces
  BY <1>4 DEF Announces, Announce, Log!Next, Log!Write
<1> QED
  BY <1>1, <1>2, <1>3, <1>4

\* The log starts empty.
LEMMA LogStarts ==
  ASSUME FeedInit
  PROVE  Log!Init
BY DEF FeedInit, RelayInit, NoPoll, Log!Init
================================================================================
