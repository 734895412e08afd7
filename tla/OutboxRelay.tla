------------------------------- MODULE OutboxRelay -------------------------------
(***************************************************************************)
(* The transactional outbox of products-service and of cart-service: a     *)
(* transaction that changes a row inserts the event that announces it, a   *)
(* timer polls the events not yet published, and the relay publishes each  *)
(* one to Kafka and then marks it.  A failure in between publishes it      *)
(* twice.                                                                  *)
(*                                                                         *)
(* pollOnce orders events by createdAt, which is stamped when the event is *)
(* inserted, and not when its transaction commits.  Transactions on one    *)
(* row are serialised by its lock; those on different rows commit in any   *)
(* order, so that an older event may appear after a newer one is marked.   *)
(* What is certain is the order of the events of one row (Before).         *)
(*                                                                         *)
(* Topics have one partition and messages no key: a topic is a sequence.   *)
(* Consumers of the group each read it from an offset that the broker      *)
(* keeps for them; restarting, they go back to the last one committed.     *)
(***************************************************************************)
EXTENDS Naturals, Sequences, FiniteSets, FiniteSetsExt

CONSTANTS
  Events,        \* what may be announced
  RowOf,         \* the row that an event announces
  Polls,         \* runs of pollOnce that the timer may have going at a time
  BatchSize,     \* events that a poll takes
  Consumers,     \* consumer groups
  MaxFailures    \* bound on failures of the relay and of the consumers

VARIABLES
  outbox,        \* table OutboxEvent, as its transactions committed
  published,     \* the events with a publishedAt
  polling,       \* the relay's flag
  poll,          \* what each run of pollOnce has in memory
  topic,         \* the messages in Kafka
  offset,        \* per consumer: the messages handled, and since when
  failures       \* failures so far

relayVars == <<outbox, published, polling, poll, topic>>
feedVars == <<relayVars, offset, failures>>

ASSUME RelayAssumption ==
  /\ Polls # {} /\ BatchSize \in Nat \ {0} /\ MaxFailures \in Nat

\* rows: those of the outbox that the run has fetched and not marked.
\* sent: the one of them that is published and not marked.
NoPoll == [rows |-> {}, sent |-> {}]

Fail == failures < MaxFailures /\ failures' = failures + 1

\* Inserted in the transaction of what it announces.
Announce(event) == outbox' = Append(outbox, event)

--------------------------------------------------------------------------------
(* The relay *)

Pending == DOMAIN outbox \ published

\* createdAt orders the events of one row as they were committed; of two rows'
\* events either may be the older one.
Before(i, j) == i < j /\ RowOf[outbox[i]] = RowOf[outbox[j]]

Oldest(S) == {i \in S : \A j \in S : ~Before(j, i)}

\* The first BatchSize pending events by createdAt.
Batches ==
  {S \in SUBSET Pending :
     /\ Cardinality(S) = BatchSize \/ (S = Pending /\ Cardinality(S) < BatchSize)
     /\ \A i \in S, j \in Pending : Before(j, i) => j \in S}

\* Faulty variant of MayPoll: polls are not kept apart.
AlwaysPolls == polling \in BOOLEAN

MayPoll == ~polling

PollOnce(s) ==
  /\ MayPoll /\ poll[s] = NoPoll
  /\ Pending # {}
  /\ polling' = TRUE
  /\ \E S \in Batches : poll' = [poll EXCEPT ![s].rows = S]
  /\ UNCHANGED <<outbox, published, topic, offset, failures>>

Publish(s) ==
  /\ poll[s].sent = {}
  /\ \E i \in Oldest(poll[s].rows) :
       /\ topic' = Append(topic, outbox[i])
       /\ poll' = [poll EXCEPT ![s].sent = {i}]
  /\ UNCHANGED <<outbox, published, polling, offset, failures>>

Mark(s) ==
  LET rest == poll[s].rows \ poll[s].sent
  IN  /\ poll[s].sent # {}
      /\ published' = published \cup poll[s].sent
      /\ poll' = [poll EXCEPT ![s] = [rows |-> rest, sent |-> {}]]
      /\ polling' = (rest # {})
      /\ UNCHANGED <<outbox, topic, offset, failures>>

\* An error ends the poll, a crash every poll there is.
Stop ==
  /\ Fail
  /\ \E s \in Polls : poll[s] # NoPoll
  /\ poll' = [s \in Polls |-> NoPoll]
  /\ polling' = FALSE
  /\ UNCHANGED <<outbox, published, topic, offset>>

RelayInit ==
  /\ outbox = <<>> /\ published = {} /\ topic = <<>>
  /\ polling = FALSE /\ poll = [s \in Polls |-> NoPoll]

Relay == \E s \in Polls : PollOnce(s) \/ Publish(s) \/ Mark(s)

--------------------------------------------------------------------------------
(* Consumers *)

\* done: handled, the last of them by this process, which started at from.
Fresh(k) == [done |-> k, from |-> k]

\* The message that a consumer has in hand, or will.
Unread(c) == offset[c].done < Len(topic)
Message(c) == topic[offset[c].done + 1]

Handled(c) == offset' = [offset EXCEPT ![c].done = @ + 1]

\* Faulty variant of Rewind: a message's offset is committed before it is handled.
SkipAhead(c) ==
  /\ Fail
  /\ offset' = [offset EXCEPT ![c] = Fresh(offset[c].done + 1)]

\* A crash, or a handler that throws.  kafkajs commits the offsets of handled
\* messages from time to time: read again from the last commit, whichever it was.
Rewind(c) ==
  /\ Fail
  /\ \E k \in offset[c].from..offset[c].done : offset' = [offset EXCEPT ![c] = Fresh(k)]

FeedInit == RelayInit /\ offset = [c \in Consumers |-> Fresh(0)] /\ failures = 0

--------------------------------------------------------------------------------
RelayTypeOK ==
  /\ outbox \in Seq(Events) /\ topic \in Seq(Events)
  /\ published \subseteq DOMAIN outbox
  /\ polling \in BOOLEAN
  /\ poll \in [Polls -> [rows : SUBSET DOMAIN outbox, sent : SUBSET DOMAIN outbox]]
  /\ offset \in [Consumers -> [done : 0..Len(topic), from : 0..Len(topic)]]
  /\ \A c \in Consumers : offset[c].from <= offset[c].done
  /\ failures \in 0..MaxFailures

Log == INSTANCE EventLog WITH
         log         <- outbox,
         sent        <- topic,
         acked       <- published,
         unconfirmed <- UNION {poll[s].sent : s \in Polls}

\* However polls, batches, errors and restarts interleave with the transactions that
\* write, the relay is a loop that sends one event after the other until each is
\* marked: of every row the events go out one by one in the order of its changes,
\* none is skipped, and none is sent after a later one of its row was marked (the
\* flag and the order of createdAt in pollOnce, which marks what it has published).
ImplementsLog == Log!Spec
================================================================================
