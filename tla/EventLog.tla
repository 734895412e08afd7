-------------------------------- MODULE EventLog --------------------------------
(***************************************************************************)
(* What the transactional outbox and its relay promise to the readers of a *)
(* topic, without polls, batches, flags or crashes: what is written is     *)
(* sent, one event at a time, and sent again until its sending is          *)
(* acknowledged.  The events of a row are sent in the order in which they  *)
(* were written, and each is acknowledged before the next one is sent;     *)
(* between the events of different rows nothing is promised.               *)
(*                                                                         *)
(* OutboxRelay.tla implements this specification                           *)
(* (OutboxRelay!ImplementsLog).                                            *)
(***************************************************************************)
EXTENDS Naturals, Sequences

CONSTANTS
  Events,
  RowOf          \* [Events -> what they are about]

VARIABLES
  log,           \* the events written
  sent,          \* the messages sent
  acked,         \* which events of the log are known to be sent
  unconfirmed    \* which one has been sent, and that is not yet recorded

vars == <<log, sent, acked, unconfirmed>>

Init == log = <<>> /\ sent = <<>> /\ acked = {} /\ unconfirmed = {}

Write(e) == log' = Append(log, e) /\ UNCHANGED <<sent, acked, unconfirmed>>

\* The i-th event is the next one of its row.
IsNext(i) ==
  /\ i \notin acked
  /\ \A j \in 1 .. i - 1 : RowOf[log[j]] = RowOf[log[i]] => j \in acked

Send(i) ==
  /\ unconfirmed = {} /\ IsNext(i)
  /\ sent' = Append(sent, log[i])
  /\ unconfirmed' = {i}
  /\ UNCHANGED <<log, acked>>

Acknowledge ==
  /\ unconfirmed # {}
  /\ acked' = acked \cup unconfirmed
  /\ unconfirmed' = {}
  /\ UNCHANGED <<log, sent>>

\* That it was sent is forgotten before it is recorded: it will be sent again.
Forget ==
  /\ unconfirmed # {}
  /\ unconfirmed' = {}
  /\ UNCHANGED <<log, sent, acked>>

Next ==
  \/ \E e \in Events : Write(e)
  \/ \E i \in DOMAIN log : Send(i)
  \/ Acknowledge
  \/ Forget

Spec == Init /\ [][Next]_vars
================================================================================
