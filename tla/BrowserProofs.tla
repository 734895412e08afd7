------------------------------- MODULE BrowserProofs -------------------------------
(***************************************************************************)
(* Theorems about what one browser brings together, for every value of the *)
(* constants: its session (Sessions.tla) and its page (Storefront.tla).    *)
(*                                                                         *)
(* Sessions: its types, and that refreshes put only newer tokens into a    *)
(* session.  A refresh reads the session before it asks for the lock and   *)
(* writes it after Keycloak has answered.  That the last write is of the   *)
(* newest tokens rests on one refresh per session at a time                *)
(* (OneRefresher), which rests on every refresh being over before its lock *)
(* is: hence overran.                                                      *)
(*                                                                         *)
(* The page: its types, and that a saved card submitted again is the same  *)
(* attempt to the service.  What counts is which attempt paid the order,   *)
(* compared with the one that is kept (Paying): the key of a saved card is *)
(* only given up for a new card's, and the next saved card gets the key    *)
(* after that one.                                                         *)
(***************************************************************************)
EXTENDS Sessions, Storefront, TLAPS

--------------------------------------------------------------------------------
(* Sessions: the inductive invariant *)

Jobs ==
  {Idle} \cup SigningIn \cup Creating \cup Refreshing \cup Waiting \cup Answering

\* consume has deleted a state before its code is exchanged.
ForgottenFirst ==
  \A h \in Requests : At(h, "exchange") => \A p \in pending : p[1] # job[h].state

\* Nobody has tokens that Keycloak has not issued.
TokensAreIssued ==
  /\ \A s \in SessionIds : sessions[s] # None => sessions[s] <= issued
  /\ \A h \in Requests : job[h].step \in {"create", "save"} => job[h].tokens <= issued

UnderLock == {"refresh", "save", "release"}

\* A lock has one owner, and nobody else writes the session meanwhile.
OneRefresher ==
  /\ \A h \in Requests : job[h].step \in UnderLock => job[h].id \in locks
  /\ \A g, h \in Requests :
       g # h /\ job[g].step \in UnderLock /\ job[h].step \in UnderLock
         => job[g].id # job[h].id

\* What is about to be saved is not older than what is there.
SavesAreNewer ==
  \A h \in Requests :
    At(h, "save") /\ sessions[job[h].id] # None => sessions[job[h].id] <= job[h].tokens

Inductive ==
  /\ SessionsTypeOK /\ ForgottenFirst /\ TokensAreIssued
  /\ ~overran => OneRefresher /\ SavesAreNewer

--------------------------------------------------------------------------------
(* Jobs *)

\* The step of a job says which fields it has.
LEMMA JobKind ==
  ASSUME NEW j \in Jobs
  PROVE  /\ j.step \in {"forget", "exchange"} => j \in SigningIn
         /\ j.step = "create" => j \in Creating
         /\ j.step \in {"drop", "lock", "refresh", "save", "release", "serve", "delete"}
              => j \in Refreshing
         /\ j.step = "wait" => j \in Waiting
         /\ j.step = "clear" => j \in Answering
         /\ j.step = "idle" => j = Idle
BY DEF Jobs, Idle, SigningIn, Creating, Refreshing, Waiting, Answering

\* A request that becomes j changes nobody else.
LEMMA Becomes ==
  ASSUME SessionsTypeOK, NEW h \in Requests, NEW j \in Jobs, Become(h, j)
  PROVE  /\ job' \in [Requests -> Jobs] /\ job'[h] = j
         /\ \A g \in Requests : g # h => job'[g] = job[g]
BY DEF SessionsTypeOK, Become, Jobs

\* A step after which the request owns no lock and no new tokens, and by which no
\* session gets any.
LEMMA QuietStep ==
  ASSUME Inductive, NEW h \in Requests, NEW j \in Jobs, Become(h, j),
         UNCHANGED <<tokens, overran, crashes, codes>>,
         pending' \subseteq pending, ended' \subseteq SessionIds,
         cookie' \in [Browsers -> SessionIds \cup {None}],
         sessions' \in [SessionIds -> Session \cup {None}],
         \A s \in SessionIds : sessions'[s] \in {sessions[s], None},
         locks' = locks \/ (locks' = locks \ {job[h].id} /\ job[h].step \in UnderLock),
         j.step \notin UnderLock \cup {"create", "exchange"}
  PROVE  Inductive'
<1>1. SessionsTypeOK /\ ForgottenFirst /\ TokensAreIssued
  BY DEF Inductive
<1>2. /\ job' \in [Requests -> Jobs] /\ job'[h] = j
      /\ \A g \in Requests : g # h => job'[g] = job[g]
  BY <1>1, Becomes
<1>3. SessionsTypeOK'
  BY <1>1, <1>2 DEF SessionsTypeOK, Jobs, tokens
<1>4. ForgottenFirst'
  BY <1>1, <1>2 DEF ForgottenFirst, At
<1>5. TokensAreIssued'
  BY <1>1, <1>2 DEF TokensAreIssued, tokens, UnderLock
<1>6. ASSUME ~overran'
      PROVE  OneRefresher' /\ SavesAreNewer'
  <2>1. OneRefresher /\ SavesAreNewer
    BY <1>6 DEF Inductive
  <2>2. OneRefresher'
    BY <1>2, <2>1 DEF OneRefresher
  <2>3. \A g \in Requests : job[g].step = "save" => job[g].id \in SessionIds
    BY <1>1, JobKind DEF SessionsTypeOK, Jobs, Refreshing
  <2>4. SavesAreNewer'
    BY <1>2, <2>1, <2>3 DEF SavesAreNewer, At, UnderLock
  <2> QED
    BY <2>2, <2>4
<1> QED
  BY <1>3, <1>4, <1>5, <1>6 DEF Inductive

\* The same, of a step that changes the memory of one request only.
LEMMA MemoryStep ==
  ASSUME Inductive, NEW h \in Requests, NEW j \in Jobs, Become(h, j),
         UNCHANGED <<store, tokens, ended, overran, crashes>>,
         cookie' \in [Browsers -> SessionIds \cup {None}],
         j.step \notin UnderLock \cup {"create", "exchange"}
  PROVE  Inductive'
<1>1. SessionsTypeOK
  BY DEF Inductive
<1> QED
  BY <1>1, QuietStep DEF SessionsTypeOK, store

--------------------------------------------------------------------------------
(* Signing in *)

LEMMA LoginStep ==
  ASSUME Inductive, NEW b \in Browsers, NEW st \in States, Login(b, st)
  PROVE  Inductive'
<1>1. SessionsTypeOK /\ ForgottenFirst
  BY DEF Inductive
<1>2. pending' = pending \cup {<<st, b>>} /\ st \notin codes
  BY DEF Login, NewState
<1>3. SessionsTypeOK'
  BY <1>1, <1>2 DEF SessionsTypeOK, Login, tokens
<1>4. ForgottenFirst'
  BY <1>1, <1>2 DEF ForgottenFirst, Login, NewState, At
<1> QED
  BY <1>3, <1>4 DEF Inductive, TokensAreIssued, OneRefresher, SavesAreNewer, At, Login, tokens

LEMMA PendingEndsStep ==
  ASSUME Inductive, NEW p \in pending, PendingEnds(p)
  PROVE  Inductive'
BY DEF PendingEnds, Inductive, SessionsTypeOK, ForgottenFirst, TokensAreIssued, OneRefresher,
       SavesAreNewer, At, tokens

LEMMA CallbackStep ==
  ASSUME Inductive, NEW h \in Requests, NEW p \in pending, Callback(h, p)
  PROVE  Inductive'
<1> DEFINE j == [step |-> "forget", state |-> p[1], browser |-> p[2]]
<1>1. j \in Jobs
  BY DEF Inductive, SessionsTypeOK, Jobs, SigningIn
<1>2. Become(h, j) /\ cookie' \in [Browsers -> SessionIds \cup {None}]
  BY DEF Callback, Begin, Inductive, SessionsTypeOK
<1> QED
  BY <1>1, <1>2, MemoryStep DEF Callback, UnderLock

LEMMA ForgetPendingStep ==
  ASSUME Inductive, NEW h \in Requests, ForgetPending(h)
  PROVE  Inductive'
<1> DEFINE j == [job[h] EXCEPT !.step = "exchange"]
<1>1. /\ SessionsTypeOK /\ ForgottenFirst /\ TokensAreIssued
      /\ job[h] \in SigningIn
  BY JobKind DEF Inductive, SessionsTypeOK, Jobs, ForgetPending, At
<1>2. j \in SigningIn /\ j.state = job[h].state /\ j.step = "exchange"
  BY <1>1 DEF SigningIn
<1>3. /\ job' \in [Requests -> Jobs] /\ job'[h] = j
      /\ \A g \in Requests : g # h => job'[g] = job[g]
  BY <1>1, <1>2 DEF SessionsTypeOK, ForgetPending, Go, Jobs
<1> HIDE DEF j
<1>4. SessionsTypeOK'
  BY <1>1, <1>3 DEF SessionsTypeOK, ForgetPending, Jobs, tokens
<1>5. ForgottenFirst' /\ TokensAreIssued'
  BY <1>1, <1>2, <1>3 DEF ForgottenFirst, TokensAreIssued, ForgetPending, At, tokens
<1>6. ASSUME ~overran'
      PROVE  OneRefresher' /\ SavesAreNewer'
  <2>1. OneRefresher /\ SavesAreNewer
    BY <1>6 DEF Inductive, ForgetPending
  <2>2. OneRefresher'
    BY <1>2, <1>3, <2>1 DEF OneRefresher, UnderLock, ForgetPending
  <2>3. SavesAreNewer'
    BY <1>2, <1>3, <2>1 DEF SavesAreNewer, At, ForgetPending
  <2> QED
    BY <2>2, <2>3
<1> QED
  BY <1>4, <1>5, <1>6 DEF Inductive

LEMMA ExchangeCodeStep ==
  ASSUME Inductive, NEW h \in Requests, ExchangeCode(h)
  PROVE  Inductive'
<1> DEFINE j == job[h]
           k == [step |-> "create", browser |-> j.browser, tokens |-> issued + 1]
<1>1. /\ SessionsTypeOK /\ ForgottenFirst /\ TokensAreIssued
      /\ j \in SigningIn /\ j.step = "exchange"
  BY JobKind DEF Inductive, SessionsTypeOK, Jobs, ExchangeCode, At
<1>2. CASE j.state \in codes
  <2>1. /\ Become(h, Idle) /\ UNCHANGED <<store, tokens, ended, overran, crashes>>
        /\ cookie' \in [Browsers -> SessionIds \cup {None}]
    BY <1>1, <1>2 DEF ExchangeCode, store, tokens, SessionsTypeOK
  <2> QED
    BY <2>1, MemoryStep DEF Idle, Jobs, UnderLock
<1>3. CASE j.state \notin codes
  <2>1. /\ issued' = issued + 1 /\ issued' \in 1..MaxTokens
        /\ codes' = codes \cup {j.state} /\ Become(h, k)
    BY <1>1, <1>3, SessionsAssumption DEF ExchangeCode, MayIssue, SessionsTypeOK
  <2>2. k \in Jobs
    BY <1>1, <2>1 DEF Jobs, Creating, SigningIn, Session
  <2>3. /\ job' \in [Requests -> Jobs] /\ job'[h] = k
        /\ \A g \in Requests : g # h => job'[g] = job[g]
    BY <1>1, <2>1, <2>2, Becomes
  <2>4. \A p \in pending' : p[1] \notin codes'
    BY <1>1, <2>1 DEF ForgottenFirst, At, SessionsTypeOK, ExchangeCode
  <2>5. /\ issued' \in 0..MaxTokens
        /\ expiring' \in 0..issued' /\ expired' \in 0..expiring'
    BY <1>1, <2>1, SessionsAssumption DEF SessionsTypeOK, ExchangeCode
  <2>6. codes' \subseteq States
    BY <1>1, <2>1 DEF SessionsTypeOK, SigningIn
  <2>7. SessionsTypeOK'
    BY <1>1, <2>3, <2>4, <2>5, <2>6 DEF SessionsTypeOK, ExchangeCode, Jobs
  <2>8. ForgottenFirst'
    BY <1>1, <2>3 DEF ForgottenFirst, ExchangeCode, At
  <2>9. TokensAreIssued'
    <3>1. \A s \in SessionIds : sessions[s] # None => sessions[s] \in Nat
      BY <1>1 DEF SessionsTypeOK, Session
    <3>2. \A g \in Requests : job[g].step \in {"create", "save"} => job[g].tokens \in Nat
      BY <1>1, JobKind DEF SessionsTypeOK, Jobs, Creating, Refreshing, Session
    <3>3. k.tokens <= issued'
      BY <2>1
    <3> QED
      BY <1>1, <2>1, <2>3, <3>1, <3>2, <3>3 DEF SessionsTypeOK, TokensAreIssued, ExchangeCode
  <2>10. ~overran' => OneRefresher' /\ SavesAreNewer'
    BY <2>3 DEF Inductive, OneRefresher, SavesAreNewer, UnderLock, At, ExchangeCode
  <2> QED
    BY <2>7, <2>8, <2>9, <2>10 DEF Inductive
<1> QED
  BY <1>2, <1>3

LEMMA CreateSessionStep ==
  ASSUME Inductive, NEW h \in Requests, NEW s \in SessionIds, CreateSession(h, s)
  PROVE  Inductive'
<1> DEFINE j == job[h]
<1>1. /\ SessionsTypeOK /\ ForgottenFirst /\ TokensAreIssued
      /\ j \in Creating /\ j.step = "create"
  BY JobKind DEF Inductive, SessionsTypeOK, Jobs, CreateSession, At
<1>2. /\ job' \in [Requests -> Jobs] /\ job'[h] = Idle
      /\ \A g \in Requests : g # h => job'[g] = job[g]
  BY <1>1, Becomes DEF CreateSession, Jobs
<1>3. /\ sessions' \in [SessionIds -> Session \cup {None}] /\ sessions'[s] = j.tokens
      /\ \A t \in SessionIds : t # s => sessions'[t] = sessions[t]
  BY <1>1 DEF SessionsTypeOK, CreateSession, Creating
<1>4. cookie' \in [Browsers -> SessionIds \cup {None}]
  BY <1>1 DEF SessionsTypeOK, CreateSession, Creating
<1>5. SessionsTypeOK'
  BY <1>1, <1>2, <1>3, <1>4 DEF SessionsTypeOK, CreateSession, Jobs, tokens
<1>6. ForgottenFirst' /\ TokensAreIssued'
  BY <1>1, <1>2, <1>3
     DEF ForgottenFirst, TokensAreIssued, CreateSession, At, Idle, tokens
<1>7. ASSUME ~overran'
      PROVE  OneRefresher' /\ SavesAreNewer'
  <2>1. OneRefresher /\ SavesAreNewer
    BY <1>7 DEF Inductive, CreateSession
  <2>2. \A g \in Requests : job[g].step = "save" =>
          job[g].id \in SessionIds /\ job[g].id # s
    BY <1>1, JobKind DEF SessionsTypeOK, Jobs, Refreshing, CreateSession, New
  <2> QED
    BY <1>2, <1>3, <2>1, <2>2
       DEF OneRefresher, SavesAreNewer, UnderLock, At, Idle, CreateSession
<1> QED
  BY <1>5, <1>6, <1>7 DEF Inductive

--------------------------------------------------------------------------------
(* Serving and refreshing *)

\* What a request holds of a session it has read.
LEMMA HeldType ==
  ASSUME SessionsTypeOK, NEW b \in Browsers, NEW s \in SessionIds, sessions[s] # None,
         NEW step \in {"drop", "lock", "refresh", "save", "release", "serve", "delete"}
  PROVE  Held(b, s, sessions[s], step) \in Jobs
BY DEF SessionsTypeOK, Held, Jobs, Refreshing

LEMMA FindSessionStep ==
  ASSUME Inductive, NEW h \in Requests, NEW b \in Browsers, FindSession(h, b)
  PROVE  Inductive'
<1> DEFINE s == cookie[b]
           t == sessions[s]
<1>1. SessionsTypeOK /\ s \in SessionIds
  BY DEF Inductive, SessionsTypeOK, FindSession
<1>2. cookie' \in [Browsers -> SessionIds \cup {None}]
  BY <1>1 DEF SessionsTypeOK, FindSession
<1>3. PICK j \in {ToClear(b), Held(b, s, t, "serve"), Held(b, s, t, "drop"),
                  Held(b, s, t, "lock")} :
        Become(h, j) /\ (t = None => j = ToClear(b))
  BY DEF FindSession, Begin
<1>4. j \in Jobs
  BY <1>1, <1>3, HeldType DEF ToClear, Answering, Jobs
<1>5. j.step \notin UnderLock \cup {"create", "exchange"}
  BY DEF ToClear, Held, UnderLock
<1> QED
  BY <1>2, <1>3, <1>4, <1>5, MemoryStep DEF FindSession

\* The session that the request has read is deleted.
LEMMA DeletionStep ==
  ASSUME Inductive, NEW h \in Requests, job[h] \in Refreshing,
         sessions' = [sessions EXCEPT ![job[h].id] = None],
         Become(h, ToClear(job[h].browser)), ended' \subseteq SessionIds,
         UNCHANGED <<pending, codes, locks, cookie, tokens, overran, crashes>>
  PROVE  Inductive'
<1>1. SessionsTypeOK /\ ToClear(job[h].browser) \in Jobs
  BY DEF Inductive, ToClear, Jobs, Answering, Refreshing
<1>2. ToClear(job[h].browser).step = "clear"
  BY DEF ToClear
<1>3. /\ sessions' \in [SessionIds -> Session \cup {None}]
      /\ \A s \in SessionIds : sessions'[s] \in {sessions[s], None}
  BY <1>1 DEF SessionsTypeOK
<1>4. cookie' \in [Browsers -> SessionIds \cup {None}]
  BY <1>1 DEF SessionsTypeOK
<1>5. pending' \subseteq pending /\ locks' = locks
  OBVIOUS
<1> QED
  BY <1>1, <1>2, <1>3, <1>4, <1>5, QuietStep DEF UnderLock

LEMMA DropExpiredStep ==
  ASSUME Inductive, NEW h \in Requests, DropExpired(h)
  PROVE  Inductive'
<1>1. SessionsTypeOK /\ job[h] \in Refreshing
  BY JobKind DEF Inductive, SessionsTypeOK, Jobs, DropExpired, At
<1>2. ended' \subseteq SessionIds
  BY <1>1 DEF SessionsTypeOK, DropExpired
<1> QED
  BY <1>1, <1>2, DeletionStep DEF DropExpired

LEMMA LogoutStep ==
  ASSUME Inductive, NEW h \in Requests, Logout(h)
  PROVE  Inductive'
<1>1. SessionsTypeOK /\ job[h] \in Refreshing
  BY JobKind DEF Inductive, SessionsTypeOK, Jobs, Logout, At
<1>2. ended' \subseteq SessionIds
  BY <1>1 DEF SessionsTypeOK, Logout, Refreshing
<1> QED
  BY <1>1, <1>2, DeletionStep DEF Logout

LEMMA AcquireRefreshLockStep ==
  ASSUME Inductive, NEW h \in Requests, AcquireRefreshLock(h)
  PROVE  Inductive'
<1> DEFINE j == job[h]
           k == [j EXCEPT !.step = "refresh"]
           w == [step |-> "wait", browser |-> j.browser, id |-> j.id, tries |-> MaxTries]
<1>1. /\ SessionsTypeOK /\ ForgottenFirst /\ TokensAreIssued
      /\ j \in Refreshing /\ j.step = "lock"
  BY JobKind DEF Inductive, SessionsTypeOK, Jobs, AcquireRefreshLock, At
<1>2. CASE Acquired(j.id)
  <2>1. /\ k \in Jobs /\ k.step = "refresh" /\ k.id = j.id
        /\ Become(h, k) /\ locks' = locks \cup {j.id} /\ j.id \in SessionIds
    BY <1>1, <1>2 DEF AcquireRefreshLock, Go, Become, Refreshing, Jobs
  <2>2. /\ job' \in [Requests -> Jobs] /\ job'[h] = k
        /\ \A g \in Requests : g # h => job'[g] = job[g]
    BY <1>1, <2>1, Becomes
  <2> HIDE DEF k
  <2>3. SessionsTypeOK'
    BY <1>1, <2>1, <2>2 DEF SessionsTypeOK, AcquireRefreshLock, Jobs, tokens
  <2>4. ForgottenFirst' /\ TokensAreIssued'
    BY <1>1, <2>1, <2>2 DEF ForgottenFirst, TokensAreIssued, AcquireRefreshLock, At, tokens
  <2>5. ASSUME ~overran'
        PROVE  OneRefresher' /\ SavesAreNewer'
    <3>1. OneRefresher /\ SavesAreNewer
      BY <2>5 DEF Inductive, AcquireRefreshLock
    <3>2. \A g \in Requests : job[g].step \in UnderLock => job[g].id # j.id
      BY <1>2, <3>1 DEF OneRefresher, Acquired
    <3>3. OneRefresher'
      BY <2>1, <2>2, <3>1, <3>2 DEF OneRefresher
    <3>4. SavesAreNewer'
      BY <2>1, <2>2, <3>1 DEF SavesAreNewer, At, AcquireRefreshLock
    <3> QED
      BY <3>3, <3>4
  <2> QED
    BY <2>3, <2>4, <2>5 DEF Inductive
<1>3. CASE ~Acquired(j.id)
  <2>1. Become(h, w) /\ UNCHANGED <<store, cookie>>
    BY <1>3 DEF AcquireRefreshLock, store
  <2>2. w \in Jobs
    BY <1>1, SessionsAssumption DEF Jobs, Waiting, Refreshing
  <2>3. cookie' \in [Browsers -> SessionIds \cup {None}]
    BY <1>1, <2>1 DEF SessionsTypeOK
  <2> QED
    BY <2>1, <2>2, <2>3, MemoryStep DEF AcquireRefreshLock, UnderLock
<1> QED
  BY <1>2, <1>3

LEMMA RefreshedTokensStep ==
  ASSUME Inductive, NEW h \in Requests, Refresh(h)
  PROVE  Inductive'
<1> DEFINE j == job[h]
           k == [j EXCEPT !.step = "save", !.tokens = issued + 1]
<1>1. /\ SessionsTypeOK /\ ForgottenFirst /\ TokensAreIssued
      /\ j \in Refreshing /\ j.step = "refresh"
  BY JobKind DEF Inductive, SessionsTypeOK, Jobs, Refresh, At
<1>2. issued' = issued + 1 /\ issued' \in 1..MaxTokens
  BY <1>1, SessionsAssumption DEF Refresh, MayIssue, SessionsTypeOK
<1>3. /\ k \in Jobs /\ k.step = "save" /\ k.id = j.id /\ k.tokens = issued + 1
      /\ j.id \in SessionIds
  BY <1>1, <1>2 DEF Refreshing, Jobs, Session
<1>4. Become(h, k)
  BY DEF Refresh, Become
<1> HIDE DEF k
<1>5. /\ job' \in [Requests -> Jobs] /\ job'[h] = k
      /\ \A g \in Requests : g # h => job'[g] = job[g]
  BY <1>1, <1>3, <1>4, Becomes
<1>6. /\ issued' \in 0..MaxTokens
      /\ expiring' \in 0..issued' /\ expired' \in 0..expiring'
  BY <1>1, <1>2, SessionsAssumption DEF SessionsTypeOK, Refresh
<1>7. SessionsTypeOK'
  BY <1>1, <1>5, <1>6 DEF SessionsTypeOK, Refresh, store, Jobs
<1>8. \A s \in SessionIds : sessions[s] # None => sessions[s] \in Nat /\ sessions[s] <= issued
  BY <1>1 DEF SessionsTypeOK, Session, TokensAreIssued
<1>9. TokensAreIssued'
  <2>1. \A g \in Requests : job[g].step \in {"create", "save"} => job[g].tokens \in Nat
    BY <1>1, JobKind DEF SessionsTypeOK, Jobs, Creating, Refreshing, Session
  <2> QED
    BY <1>1, <1>2, <1>3, <1>5, <1>8, <2>1 DEF SessionsTypeOK, TokensAreIssued, Refresh, store
<1>10. ForgottenFirst'
  BY <1>1, <1>3, <1>5 DEF ForgottenFirst, At, Refresh, store
<1>11. ASSUME ~overran'
       PROVE  OneRefresher' /\ SavesAreNewer'
  <2>1. OneRefresher /\ SavesAreNewer
    BY <1>11 DEF Inductive, Refresh
  <2>2. OneRefresher'
    BY <1>1, <1>3, <1>5, <2>1 DEF OneRefresher, UnderLock, Refresh, store
  <2>3. sessions[j.id] # None => sessions[j.id] <= k.tokens
    BY <1>1, <1>3, <1>8 DEF SessionsTypeOK
  <2>4. SavesAreNewer'
    BY <1>3, <1>5, <2>1, <2>3 DEF SavesAreNewer, At, Refresh, store
  <2> QED
    BY <2>2, <2>4
<1> QED
  BY <1>7, <1>9, <1>10, <1>11 DEF Inductive

LEMMA SaveRefreshedStep ==
  ASSUME Inductive, NEW h \in Requests, SaveRefreshed(h)
  PROVE  Inductive'
<1> DEFINE j == job[h]
           k == [j EXCEPT !.step = "release"]
<1>1. /\ SessionsTypeOK /\ ForgottenFirst /\ TokensAreIssued
      /\ j \in Refreshing /\ j.step = "save"
  BY JobKind DEF Inductive, SessionsTypeOK, Jobs, SaveRefreshed, At
<1>2. /\ k \in Jobs /\ k.step = "release" /\ k.id = j.id
      /\ j.id \in SessionIds /\ j.tokens \in Session
  BY <1>1 DEF Refreshing, Jobs
<1>3. Become(h, k)
  BY DEF SaveRefreshed, Go, Become
<1> HIDE DEF k
<1>4. /\ job' \in [Requests -> Jobs] /\ job'[h] = k
      /\ \A g \in Requests : g # h => job'[g] = job[g]
  BY <1>1, <1>2, <1>3, Becomes
<1>5. /\ sessions' \in [SessionIds -> Session \cup {None}] /\ sessions'[j.id] = j.tokens
      /\ \A s \in SessionIds : s # j.id => sessions'[s] = sessions[s]
  BY <1>1, <1>2 DEF SessionsTypeOK, SaveRefreshed
<1>6. SessionsTypeOK'
  BY <1>1, <1>4, <1>5 DEF SessionsTypeOK, SaveRefreshed, Jobs, tokens
<1>7. ForgottenFirst' /\ TokensAreIssued'
  BY <1>1, <1>2, <1>4, <1>5 DEF ForgottenFirst, TokensAreIssued, SaveRefreshed, At, tokens
<1>8. ASSUME ~overran'
      PROVE  OneRefresher' /\ SavesAreNewer'
  <2>1. OneRefresher /\ SavesAreNewer
    BY <1>8 DEF Inductive, SaveRefreshed
  <2>2. OneRefresher'
    BY <1>1, <1>2, <1>4, <2>1 DEF OneRefresher, UnderLock, SaveRefreshed
  <2>3. \A g \in Requests : g # h /\ job[g].step = "save" =>
          job[g].id \in SessionIds /\ job[g].id # j.id
    BY <1>1, <2>1, JobKind DEF SessionsTypeOK, Jobs, Refreshing, OneRefresher, UnderLock
  <2>4. SavesAreNewer'
    BY <1>2, <1>4, <1>5, <2>1, <2>3 DEF SavesAreNewer, At
  <2> QED
    BY <2>2, <2>4
<1> QED
  BY <1>6, <1>7, <1>8 DEF Inductive

LEMMA ReleaseRefreshLockStep ==
  ASSUME Inductive, NEW h \in Requests, ReleaseRefreshLock(h)
  PROVE  Inductive'
<1> DEFINE k == [job[h] EXCEPT !.step = "serve"]
<1>1. SessionsTypeOK /\ job[h] \in Refreshing /\ job[h].step = "release"
  BY JobKind DEF Inductive, SessionsTypeOK, Jobs, ReleaseRefreshLock, At
<1>2. k \in Jobs /\ k.step = "serve" /\ Become(h, k)
  BY <1>1 DEF Refreshing, Jobs, ReleaseRefreshLock, Go, Become
<1> HIDE DEF k
<1> QED
  BY <1>1, <1>2, QuietStep DEF ReleaseRefreshLock, SessionsTypeOK, UnderLock

\* A request in whatever state of a refresh is done with it.
LEMMA RefreshFailsStep ==
  ASSUME Inductive, NEW h \in Requests, RefreshFails(h)
  PROVE  Inductive'
<1>1. SessionsTypeOK /\ job[h].step \in UnderLock
  BY DEF Inductive, RefreshFails, At, UnderLock
<1>2. Idle \in Jobs /\ Idle.step = "idle"
  BY DEF Jobs, Idle
<1> QED
  BY <1>1, <1>2, QuietStep DEF RefreshFails, SessionsTypeOK, UnderLock

LEMMA WaitForConcurrentRefreshStep ==
  ASSUME Inductive, NEW h \in Requests, WaitForConcurrentRefresh(h)
  PROVE  Inductive'
<1> DEFINE j == job[h]
           t == sessions[j.id]
<1>1. SessionsTypeOK /\ j \in Waiting /\ j.step = "wait"
  BY JobKind DEF Inductive, SessionsTypeOK, Jobs, WaitForConcurrentRefresh, At
<1>2. j.browser \in Browsers /\ j.id \in SessionIds /\ j.tries \in 1..MaxTries
  BY <1>1 DEF Waiting
<1>3. cookie' \in [Browsers -> SessionIds \cup {None}]
  BY <1>1 DEF SessionsTypeOK, WaitForConcurrentRefresh
<1>4. ToClear(j.browser) \in Jobs /\ ToClear(j.browser).step = "clear"
  BY <1>2 DEF ToClear, Jobs, Answering
<1>5. CASE Become(h, ToClear(j.browser))
  BY <1>3, <1>4, <1>5, MemoryStep DEF WaitForConcurrentRefresh, UnderLock
<1>6. CASE t # None /\ Become(h, Held(j.browser, j.id, t, "serve"))
  <2>1. /\ Held(j.browser, j.id, t, "serve") \in Jobs
        /\ Held(j.browser, j.id, t, "serve").step = "serve"
    BY <1>1, <1>2, <1>6, HeldType DEF Held
  <2> QED
    BY <1>3, <1>6, <2>1, MemoryStep DEF WaitForConcurrentRefresh, UnderLock
<1>7. CASE TriesLeft(j) # 0 /\ Become(h, [j EXCEPT !.tries = TriesLeft(j)])
  <2>1. TriesLeft(j) \in 1..MaxTries
    BY <1>2, <1>7, SessionsAssumption DEF TriesLeft
  <2>2. /\ [j EXCEPT !.tries = TriesLeft(j)] \in Jobs
        /\ [j EXCEPT !.tries = TriesLeft(j)].step = "wait"
    BY <1>1, <2>1 DEF Waiting, Jobs
  <2> QED
    BY <1>3, <1>7, <2>2, MemoryStep DEF WaitForConcurrentRefresh, UnderLock
<1> QED
  BY <1>5, <1>6, <1>7 DEF WaitForConcurrentRefresh

LEMMA ServeStep ==
  ASSUME Inductive, NEW h \in Requests, Serve(h)
  PROVE  Inductive'
<1>1. SessionsTypeOK /\ job[h] \in Refreshing
  BY JobKind DEF Inductive, SessionsTypeOK, Jobs, Serve, At
<1>2. PICK j \in {Idle, [job[h] EXCEPT !.step = "delete"]} : Become(h, j)
  BY DEF Serve, Go, Become
<1>3. j \in Jobs /\ j.step \in {"idle", "delete"}
  BY <1>1 DEF Idle, Refreshing, Jobs
<1>4. cookie' \in [Browsers -> SessionIds \cup {None}]
  BY <1>1 DEF SessionsTypeOK, Serve
<1> QED
  BY <1>2, <1>3, <1>4, MemoryStep DEF Serve, UnderLock

LEMMA RespondStep ==
  ASSUME Inductive, NEW h \in Requests, Respond(h)
  PROVE  Inductive'
<1>1. SessionsTypeOK /\ Idle \in Jobs /\ Idle.step = "idle"
  BY DEF Inductive, Idle, Jobs
<1>2. cookie' \in [Browsers -> SessionIds \cup {None}]
  BY <1>1 DEF SessionsTypeOK, Respond
<1> QED
  BY <1>1, <1>2, MemoryStep DEF Respond, UnderLock

--------------------------------------------------------------------------------
(* Time and failures *)

LEMMA ExpiryStep ==
  ASSUME Inductive, AccessTokenExpires \/ RefreshTokenExpires
  PROVE  Inductive'
<1>1. SessionsTypeOK
  BY DEF Inductive
<1>2. expiring' \in 0..issued /\ expired' \in 0..expiring'
  BY <1>1 DEF SessionsTypeOK, AccessTokenExpires, RefreshTokenExpires
<1>3. UNCHANGED <<store, cookie, issued, job, ended, overran, crashes>>
  BY DEF AccessTokenExpires, RefreshTokenExpires
<1>4. SessionsTypeOK'
  BY <1>1, <1>2, <1>3 DEF SessionsTypeOK, store
<1> QED
  BY <1>3, <1>4 DEF Inductive, ForgottenFirst, TokensAreIssued, OneRefresher, SavesAreNewer,
     At, store

LEMMA SessionEndsStep ==
  ASSUME Inductive, NEW s \in SessionIds, SessionEnds(s)
  PROVE  Inductive'
<1>1. SessionsTypeOK /\ ForgottenFirst /\ TokensAreIssued
  BY DEF Inductive
<1>2. /\ sessions' \in [SessionIds -> Session \cup {None}]
      /\ \A t \in SessionIds : sessions'[t] \in {sessions[t], None}
  BY <1>1 DEF SessionsTypeOK, SessionEnds
<1>3. SessionsTypeOK'
  BY <1>1, <1>2 DEF SessionsTypeOK, SessionEnds, tokens
<1>4. ForgottenFirst' /\ TokensAreIssued'
  BY <1>1, <1>2 DEF ForgottenFirst, TokensAreIssued, At, SessionEnds, tokens
<1>5. ASSUME ~overran'
      PROVE  OneRefresher' /\ SavesAreNewer'
  <2>1. OneRefresher /\ SavesAreNewer
    BY <1>5 DEF Inductive, SessionEnds
  <2>2. \A g \in Requests : job[g].step = "save" => job[g].id \in SessionIds
    BY <1>1, JobKind DEF SessionsTypeOK, Jobs, Refreshing
  <2> QED
    BY <1>2, <2>1, <2>2 DEF OneRefresher, SavesAreNewer, At, SessionEnds
<1> QED
  BY <1>3, <1>4, <1>5 DEF Inductive

\* A lock that ends under a refresh sets overran: in the other case nobody needs it.
LEMMA LockEndsStep ==
  ASSUME Inductive, NEW s \in SessionIds, LockEnds(s)
  PROVE  Inductive'
<1>1. SessionsTypeOK /\ ForgottenFirst /\ TokensAreIssued
  BY DEF Inductive
<1>2. overran' \in BOOLEAN
  BY <1>1 DEF SessionsTypeOK, LockEnds
<1>3. SessionsTypeOK'
  BY <1>1, <1>2 DEF SessionsTypeOK, LockEnds, tokens
<1>4. ForgottenFirst' /\ TokensAreIssued'
  BY <1>1 DEF ForgottenFirst, TokensAreIssued, At, LockEnds, tokens
<1>5. ASSUME ~overran'
      PROVE  OneRefresher' /\ SavesAreNewer'
  <2>1. ~overran /\ Refreshers(s) = {}
    BY <1>5 DEF LockEnds
  <2>2. OneRefresher /\ SavesAreNewer
    BY <2>1 DEF Inductive
  <2>3. \A h \in Requests : job[h].step \in UnderLock => job[h].id # s
    BY <2>1 DEF Refreshers, UnderLock
  <2> QED
    BY <2>2, <2>3 DEF OneRefresher, SavesAreNewer, At, LockEnds
<1> QED
  BY <1>3, <1>4, <1>5 DEF Inductive

LEMMA CrashStep ==
  ASSUME Inductive, Crash
  PROVE  Inductive'
<1>1. SessionsTypeOK /\ TokensAreIssued
  BY DEF Inductive
<1>2. \A h \in Requests : job'[h] = Idle
  BY DEF Crash
<1>3. crashes' \in 0..MaxCrashes
  BY <1>1, SessionsAssumption DEF SessionsTypeOK, Crash
<1>4. SessionsTypeOK'
  BY <1>1, <1>3 DEF SessionsTypeOK, Crash, store, tokens
<1> QED
  BY <1>1, <1>2, <1>4 DEF Inductive, ForgottenFirst, TokensAreIssued, OneRefresher,
     SavesAreNewer, UnderLock, At, Idle, Crash, store, tokens

--------------------------------------------------------------------------------
(* The specification *)

LEMMA InitInductive ==
  ASSUME Init
  PROVE  Inductive
<1>1. \A h \in Requests : job[h].step = "idle"
  BY DEF Init, Idle
<1>2. SessionsTypeOK
  <2>1. overran \in BOOLEAN
    BY DEF Init
  <2> QED
    BY <2>1, SessionsAssumption DEF Init, SessionsTypeOK
<1>3. ForgottenFirst /\ TokensAreIssued /\ OneRefresher /\ SavesAreNewer
  BY <1>1 DEF Init, ForgottenFirst, TokensAreIssued, OneRefresher, SavesAreNewer, UnderLock, At
<1> QED
  BY <1>2, <1>3 DEF Inductive

LEMMA NextInductive ==
  ASSUME Inductive, [Next]_vars
  PROVE  Inductive'
<1>1. ASSUME NEW h \in Requests, SignInStep(h) \/ RefreshStep(h)
      PROVE  Inductive'
  BY <1>1, ForgetPendingStep, ExchangeCodeStep, CreateSessionStep, DropExpiredStep,
     AcquireRefreshLockStep, RefreshedTokensStep, SaveRefreshedStep, ReleaseRefreshLockStep,
     RefreshFailsStep, WaitForConcurrentRefreshStep, ServeStep, LogoutStep, RespondStep
     DEF SignInStep, RefreshStep
<1>2. ASSUME Passing
      PROVE  Inductive'
  BY <1>2, PendingEndsStep, ExpiryStep, SessionEndsStep, LockEndsStep, CrashStep DEF Passing
<1>3. ASSUME Next
      PROVE  Inductive'
  BY <1>1, <1>2, <1>3, LoginStep, CallbackStep, FindSessionStep DEF Next
<1>4. ASSUME UNCHANGED vars
      PROVE  Inductive'
  BY <1>4 DEF vars, store, tokens, Inductive, SessionsTypeOK, ForgottenFirst, TokensAreIssued,
     OneRefresher, SavesAreNewer, At
<1> QED
  BY <1>3, <1>4

\* The invariant that the theorems below rest on.
THEOREM SessionsInductive == Spec => []Inductive
BY InitInductive, NextInductive, PTL DEF Spec

\* Keys of Redis, cookies and what requests have in memory are of their types, and a
\* state whose code has been exchanged is never pending again, whichever requests,
\* crashes and ends of keys and tokens there are.
THEOREM SessionTypes == Spec => []SessionsTypeOK
<1>1. Inductive => SessionsTypeOK
  BY DEF Inductive
<1> QED
  BY <1>1, SessionsInductive, PTL

\* A session that has tokens gets only newer ones, for any number of requests and
\* sessions, as long as no lock has ended before the refresh under it.
THEOREM RefreshesMoveForward == Spec => TokensMoveForward
<1> DEFINE Forward ==
      \A s \in SessionIds :
        sessions[s] # None /\ sessions'[s] # None /\ ~overran => sessions'[s] >= sessions[s]
<1>1. ASSUME Inductive, [Next]_vars, NEW s \in SessionIds,
             sessions[s] # None, sessions'[s] # None, ~overran
      PROVE  sessions'[s] >= sessions[s]
  <2>1. SessionsTypeOK /\ SavesAreNewer
    BY <1>1 DEF Inductive
  <2>2. sessions[s] \in Nat
    BY <1>1, <2>1 DEF SessionsTypeOK, Session
  <2>3. CASE sessions'[s] = sessions[s]
    BY <2>2, <2>3
  <2>4. CASE sessions'[s] # sessions[s]
    <3>1. PICK h \in Requests : SaveRefreshed(h)
      BY <1>1, <2>1, <2>4 DEF Next, vars, store, SignInStep, RefreshStep, Passing,
         Login, PendingEnds, Callback, ForgetPending, ExchangeCode, CreateSession, New,
         FindSession, DropExpired, AcquireRefreshLock, Refresh, ReleaseRefreshLock,
         RefreshFails, WaitForConcurrentRefresh, Serve, Logout, Respond, AccessTokenExpires,
         RefreshTokenExpires, SessionEnds, LockEnds, Crash, SessionsTypeOK
    <3>2. job[h].id = s /\ sessions'[s] = job[h].tokens
      BY <1>1, <2>1, <2>4, <3>1 DEF SaveRefreshed, SessionsTypeOK
    <3>3. job[h].tokens \in Nat
      BY <2>1, <3>1, JobKind DEF SaveRefreshed, At, SessionsTypeOK, Jobs, Refreshing, Session
    <3> QED
      BY <1>1, <2>1, <2>2, <3>1, <3>2, <3>3 DEF SavesAreNewer, SaveRefreshed
  <2> QED
    BY <2>3, <2>4
<1>2. Inductive /\ [Next]_vars => [Forward]_vars
  BY <1>1
<1> QED
  BY <1>2, SessionsInductive, PTL DEF Spec, TokensMoveForward

--------------------------------------------------------------------------------
(* The page: the inductive invariant *)

\* Keys are handed out in order.
KeysInOrder ==
  /\ attempt.key <= clicks.keys
  /\ \A o \in Ids : orders[o].paidBy.key <= clicks.keys

\* Only what has not been submitted has no key.
Submitted(a) == a = NoAttempt \/ a.input \in Choices \union {"new"}

AttemptsOK ==
  /\ Submitted(attempt) /\ Submitted(pay.attempt)
  /\ \A o \in Ids : Submitted(orders[o].paidBy)

\* A placed order is there, unpaid until the page for it is shown.
PlacedUnpaid == checkout.step = "placed" => checkout.order \in Ids /\ ~Paid(checkout.order)

\* Another input has a later key; the same one has it only after another input.
Passed(a, b) ==
  \/ b.input # a.input /\ a.key < b.key
  \/ b.input = a.input /\ a.key + 1 < b.key

\* The payment page has an order and no checkout; what is on its way to pay is what was
\* submitted last, and it pays first.
Paying ==
  LET paidBy == orders[payment.order].paidBy IN
  page = "payment" =>
    /\ payment.order \in Ids /\ checkout.step = "idle"
    /\ pay.step # "idle" => pay.attempt = attempt
    /\ attempt = NoAttempt => paidBy = NoAttempt /\ pay.step = "idle"
    /\ pay.step = "refused" => paidBy # NoAttempt /\ paidBy # attempt
    /\ paidBy.input \in Choices => paidBy = attempt \/ Passed(paidBy, attempt)

PaymentSound == KeysInOrder /\ AttemptsOK /\ PlacedUnpaid /\ Paying

StoreInductive == StoreTypeOK /\ PaymentSound

--------------------------------------------------------------------------------
(* Types, part by part *)

CustomerOK ==
  /\ user \in Users \union {Nil} /\ visits \in 0..MaxVisits
  /\ clicks \in [adds : 0..MaxAdds, selections : 0..MaxSelections, keys : 0..MaxKeys]
  /\ losses \in 0..MaxLosses

ServerOK == carts \in [Ids -> Cart] /\ orders \in [Ids -> Order]

AddOK ==
  /\ stored \in Handle /\ add \in [Cards -> Call] /\ fetch \in Call
  /\ view \in [cart : Handle, items : SUBSET Cards]

SummaryOK ==
  /\ summary \in [ready : BOOLEAN, address : Addresses \union {Nil}, estimate : Quote]
  /\ estimate \in [Estimates -> [step : {"idle", "sent", "quoted"}, quote : Quote]]

Checkouts ==
  [step : {"idle", "sent", "placed", "expired", "refused", "notFound"},
   cart : Handle, address : Addresses \union {Nil}, quote : Quote, order : Handle,
   live : BOOLEAN]

PaymentOK ==
  /\ page \in {"shop", "cart", "payment"}
  /\ payment \in [order : Handle, status : {"none", "CREATED", "PAID"}]
  /\ pay \in [step : {"idle", "sent", "paid", "refused"}, attempt : Attempt]
  /\ attempt \in Attempt
  /\ page = "payment" <=> payment # NoPayment
  /\ page # "payment" => pay = NoPay /\ attempt = NoAttempt

\* The type invariant, part by part.
LEMMA TypeParts ==
  StoreTypeOK <=> /\ CustomerOK /\ ServerOK /\ AddOK /\ SummaryOK
                  /\ checkout \in Checkouts /\ PaymentOK
BY DEF StoreTypeOK, CustomerOK, ServerOK, AddOK, SummaryOK, Checkouts, PaymentOK

\* The same of the next state.
LEMMA TypePartsNext ==
  StoreTypeOK' <=> /\ CustomerOK' /\ ServerOK' /\ AddOK' /\ SummaryOK'
              /\ checkout' \in Checkouts /\ PaymentOK'
BY DEF StoreTypeOK, CustomerOK, ServerOK, AddOK, SummaryOK, Checkouts, PaymentOK

\* What is not there is of its type, too.
LEMMA Nothing ==
  /\ 0 \in Handle /\ NoCart \in Cart /\ NoOrder \in Order /\ NoAttempt \in Attempt
  /\ Rest \in Call /\ NoQuote \in Quote /\ NoCheckout \in Checkouts
  /\ NoView \in [cart : Handle, items : SUBSET Cards]
  /\ Blank \in [ready : BOOLEAN, address : Addresses \union {Nil}, estimate : Quote]
  /\ NoEstimate \in [step : {"idle", "sent", "quoted"}, quote : Quote]
  /\ NoPayment \in [order : Handle, status : {"none", "CREATED", "PAID"}]
  /\ NoPay \in [step : {"idle", "sent", "paid", "refused"}, attempt : Attempt]
BY DEF Handle, Cart, Order, Attempt, Call, Quote, Checkouts, NoCart, NoOrder, NoAttempt, Rest,
       NoQuote, NoCheckout, NoView, Blank, NoEstimate, NoPayment, NoPay

\* A choice among ids that are there.
LEMMA UnusedIs ==
  ASSUME NEW table, NEW nothing, HasUnused(table, nothing)
  PROVE  Unused(table, nothing) \in Ids /\ table[Unused(table, nothing)] = nothing
BY DEF HasUnused, Unused

\* A step of one card's addItem.
LEMMA GoAddKeeps ==
  ASSUME add \in [Cards -> Call], NEW b \in Cards, NEW c \in Handle, NEW items \in SUBSET Cards,
         NEW step \in {"create", "created", "put", "added", "notFound"}, GoAdd(b, step, c, items)
  PROVE  add' \in [Cards -> Call]
<1>1. [step |-> step, cart |-> c, items |-> items] \in Call
  BY DEF Call
<1> QED
  BY <1>1 DEF GoAdd

\* The summary stays or is gone.
LEMMA KeepSummaryKeeps ==
  ASSUME SummaryOK, KeepSummary
  PROVE  SummaryOK'
BY Nothing DEF SummaryOK, KeepSummary

\* The summary and its checkout, when the summary stays or is gone.
LEMMA KeepCartPageKeeps ==
  ASSUME SummaryOK, checkout \in Checkouts, KeepCartPage
  PROVE  /\ SummaryOK' /\ checkout' \in Checkouts
         /\ checkout'.step = checkout.step /\ checkout'.order = checkout.order
<1>1. (checkout.live /\ Mounted') \in BOOLEAN
  BY DEF Checkouts
<1>2. checkout' = [checkout EXCEPT !.live = @ /\ Mounted']
  BY DEF KeepCartPage
<1> QED
  BY <1>1, <1>2, KeepSummaryKeeps DEF Checkouts, KeepCartPage

\* One more estimate is asked for.
LEMMA EstimateKeeps ==
  ASSUME SummaryOK, stored \in Handle, NEW a \in Addresses \union {Nil},
         EstimateShipping(a)
  PROVE  estimate' \in [Estimates -> [step : {"idle", "sent", "quoted"}, quote : Quote]]
<1>1. [step |-> "sent", quote |-> [cart |-> stored, address |-> a, version |-> 0]]
        \in [step : {"idle", "sent", "quoted"}, quote : Quote]
  BY DEF Quote
<1> QED
  BY <1>1 DEF EstimateShipping, SummaryOK

\* One more call is lost.
LEMMA LoseKeeps ==
  ASSUME losses \in 0..MaxLosses, Lose
  PROVE  losses' \in 0..MaxLosses
BY StorefrontAssumption DEF Lose

--------------------------------------------------------------------------------
(* Payments *)

\* A checkout goes on in the same way or ends.
SameOrder ==
  checkout'.step = "placed" => checkout.step = "placed" /\ checkout'.order = checkout.order

SameCheckout ==
  /\ SameOrder
  /\ checkout'.step # "idle" => checkout.step # "idle"

\* Steps that have nothing to do with a payment.
LEMMA PaymentStays ==
  ASSUME PaymentSound, SameCheckout, clicks'.keys = clicks.keys,
         UNCHANGED <<orders, page, payment, pay, attempt>>
  PROVE  PaymentSound'
<1> USE DEF PaymentSound
<1>1. KeysInOrder' /\ AttemptsOK'
  BY DEF KeysInOrder, AttemptsOK, Submitted
<1>2. PlacedUnpaid'
  BY DEF PlacedUnpaid, SameCheckout, SameOrder, Paid
<1>3. Paying'
  BY DEF Paying, SameCheckout
<1> QED
  BY <1>1, <1>2, <1>3

\* The page for a payment is not shown any more, or was not shown.
LEMMA PaymentLeft ==
  ASSUME PaymentSound, SameOrder, clicks'.keys = clicks.keys, UNCHANGED orders,
         clicks.keys \in Nat,
         page' # "payment", attempt' \in {attempt, NoAttempt}, pay' \in {pay, NoPay}
  PROVE  PaymentSound'
<1> USE DEF PaymentSound
<1>1. KeysInOrder' /\ AttemptsOK'
  BY DEF KeysInOrder, AttemptsOK, Submitted, NoAttempt, NoPay
<1>2. PlacedUnpaid'
  BY DEF PlacedUnpaid, SameCheckout, SameOrder, Paid
<1>3. Paying'
  BY DEF Paying
<1> QED
  BY <1>1, <1>2, <1>3

--------------------------------------------------------------------------------
(* Steps *)

\* What is left alone keeps its type.
LEMMA PartsStay ==
  ASSUME StoreTypeOK
  PROVE  /\ UNCHANGED <<user, visits, clicks, losses>> => CustomerOK'
         /\ UNCHANGED serverVars => ServerOK'
         /\ UNCHANGED <<stored, add, fetch, view>> => AddOK'
         /\ UNCHANGED <<summary, estimate>> => SummaryOK'
         /\ UNCHANGED checkout => checkout' \in Checkouts
         /\ UNCHANGED <<page, payment, pay, attempt>> => PaymentOK'
BY DEF StoreTypeOK, CustomerOK, ServerOK, AddOK, SummaryOK, Checkouts, PaymentOK, serverVars

\* What a step has to keep.
LEMMA StepKeeps ==
  ASSUME CustomerOK', ServerOK', AddOK', SummaryOK', checkout' \in Checkouts, PaymentOK',
         PaymentSound'
  PROVE  StoreInductive'
BY TypePartsNext DEF StoreInductive

\* Opening the cart page keeps the invariant.
LEMMA OpenCartKeeps ==
  ASSUME StoreInductive, OpenCart
  PROVE  StoreInductive'
<1> USE DEF OpenCart, cartPageVars, paymentVars
<1>1. StoreTypeOK /\ PaymentSound /\ clicks.keys \in Nat
  BY StorefrontAssumption DEF StoreInductive, StoreTypeOK
<1>2. CustomerOK' /\ ServerOK' /\ AddOK' /\ SummaryOK' /\ checkout' \in Checkouts
  BY <1>1, PartsStay
<1>3. PaymentOK'
  BY <1>1, TypeParts DEF PaymentOK
<1>4. PaymentSound'
  BY <1>1, PaymentLeft DEF SameOrder, serverVars
<1> QED
  BY <1>2, <1>3, <1>4, StepKeeps

\* Leaving the cart or the payment page keeps the invariant.
LEMMA LeaveCartKeeps ==
  ASSUME StoreInductive, LeaveCart
  PROVE  StoreInductive'
<1> USE DEF LeaveCart, DropPayment
<1>1. StoreTypeOK /\ PaymentSound /\ clicks.keys \in Nat
  BY StorefrontAssumption DEF StoreInductive, StoreTypeOK
<1>2. CustomerOK' /\ ServerOK' /\ AddOK'
  BY <1>1, PartsStay
<1>3. SummaryOK' /\ checkout' \in Checkouts
      /\ checkout'.step = checkout.step /\ checkout'.order = checkout.order
  BY <1>1, TypeParts, KeepCartPageKeeps
<1>4. PaymentOK'
  BY Nothing DEF PaymentOK
<1>5. PaymentSound'
  BY <1>1, <1>3, PaymentLeft DEF SameOrder, serverVars
<1> QED
  BY <1>2, <1>3, <1>4, <1>5, StepKeeps

\* A navigation keeps the invariant.
LEMMA NavigateKeeps ==
  ASSUME StoreInductive, Navigate, user' \in Users \union {Nil}, visits' \in 0..MaxVisits,
         stored' \in Handle
  PROVE  StoreInductive'
<1> USE DEF Navigate, DropPayment
<1>1. StoreTypeOK /\ PaymentSound /\ clicks.keys \in Nat
  BY StorefrontAssumption DEF StoreInductive, StoreTypeOK
<1>2. CustomerOK' /\ ServerOK'
  BY <1>1, TypeParts, PartsStay DEF CustomerOK
<1>3. AddOK' /\ SummaryOK' /\ checkout' \in Checkouts /\ PaymentOK'
  BY Nothing DEF AddOK, SummaryOK, PaymentOK
<1>4. PaymentSound'
  BY <1>1, PaymentLeft DEF SameOrder, NoCheckout, serverVars
<1> QED
  BY <1>2, <1>3, <1>4, StepKeeps

\* Signing out and in keeps the invariant.
LEMMA SignKeeps ==
  ASSUME StoreInductive, SignOut \/ \E u \in Users : SignIn(u)
  PROVE  StoreInductive'
<1>1. user \in Users \union {Nil} /\ visits \in 0..MaxVisits /\ stored \in Handle
  BY DEF StoreInductive, StoreTypeOK
<1>2. CASE SignOut
  BY <1>1, <1>2, NavigateKeeps, Nothing DEF SignOut
<1>3. ASSUME NEW u \in Users, SignIn(u) PROVE StoreInductive'
  <2>1. visits' \in 0..MaxVisits
    BY <1>1, <1>3, StorefrontAssumption DEF SignIn
  <2> QED
    BY <1>1, <1>3, <2>1, NavigateKeeps DEF SignIn
<1> QED
  BY <1>2, <1>3

\* Steps that have nothing to do with payments, and change the cart and what is shown.
LEMMA ShopStepKeeps ==
  ASSUME StoreInductive, CustomerOK', carts' \in [Ids -> Cart], AddOK', SummaryOK',
         clicks'.keys = clicks.keys, UNCHANGED checkout \/ KeepCartPage,
         UNCHANGED <<orders, page, payment, pay, attempt>>
  PROVE  StoreInductive'
<1>1. StoreTypeOK /\ PaymentSound
  BY DEF StoreInductive
<1>2. ServerOK' /\ PaymentOK'
  BY <1>1, TypeParts, PartsStay DEF ServerOK
<1>3. /\ checkout' \in Checkouts
      /\ checkout'.step = checkout.step /\ checkout'.order = checkout.order
  <2>1. SummaryOK /\ checkout \in Checkouts
    BY <1>1, TypeParts
  <2> QED
    BY <2>1, KeepCartPageKeeps
<1>4. PaymentSound'
  BY <1>1, <1>3, PaymentStays DEF SameCheckout, SameOrder
<1> QED
  BY <1>2, <1>3, <1>4, StepKeeps

\* A click on a product card keeps the invariant.
LEMMA ClickAddKeeps ==
  ASSUME StoreInductive, NEW b \in Cards, ClickAdd(b)
  PROVE  StoreInductive'
<1> USE DEF ClickAdd, cartPageVars, paymentVars, serverVars
<1>1. StoreTypeOK /\ CustomerOK /\ ServerOK /\ AddOK
  BY TypeParts DEF StoreInductive
<1>2. CustomerOK' /\ clicks'.keys = clicks.keys
  BY <1>1, StorefrontAssumption DEF CustomerOK
<1>3. add' \in [Cards -> Call]
  BY <1>1, GoAddKeeps, Nothing DEF AddOK
<1>4. AddOK'
  BY <1>1, <1>3 DEF AddOK
<1>5. SummaryOK' /\ carts' \in [Ids -> Cart]
  BY <1>1, PartsStay DEF ServerOK
<1> QED
  BY <1>2, <1>4, <1>5, ShopStepKeeps

\* Serving the call of a product card keeps the invariant.
LEMMA ServeAddKeeps ==
  ASSUME StoreInductive, NEW b \in Cards, ServeCreate(b) \/ ServePut(b)
  PROVE  StoreInductive'
<1> USE DEF cartPageVars, paymentVars
<1>1. StoreTypeOK /\ ServerOK /\ AddOK /\ user \in Users \union {Nil}
  BY TypeParts DEF StoreInductive, CustomerOK
<1>2. add[b] \in Call
  BY <1>1 DEF AddOK
<1>3. carts' \in [Ids -> Cart] /\ add' \in [Cards -> Call]
  <2>1. CASE ServeCreate(b)
    <3> DEFINE c == Unused(carts, NoCart)
    <3>1. c \in Ids /\ c \in Handle
      BY <2>1, UnusedIs DEF ServeCreate, Handle
    <3>2. [owner |-> user, items |-> {}, version |-> 1] \in Cart
      BY <1>1 DEF Cart
    <3>3. carts' = [carts EXCEPT ![c] = [owner |-> user, items |-> {}, version |-> 1]]
          /\ GoAdd(b, "created", c, {})
      BY <2>1 DEF ServeCreate
    <3> HIDE DEF c
    <3> QED
      BY <1>1, <3>1, <3>2, <3>3, GoAddKeeps DEF ServerOK, AddOK
  <2>2. CASE ServePut(b)
    <3> DEFINE c == add[b].cart
    <3>1. c \in Handle
      BY <1>2 DEF Call
    <3>2. CASE Owned(c)
      <4>1. c \in Ids /\ carts[c] \in Cart
        BY <1>1, <3>1, <3>2 DEF Owned, Handle, ServerOK
      <4>2. carts' = [carts EXCEPT ![c].items = @ \union {b}, ![c].version = @ + 1]
            /\ GoAdd(b, "added", c, carts'[c].items)
        BY <2>2, <3>2 DEF ServePut
      <4> HIDE DEF c
      <4>3. carts' \in [Ids -> Cart]
        BY <1>1, <4>1, <4>2 DEF ServerOK, Cart
      <4>4. carts'[c].items \in SUBSET Cards
        BY <4>1, <4>3 DEF Cart
      <4> QED
        BY <1>1, <3>1, <4>2, <4>3, <4>4, GoAddKeeps DEF AddOK
    <3>3. CASE ~Owned(c)
      <4>1. GoAdd(b, "notFound", c, {}) /\ UNCHANGED carts
        BY <2>2, <3>3 DEF ServePut
      <4> HIDE DEF c
      <4> QED
        BY <1>1, <3>1, <4>1, GoAddKeeps DEF ServerOK, AddOK
    <3> QED
      BY <3>2, <3>3
  <2> QED
    BY <2>1, <2>2
<1>4. /\ UNCHANGED <<user, visits, stored, orders, view, fetch, page, cartPageVars,
                     paymentVars, clicks, losses>>
  BY DEF ServeCreate, ServePut
<1>5. AddOK'
  BY <1>1, <1>3, <1>4 DEF AddOK
<1>6. CustomerOK' /\ SummaryOK'
  BY <1>1, <1>4, PartsStay
<1> QED
  BY <1>3, <1>4, <1>5, <1>6, ShopStepKeeps

\* The answer to a product card keeps the invariant.
LEMMA AnswerAddKeeps ==
  ASSUME StoreInductive, NEW b \in Cards, AnswerAdd(b)
  PROVE  StoreInductive'
<1> USE DEF paymentVars, serverVars
<1>1. StoreTypeOK /\ ServerOK /\ AddOK /\ SummaryOK
  BY TypeParts DEF StoreInductive
<1>2. add[b].cart \in Handle /\ add[b].items \in SUBSET Cards
  BY <1>1 DEF AddOK, Call
<1>3. /\ UNCHANGED <<user, visits, serverVars, fetch, page, paymentVars, clicks, losses>>
      /\ KeepCartPage
  BY DEF AnswerAdd, AnswerCreate, AnswerAdded, AnswerNotFound
<1>4. add' \in [Cards -> Call]
  <2>1. CASE AnswerCreate(b)
    BY <1>1, <1>2, <2>1, GoAddKeeps DEF AnswerCreate, AddOK
  <2>2. CASE AnswerAdded(b)
    BY <1>1, <2>2, Nothing DEF AnswerAdded, AddOK
  <2>3. CASE AnswerNotFound(b)
    BY <1>1, <2>3, GoAddKeeps, Nothing DEF AnswerNotFound, AddOK
  <2> QED
    BY <2>1, <2>2, <2>3 DEF AnswerAdd
<1>5. stored' \in Handle /\ view' \in [cart : Handle, items : SUBSET Cards]
  BY <1>2, Nothing
     DEF AnswerAdd, AnswerCreate, AnswerAdded, AnswerNotFound, SetCart, ClearCartId
<1>6. AddOK'
  BY <1>1, <1>3, <1>4, <1>5 DEF AddOK
<1>7. CustomerOK' /\ SummaryOK' /\ carts' \in [Ids -> Cart]
  BY <1>1, <1>3, PartsStay, KeepSummaryKeeps DEF ServerOK, KeepCartPage
<1> QED
  BY <1>3, <1>6, <1>7, ShopStepKeeps

\* A lost call of a product card keeps the invariant.
LEMMA LoseAddKeeps ==
  ASSUME StoreInductive, NEW b \in Cards, LoseAdd(b)
  PROVE  StoreInductive'
<1> USE DEF LoseAdd, cartPageVars, paymentVars, serverVars
<1>1. StoreTypeOK /\ CustomerOK /\ ServerOK /\ AddOK
  BY TypeParts DEF StoreInductive
<1>2. CustomerOK'
  BY <1>1, LoseKeeps DEF CustomerOK
<1>3. AddOK'
  BY <1>1, Nothing DEF AddOK
<1>4. SummaryOK' /\ carts' \in [Ids -> Cart]
  BY <1>1, PartsStay DEF ServerOK
<1> QED
  BY <1>2, <1>3, <1>4, ShopStepKeeps

\* The cart query keeps the invariant.
LEMMA FetchKeeps ==
  ASSUME StoreInductive, ServeFetch \/ AnswerFetch
  PROVE  StoreInductive'
<1> USE DEF cartPageVars, paymentVars, serverVars
<1>1. StoreTypeOK /\ CustomerOK /\ ServerOK /\ AddOK /\ SummaryOK
  BY TypeParts DEF StoreInductive
<1>2. /\ UNCHANGED <<user, visits, serverVars, add, page, paymentVars, clicks, losses>>
      /\ UNCHANGED checkout \/ KeepCartPage
  BY DEF ServeFetch, AnswerFetch
<1>3. CustomerOK' /\ carts' \in [Ids -> Cart]
  BY <1>1, <1>2, PartsStay DEF ServerOK
<1>4. SummaryOK'
  BY <1>1, PartsStay, KeepSummaryKeeps DEF ServeFetch, AnswerFetch, KeepCartPage
<1>5. AddOK'
  <2>1. CASE ServeFetch
    <3>1. CASE Owned(stored)
      <4>1. stored \in Ids /\ carts[stored] \in Cart
        BY <1>1, <3>1 DEF Owned, Handle, ServerOK, AddOK
      <4>2. fetch' = [step |-> "found", cart |-> stored, items |-> carts[stored].items]
        BY <2>1, <3>1 DEF ServeFetch
      <4>3. fetch' \in Call
        BY <1>1, <4>1, <4>2 DEF Call, Cart, AddOK
      <4> QED
        BY <1>1, <2>1, <4>3 DEF ServeFetch, AddOK
    <3>2. CASE ~Owned(stored)
      BY <1>1, <2>1, <3>2 DEF ServeFetch, AddOK, Call
    <3> QED
      BY <3>1, <3>2
  <2>2. CASE AnswerFetch
    BY <1>1, <2>2, Nothing DEF AnswerFetch, AddOK, ClearCartId, Call
  <2> QED
    BY <2>1, <2>2
<1> QED
  BY <1>2, <1>3, <1>4, <1>5, ShopStepKeeps

\* Selecting an address keeps the invariant.
LEMMA SelectKeeps ==
  ASSUME StoreInductive,
         SelectDefault \/ SelectAgain \/ \E a \in Addresses : ChangeAddress(a)
  PROVE  StoreInductive'
<1> USE DEF paymentVars, serverVars
<1>1. StoreTypeOK /\ CustomerOK /\ ServerOK /\ AddOK /\ SummaryOK
  BY TypeParts DEF StoreInductive
<1>2. /\ UNCHANGED <<user, visits, stored, serverVars, add, view, fetch, page, checkout,
                     paymentVars, losses>>
  BY DEF SelectDefault, SelectAgain, ChangeAddress, SelectAddress
<1>3. AddOK' /\ carts' \in [Ids -> Cart]
  BY <1>1, <1>2, PartsStay DEF ServerOK
<1>4. CustomerOK' /\ clicks'.keys = clicks.keys
  BY <1>1, <1>2, StorefrontAssumption DEF CustomerOK, SelectDefault, SelectAgain, ChangeAddress
<1>5. SummaryOK'
  <2>1. ASSUME NEW a \in Addresses, SelectAddress(a) PROVE SummaryOK'
    <3>1. estimate' \in [Estimates -> [step : {"idle", "sent", "quoted"}, quote : Quote]]
      BY <1>1, <2>1, EstimateKeeps DEF SelectAddress, AddOK
    <3> QED
      BY <1>1, <2>1, <3>1, Nothing DEF SelectAddress, SummaryOK
  <2>2. CASE SelectDefault
    <3>1. estimate' \in [Estimates -> [step : {"idle", "sent", "quoted"}, quote : Quote]]
      <4>1. CASE DefaultAddress # Nil
        BY <1>1, <2>2, <4>1, EstimateKeeps, StorefrontAssumption DEF SelectDefault, AddOK
      <4>2. CASE DefaultAddress = Nil
        BY <1>1, <2>2, <4>2 DEF SelectDefault, SummaryOK
      <4> QED
        BY <4>1, <4>2
    <3> QED
      BY <1>1, <2>2, <3>1, StorefrontAssumption DEF SelectDefault, SummaryOK
  <2> QED
    BY <2>1, <2>2 DEF SelectAgain, ChangeAddress
<1> QED
  BY <1>2, <1>3, <1>4, <1>5, ShopStepKeeps

\* The service and the page handling an estimate keep the invariant, and so does its loss.
LEMMA EstimateStepKeeps ==
  ASSUME StoreInductive, NEW e \in Estimates,
         ServeEstimate(e) \/ AnswerEstimate(e) \/ LoseEstimate(e)
  PROVE  StoreInductive'
<1> USE DEF paymentVars, serverVars
<1>1. StoreTypeOK /\ CustomerOK /\ ServerOK /\ AddOK /\ SummaryOK
  BY TypeParts DEF StoreInductive
<1>2. UNCHANGED <<user, visits, stored, serverVars, add, view, fetch, page, checkout,
                  paymentVars, clicks>>
  BY DEF ServeEstimate, AnswerEstimate, LoseEstimate
<1>3. AddOK' /\ carts' \in [Ids -> Cart]
  BY <1>1, <1>2, PartsStay DEF ServerOK
<1>4. CustomerOK'
  BY <1>1, <1>2, LoseKeeps DEF CustomerOK, ServeEstimate, AnswerEstimate, LoseEstimate
<1>5. estimate[e].quote \in Quote
  BY <1>1 DEF SummaryOK
<1>6. SummaryOK'
  <2>1. CASE ServeEstimate(e)
    <3> DEFINE q == estimate[e].quote
               answer == IF Owned(q.cart)
                         THEN [step |-> "quoted", quote |-> [q EXCEPT !.version = carts[q.cart].version]]
                         ELSE NoEstimate
    <3>1. answer \in [step : {"idle", "sent", "quoted"}, quote : Quote]
      <4>1. CASE Owned(q.cart)
        <5>1. q.cart \in Ids /\ carts[q.cart].version \in Nat
          BY <1>1, <1>5, <4>1 DEF Owned, Quote, Handle, ServerOK, Cart
        <5>2. [q EXCEPT !.version = carts[q.cart].version] \in Quote
          BY <1>5, <5>1 DEF Quote
        <5> QED
          BY <4>1, <5>2
      <4> QED
        BY <4>1, Nothing
    <3>2. estimate' = [estimate EXCEPT ![e] = answer] /\ UNCHANGED summary
      BY <2>1 DEF ServeEstimate
    <3> HIDE DEF answer
    <3> QED
      BY <1>1, <3>1, <3>2 DEF SummaryOK
  <2>2. CASE AnswerEstimate(e)
    BY <1>1, <1>5, <2>2, Nothing DEF AnswerEstimate, SummaryOK
  <2>3. CASE LoseEstimate(e)
    BY <1>1, <2>3, Nothing DEF LoseEstimate, SummaryOK
  <2> QED
    BY <2>1, <2>2, <2>3
<1> QED
  BY <1>2, <1>3, <1>4, <1>6, ShopStepKeeps

\* A click on checkout keeps the invariant.
LEMMA ClickCheckoutKeeps ==
  ASSUME StoreInductive, ClickCheckout
  PROVE  StoreInductive'
<1> USE DEF ClickCheckout, paymentVars, serverVars
<1>1. StoreTypeOK /\ PaymentSound /\ AddOK /\ SummaryOK /\ clicks.keys \in Nat
  BY TypeParts, StorefrontAssumption DEF StoreInductive, CustomerOK
<1>2. CustomerOK' /\ ServerOK' /\ AddOK' /\ SummaryOK' /\ PaymentOK'
  BY <1>1, PartsStay
<1>3. checkout' \in Checkouts
  BY <1>1, Nothing DEF AddOK, SummaryOK, Checkouts
<1>4. PaymentSound'
  BY <1>1, PaymentLeft DEF SameOrder, Mounted
<1> QED
  BY <1>2, <1>3, <1>4, StepKeeps

\* While a checkout runs the page for a payment is not shown.
LEMMA NotYetPaying ==
  ASSUME StoreInductive, checkout.step # "idle"
  PROVE  page # "payment" /\ pay = NoPay /\ attempt = NoAttempt /\ payment = NoPayment
BY DEF StoreInductive, StoreTypeOK, PaymentSound, Paying

\* The service refusing a checkout keeps the invariant.
LEMMA RefuseCheckoutKeeps ==
  ASSUME StoreInductive, ServeCheckout, UNCHANGED <<carts, orders>>,
         losses' = losses \/ Lose,
         NEW step \in {"notFound", "refused", "expired"},
         checkout' = [checkout EXCEPT !.step = step]
  PROVE  StoreInductive'
<1> USE DEF ServeCheckout, paymentVars
<1>1. StoreTypeOK /\ PaymentSound /\ CustomerOK /\ checkout \in Checkouts /\ clicks.keys \in Nat
  BY TypeParts, StorefrontAssumption DEF StoreInductive, CustomerOK
<1>2. ServerOK' /\ AddOK' /\ SummaryOK' /\ PaymentOK'
  BY <1>1, PartsStay DEF serverVars
<1>3. CustomerOK'
  BY <1>1, LoseKeeps DEF CustomerOK
<1>4. checkout' \in Checkouts /\ checkout'.step = step
  BY <1>1 DEF Checkouts
<1>5. PaymentSound'
  BY <1>1, <1>4, NotYetPaying, PaymentLeft DEF SameOrder
<1> QED
  BY <1>2, <1>3, <1>4, <1>5, StepKeeps

\* The service placing an order keeps the invariant: nobody has paid it.
LEMMA PlaceOrderKeeps ==
  ASSUME StoreInductive, NEW c \in Handle, NEW o, c = checkout.cart, o = Unused(orders, NoOrder),
         checkout.step = "sent", Owned(c), HasUnused(orders, NoOrder),
         orders' = [orders EXCEPT ![o] =
           [cart |-> c, quote |-> checkout.quote, items |-> carts[c].items, paidBy |-> NoAttempt]],
         carts' = [carts EXCEPT ![c].items = {}, ![c].version = @ + 1],
         checkout' = [checkout EXCEPT !.step = "placed", !.order = o],
         UNCHANGED <<user, visits, stored, add, view, fetch, page, summary, estimate,
                     paymentVars, clicks, losses>>
  PROVE  StoreInductive'
<1> USE DEF paymentVars
<1>1. StoreTypeOK /\ PaymentSound /\ CustomerOK /\ ServerOK /\ checkout \in Checkouts
  BY TypeParts DEF StoreInductive
<1>2. o \in Ids /\ o \in Handle /\ c \in Ids /\ carts[c] \in Cart
  BY <1>1, UnusedIs DEF Owned, Handle, ServerOK
<1>3. CustomerOK' /\ AddOK' /\ SummaryOK' /\ PaymentOK'
  BY <1>1, PartsStay
<1>4. checkout' \in Checkouts /\ checkout'.order = o /\ checkout'.step = "placed"
  BY <1>1, <1>2 DEF Checkouts
<1>5. [cart |-> c, quote |-> checkout.quote, items |-> carts[c].items, paidBy |-> NoAttempt] \in Order
  BY <1>1, <1>2, Nothing DEF Order, Checkouts, Cart
<1>6. ServerOK'
  <2>1. carts' \in [Ids -> Cart]
    BY <1>1, <1>2 DEF ServerOK, Cart
  <2> QED
    BY <1>1, <1>5, <2>1 DEF ServerOK
<1>7. \A i \in Ids : orders'[i].paidBy \in {orders[i].paidBy, NoAttempt}
  BY <1>1 DEF ServerOK
<1>8. PaymentSound'
  <2>1. KeysInOrder' /\ AttemptsOK'
    <3>1. clicks.keys \in Nat
      BY <1>1, StorefrontAssumption DEF CustomerOK
    <3> QED
      BY <1>1, <1>7, <3>1 DEF PaymentSound, KeysInOrder, AttemptsOK, Submitted, NoAttempt
  <2>2. PlacedUnpaid'
    BY <1>1, <1>2, <1>4 DEF PlacedUnpaid, Paid, ServerOK
  <2>3. Paying'
    BY NotYetPaying DEF Paying
  <2> QED
    BY <2>1, <2>2, <2>3 DEF PaymentSound
<1> QED
  BY <1>3, <1>4, <1>6, <1>8, StepKeeps

\* The service handling a checkout keeps the invariant.
LEMMA ServeCheckoutKeeps ==
  ASSUME StoreInductive, ServeCheckout
  PROVE  StoreInductive'
<1>1. checkout.cart \in Handle
  BY TypeParts DEF StoreInductive, Checkouts
<1>2. CASE UNCHANGED <<carts, orders>> /\ (losses' = losses \/ Lose)
           /\ \E step \in {"notFound", "refused", "expired"} : checkout' = [checkout EXCEPT !.step = step]
  BY <1>2, RefuseCheckoutKeeps
<1>3. CASE ~(UNCHANGED <<carts, orders>> /\ (losses' = losses \/ Lose)
             /\ \E step \in {"notFound", "refused", "expired"} : checkout' = [checkout EXCEPT !.step = step])
  BY <1>1, <1>3, PlaceOrderKeeps DEF ServeCheckout
<1> QED
  BY <1>2, <1>3

\* The answer to a checkout that has placed an order keeps the invariant: the page for
\* the payment shows an order that nobody has paid.
LEMMA AnswerPlacedKeeps ==
  ASSUME StoreInductive, AnswerPlaced
  PROVE  StoreInductive'
<1> USE DEF AnswerPlaced
<1>1. StoreTypeOK /\ PaymentSound /\ AddOK /\ SummaryOK /\ PaymentOK /\ checkout \in Checkouts
      /\ clicks.keys \in Nat
  BY TypeParts, StorefrontAssumption DEF StoreInductive, CustomerOK
<1>2. CustomerOK' /\ ServerOK' /\ SummaryOK'
  BY <1>1, PartsStay, KeepSummaryKeeps
<1>3. AddOK'
  BY <1>1 DEF AddOK, SetCart, Checkouts
<1>4. checkout' \in Checkouts /\ checkout'.step = "idle"
  BY Nothing DEF NoCheckout
<1>5. page # "payment" /\ pay = NoPay /\ attempt = NoAttempt /\ payment = NoPayment
  BY NotYetPaying
<1>6. checkout.order \in Ids /\ orders[checkout.order].paidBy = NoAttempt
  BY <1>1 DEF PaymentSound, PlacedUnpaid, Paid
<1>7. PaymentOK' /\ PaymentSound'
  <2>1. CASE checkout.live
    <3>1. page' = "payment" /\ payment' = [order |-> checkout.order, status |-> "none"]
      BY <2>1
    <3>2. payment'.order = checkout.order /\ payment' # NoPayment
      BY <1>6, <3>1, StorefrontAssumption DEF NoPayment, Ids
    <3>3. PaymentOK'
      BY <1>1, <1>5, <1>6, <3>1, <3>2 DEF PaymentOK, Handle
    <3>4. KeysInOrder' /\ AttemptsOK'
      BY <1>1 DEF PaymentSound, KeysInOrder, AttemptsOK, serverVars
    <3>5. PlacedUnpaid' /\ Paying'
      BY <1>4, <1>5, <1>6, <3>2 DEF PlacedUnpaid, Paying, NoPay, NoAttempt, serverVars
    <3> QED
      BY <3>3, <3>4, <3>5 DEF PaymentSound
  <2>2. CASE ~checkout.live
    <3>1. PaymentOK'
      BY <1>1, <2>2 DEF PaymentOK
    <3>2. PaymentSound'
      BY <1>1, <1>4, <2>2, PaymentStays DEF SameCheckout, SameOrder, serverVars
    <3> QED
      BY <3>1, <3>2
  <2> QED
    BY <2>1, <2>2
<1> QED
  BY <1>2, <1>3, <1>4, <1>7, StepKeeps

\* A checkout that ends without an order keeps the invariant.
LEMMA EndCheckoutKeeps ==
  ASSUME StoreInductive, AnswerExpired \/ AnswerRefused \/ LoseCheckout
  PROVE  StoreInductive'
<1> USE DEF paymentVars
<1>1. StoreTypeOK /\ PaymentSound /\ CustomerOK /\ AddOK /\ SummaryOK /\ checkout \in Checkouts
  BY TypeParts DEF StoreInductive
<1>2. /\ UNCHANGED <<user, visits, serverVars, add, fetch, page, paymentVars, clicks>>
      /\ checkout' = NoCheckout
  BY DEF AnswerExpired, AnswerRefused, LoseCheckout
<1>3. ServerOK' /\ PaymentOK' /\ checkout' \in Checkouts
  BY <1>1, <1>2, PartsStay, Nothing
<1>4. CustomerOK'
  BY <1>1, <1>2, LoseKeeps DEF CustomerOK, AnswerExpired, AnswerRefused, LoseCheckout
<1>5. AddOK'
  BY <1>1, <1>2, Nothing DEF AddOK, AnswerExpired, AnswerRefused, LoseCheckout, ClearCartId
<1>6. SummaryOK'
  <2>1. CASE AnswerExpired
    <3>1. CASE checkout.live
      <4>1. checkout.address \in Addresses \union {Nil}
        BY <1>1 DEF Checkouts
      <4>2. estimate' \in [Estimates -> [step : {"idle", "sent", "quoted"}, quote : Quote]]
        BY <1>1, <2>1, <3>1, <4>1, EstimateKeeps DEF AnswerExpired, AddOK
      <4> QED
        BY <1>1, <2>1, <4>2 DEF AnswerExpired, SummaryOK
    <3>2. CASE ~checkout.live
      BY <1>1, <2>1, <3>2, PartsStay DEF AnswerExpired
    <3> QED
      BY <3>1, <3>2
  <2>2. CASE AnswerRefused \/ LoseCheckout
    BY <1>1, <2>2, PartsStay, KeepSummaryKeeps DEF AnswerRefused, LoseCheckout
  <2> QED
    BY <2>1, <2>2
<1>7. PaymentSound'
  BY <1>1, <1>2, PaymentStays DEF SameCheckout, SameOrder, NoCheckout, serverVars
<1> QED
  BY <1>3, <1>4, <1>5, <1>6, <1>7, StepKeeps

\* Steps on the payment page change nothing else.
LEMMA PaymentStepKeeps ==
  ASSUME StoreInductive, CustomerOK', orders' \in [Ids -> Order], PaymentOK', PaymentSound',
         UNCHANGED <<stored, carts, add, view, fetch, cartPageVars>>
  PROVE  StoreInductive'
<1>1. StoreTypeOK /\ ServerOK
  BY TypeParts DEF StoreInductive
<1>2. AddOK' /\ SummaryOK' /\ checkout' \in Checkouts /\ ServerOK'
  BY <1>1, PartsStay DEF cartPageVars, ServerOK
<1> QED
  BY <1>2, StepKeeps

\* Reading the status of the order keeps the invariant.
LEMMA FetchOrderKeeps ==
  ASSUME StoreInductive, FetchOrder
  PROVE  StoreInductive'
<1> USE DEF FetchOrder, serverVars
<1>1. StoreTypeOK /\ PaymentSound /\ ServerOK /\ PaymentOK
  BY TypeParts DEF StoreInductive
<1>2. CustomerOK' /\ orders' \in [Ids -> Order]
  BY <1>1, PartsStay DEF ServerOK
<1>3. payment'.order = payment.order /\ payment' # NoPayment
      /\ payment' \in [order : Handle, status : {"none", "CREATED", "PAID"}]
  BY <1>1 DEF PaymentOK, NoPayment
<1>4. PaymentOK'
  BY <1>1, <1>3 DEF PaymentOK
<1>5. PaymentSound'
  BY <1>1, <1>3 DEF PaymentSound, KeysInOrder, AttemptsOK, PlacedUnpaid, Paid, Paying, cartPageVars
<1> QED
  BY <1>2, <1>4, <1>5, PaymentStepKeeps

\* Submitting a card keeps the invariant: the key is the one of the last submission or
\* comes after every key there is.
LEMMA SubmitCardKeeps ==
  ASSUME StoreInductive, NEW input \in Choices \union {"new"}, SubmitCard(input)
  PROVE  StoreInductive'
<1> USE DEF SubmitCard, serverVars
<1>1. /\ StoreTypeOK /\ PaymentSound /\ CustomerOK /\ ServerOK /\ PaymentOK
      /\ clicks.keys \in Nat /\ attempt \in Attempt
  BY TypeParts, StorefrontAssumption DEF StoreInductive, CustomerOK, PaymentOK
<1>2. KeysInOrder /\ AttemptsOK /\ PlacedUnpaid /\ Paying
  BY <1>1 DEF PaymentSound
<1>3. \/ attempt' = attempt /\ attempt.input = input
      \/ /\ attempt' = [input |-> input, key |-> clicks.keys + 1]
         /\ input \in Choices => attempt.input # input
  BY DEF AttemptFor
<1>4. attempt' \in Attempt /\ attempt'.input = input /\ attempt'.key <= MaxKeys
  BY <1>1, <1>3 DEF AttemptFor, Attempt
<1>5. orders' \in [Ids -> Order] /\ pay' = [step |-> "sent", attempt |-> attempt']
  BY <1>1 DEF ServerOK
<1>6. CustomerOK' /\ clicks'.keys \in Nat
      /\ clicks.keys <= clicks'.keys /\ attempt'.key <= clicks'.keys
  <2>1. attempt'.key \in Nat
    BY <1>4 DEF Attempt
  <2> QED
    BY <1>1, <1>4, <2>1, StorefrontAssumption DEF CustomerOK
<1>7. PaymentOK'
  BY <1>1, <1>4, <1>5 DEF PaymentOK
<1>8. \A o \in Ids : orders[o].paidBy \in Attempt
  BY <1>1 DEF ServerOK, Order
<1>9. KeysInOrder'
  BY <1>1, <1>2, <1>6, <1>8 DEF KeysInOrder, Attempt
<1>10. AttemptsOK' /\ PlacedUnpaid'
  BY <1>2, <1>4, <1>5 DEF AttemptsOK, Submitted, PlacedUnpaid, Paid, cartPageVars
<1>11. Paying'
  <2> DEFINE paidBy == orders[payment.order].paidBy
  <2>1. payment.order \in Ids /\ checkout.step = "idle" /\ paidBy \in Attempt
    BY <1>2, <1>8 DEF Paying
  <2>2. paidBy.key <= clicks.keys /\ attempt.key <= clicks.keys
    BY <1>2, <2>1 DEF KeysInOrder
  <2>3. attempt' # NoAttempt
    BY <1>4, StorefrontAssumption DEF NoAttempt
  <2>4. ASSUME paidBy.input \in Choices
        PROVE  paidBy = attempt' \/ Passed(paidBy, attempt')
    <3>1. paidBy = attempt \/ Passed(paidBy, attempt)
      BY <1>2, <2>4 DEF Paying
    <3>2. paidBy.key \in Nat /\ attempt.key \in Nat
      BY <1>1, <2>1 DEF Attempt
    <3>3. CASE attempt' = attempt
      BY <3>1, <3>3
    <3>4. CASE attempt' = [input |-> input, key |-> clicks.keys + 1]
               /\ (input \in Choices => attempt.input # input)
      BY <1>1, <2>2, <2>4, <3>1, <3>2, <3>4 DEF Passed
    <3> QED
      BY <1>3, <3>3, <3>4
  <2> QED
    BY <1>5, <2>1, <2>3, <2>4 DEF Paying, cartPageVars
<1> QED
  BY <1>5, <1>6, <1>7, <1>9, <1>10, <1>11, PaymentStepKeeps DEF PaymentSound

\* The service handling a payment keeps the invariant: the first attempt pays.
LEMMA ServePayKeeps ==
  ASSUME StoreInductive, ServePay
  PROVE  StoreInductive'
<1> DEFINE o == payment.order
<1> USE DEF ServePay
<1>1. /\ StoreTypeOK /\ PaymentSound /\ CustomerOK /\ ServerOK /\ PaymentOK
      /\ pay.attempt \in Attempt
  BY TypeParts DEF StoreInductive, PaymentOK
<1>2. KeysInOrder /\ AttemptsOK /\ PlacedUnpaid /\ Paying
  BY <1>1 DEF PaymentSound
<1>3. page = "payment"
  BY <1>1 DEF PaymentOK, NoPay
<1>4. o \in Ids /\ checkout.step = "idle" /\ pay.attempt = attempt /\ attempt # NoAttempt
  BY <1>2, <1>3 DEF Paying
<1>5. CustomerOK'
  BY <1>1, PartsStay
<1>6. /\ \A i \in Ids \ {o} : orders'[i] = orders[i]
      /\ orders'[o].paidBy = IF Paid(o) THEN orders[o].paidBy ELSE attempt
      /\ orders' \in [Ids -> Order]
  <2>1. CASE Paid(o)
    BY <1>1, <2>1 DEF ServerOK
  <2>2. CASE ~Paid(o)
    BY <1>1, <1>4, <2>2 DEF ServerOK, Order
  <2> QED
    BY <2>1, <2>2
<1>7. /\ pay'.step \in {"paid", "refused"} /\ pay'.attempt = attempt
      /\ pay' \in [step : {"idle", "sent", "paid", "refused"}, attempt : Attempt]
      /\ pay'.step = "refused" => orders'[o].paidBy # attempt
  BY <1>1, <1>4 DEF PaymentOK
<1>8. PaymentOK'
  BY <1>1, <1>3, <1>7 DEF PaymentOK
<1>9. KeysInOrder' /\ AttemptsOK' /\ PlacedUnpaid'
  BY <1>2, <1>4, <1>6, <1>7 DEF KeysInOrder, AttemptsOK, PlacedUnpaid, cartPageVars
<1>10. Paying'
  BY <1>2, <1>3, <1>4, <1>6, <1>7 DEF Paying, Paid, cartPageVars
<1> QED
  BY <1>5, <1>6, <1>8, <1>9, <1>10, PaymentStepKeeps DEF PaymentSound

\* The answer to a payment, or its loss, keeps the invariant.
LEMMA AnswerPayKeeps ==
  ASSUME StoreInductive, AnswerPay \/ LosePay
  PROVE  StoreInductive'
<1> USE DEF serverVars
<1>1. StoreTypeOK /\ PaymentSound /\ CustomerOK /\ ServerOK /\ PaymentOK /\ clicks.keys \in Nat
  BY TypeParts, StorefrontAssumption DEF StoreInductive, CustomerOK
<1>2. /\ UNCHANGED <<user, visits, stored, serverVars, add, view, fetch, cartPageVars, clicks>>
      /\ pay' = NoPay /\ pay # NoPay
  BY DEF AnswerPay, LosePay, NoPay
<1>3. CustomerOK' /\ orders' \in [Ids -> Order]
  BY <1>1, <1>2, LoseKeeps DEF CustomerOK, ServerOK, AnswerPay, LosePay
<1>4. page = "payment"
  BY <1>1, <1>2 DEF PaymentOK
<1>5. \/ page' = "shop" /\ payment' = NoPayment /\ attempt' = NoAttempt
      \/ UNCHANGED <<page, payment, attempt>>
  BY DEF AnswerPay, LosePay
<1>6. PaymentOK'
  BY <1>1, <1>2, <1>4, <1>5, Nothing DEF PaymentOK
<1>7. PaymentSound'
  <2>1. CASE page' = "shop" /\ payment' = NoPayment /\ attempt' = NoAttempt
    BY <1>1, <1>2, <2>1, PaymentLeft DEF SameOrder, cartPageVars
  <2>2. CASE UNCHANGED <<page, payment, attempt>>
    <3>1. KeysInOrder' /\ AttemptsOK' /\ PlacedUnpaid'
      BY <1>1, <1>2, <2>2
         DEF PaymentSound, KeysInOrder, AttemptsOK, Submitted, PlacedUnpaid, Paid, NoPay, cartPageVars
    <3>2. Paying'
      BY <1>1, <1>2, <2>2 DEF PaymentSound, Paying, NoPay, cartPageVars
    <3> QED
      BY <3>1, <3>2 DEF PaymentSound
  <2> QED
    BY <1>5, <2>1, <2>2
<1> QED
  BY <1>2, <1>3, <1>6, <1>7, PaymentStepKeeps

--------------------------------------------------------------------------------
(* The theorems *)

\* The invariant holds at the start.
LEMMA StoreInitInductive == StoreInit => StoreInductive
<1> SUFFICES ASSUME StoreInit PROVE StoreInductive
  OBVIOUS
<1> USE DEF StoreInit
<1>1. {MaxAdds, MaxVisits, MaxSelections, MaxKeys, MaxLosses} \subseteq Nat
  BY StorefrontAssumption
<1>2. CustomerOK
  BY <1>1 DEF CustomerOK
<1>3. ServerOK
  <2>1. [NoCart EXCEPT !.owner = Stranger, !.version = 1] \in Cart
    BY DEF NoCart, Cart
  <2> QED
    BY <2>1, Nothing DEF ServerOK
<1>4. AddOK /\ SummaryOK /\ checkout \in Checkouts /\ PaymentOK
  BY <1>1, Nothing DEF AddOK, SummaryOK, PaymentOK, Handle, Ids
<1>5. PaymentSound
  BY DEF PaymentSound, KeysInOrder, AttemptsOK, Submitted, PlacedUnpaid, Paying, NoAttempt, NoPay,
         NoOrder, NoCheckout
<1> QED
  BY <1>2, <1>3, <1>4, <1>5, TypeParts DEF StoreInductive

\* Every step keeps the invariant.
LEMMA StoreNextInductive == StoreInductive /\ [StoreNext]_storeVars => StoreInductive'
<1> SUFFICES ASSUME StoreInductive, [StoreNext]_storeVars PROVE StoreInductive'
  OBVIOUS
<1>1. CASE Click
  BY <1>1, SignKeeps, ClickAddKeeps, OpenCartKeeps, LeaveCartKeeps, SelectKeeps,
     ClickCheckoutKeeps, SubmitCardKeeps DEF Click
<1>2. CASE ServeCall
  BY <1>2, ServeAddKeeps, FetchKeeps, ServeCheckoutKeeps, ServePayKeeps, EstimateStepKeeps
     DEF ServeCall
<1>3. CASE Answer
  BY <1>3, AnswerAddKeeps, EstimateStepKeeps, FetchKeeps, AnswerPlacedKeeps, EndCheckoutKeeps,
     AnswerPayKeeps, SelectKeeps, FetchOrderKeeps DEF Answer, AnswerCheckout
<1>4. CASE Lost
  BY <1>4, LoseAddKeeps, EstimateStepKeeps, EndCheckoutKeeps, AnswerPayKeeps DEF Lost
<1>5. CASE UNCHANGED storeVars
  <2>1. PaymentSound'
    BY <1>5, PaymentStays DEF StoreInductive, SameCheckout, SameOrder, storeVars, paymentVars,
       serverVars, cartPageVars
  <2> QED
    BY <1>5, <2>1 DEF StoreInductive, StoreTypeOK, storeVars
<1> QED
  BY <1>1, <1>2, <1>3, <1>4, <1>5 DEF StoreNext

\* The invariant that the theorems below rest on.
THEOREM StorefrontInductive == StoreSpec => []StoreInductive
BY StoreInitInductive, StoreNextInductive, PTL DEF StoreSpec

\* Whatever is answered late or lost, the page, its mutations and the services hold what
\* they are to hold, and there is a payment on the payment page only.
THEOREM StorefrontTypes == StoreSpec => []StoreTypeOK
<1>1. StoreInductive => StoreTypeOK
  BY DEF StoreInductive
<1> QED
  BY <1>1, StorefrontInductive, PTL

\* A saved card submitted again in as many installments is refused only if something else
\* has paid, or had the key after the one that paid (usePayOrder).
THEOREM RetriesAreRecognised == StoreSpec => []RetryIsRecognised
<1>1. ASSUME StoreInductive PROVE RetryIsRecognised
  <2> DEFINE paidBy == orders[payment.order].paidBy
  <2> SUFFICES ASSUME pay.step = "refused", pay.attempt.input \in Choices,
                      paidBy.input = pay.attempt.input
               PROVE  paidBy.key + 1 < pay.attempt.key
    BY DEF RetryIsRecognised
  <2>1. page = "payment"
    BY <1>1 DEF StoreInductive, StoreTypeOK, NoPay
  <2>2. pay.attempt = attempt /\ paidBy # attempt
    BY <1>1, <2>1 DEF StoreInductive, PaymentSound, Paying
  <2> QED
    BY <1>1, <2>1, <2>2 DEF StoreInductive, PaymentSound, Paying, Passed
<1> QED
  BY <1>1, StorefrontInductive, PTL
====================================================================================
