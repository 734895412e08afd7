-------------------------------- MODULE Sessions --------------------------------
(***************************************************************************)
(* The session of a browser in the bff: signing in through Keycloak, the   *)
(* cookie, and the refresh that every request with a session goes through  *)
(* before it is served.  Requests of one browser run at the same time; the *)
(* one that gets the lock in Redis refreshes the tokens, from the session  *)
(* as it read it before, and the others poll until it has, or give up.     *)
(*                                                                         *)
(* Times are events: an access token comes within the threshold of its     *)
(* end, a refresh token ends, the lock's ten seconds pass, at any time.    *)
(* Tokens are numbered as Keycloak issues them, and end in that order.     *)
(***************************************************************************)
EXTENDS Naturals, FiniteSets

CONSTANTS
  Browsers,
  States,        \* states of authorization requests
  SessionIds,
  None,          \* no session, no cookie
  Requests,      \* slots for the requests that the bff serves at the same time
  MaxTokens,     \* bound on the tokens issued
  MaxTries,      \* REFRESH_LOCK_MAX_RETRIES
  MaxCrashes     \* bound on the times that the bff stops

VARIABLES
  pending,       \* Redis: bff:pending-auth, states and the browsers they are of
  codes,         \* Keycloak: the states whose code has been exchanged
  sessions,      \* Redis: bff:session, the number of the tokens
  locks,         \* Redis: bff:session-refresh-lock
  cookie,        \* the session id that each browser sends
  issued,        \* tokens issued so far
  expiring,      \* the last whose access token is about to expire
  expired,       \* the last whose refresh token has expired
  job,           \* what each request has in memory between two awaits
  ended,         \* sessions that somebody has logged out of
  overran,       \* history: a lock has ended before the refresh under it
  crashes

store == <<pending, codes, sessions, locks>>
tokens == <<issued, expiring, expired>>
vars == <<store, cookie, tokens, job, ended, overran, crashes>>

ASSUME SessionsAssumption ==
  /\ None \notin SessionIds
  /\ MaxTokens \in Nat /\ MaxTries \in Nat \ {0} /\ MaxCrashes \in Nat

Session == 1..MaxTokens

Idle == [step |-> "idle"]

SigningIn ==
  [step : {"forget", "exchange"}, browser : Browsers, state : States]
Creating == [step : {"create"}, browser : Browsers, tokens : Session]
Refreshing ==
  [step : {"drop", "lock", "refresh", "save", "release", "serve", "delete"},
   browser : Browsers, id : SessionIds, tokens : Session]
Waiting ==
  [step : {"wait"}, browser : Browsers, id : SessionIds, tries : 1..MaxTries]
Answering == [step : {"clear"}, browser : Browsers]

At(h, step) == job[h].step = step
Become(h, j) == job' = [job EXCEPT ![h] = j]
Go(h, step) == job' = [job EXCEPT ![h].step = step]
Begin(h, j) == At(h, "idle") /\ Become(h, j)

--------------------------------------------------------------------------------
(* Signing in *)

\* States are random.
NewState(st) ==
  /\ st \notin {p[1] : p \in pending} \cup codes
  /\ \A h \in Requests : job[h].step \in {"forget", "exchange"} => job[h].state # st

Login(b, st) ==
  /\ NewState(st)
  /\ pending' = pending \cup {<<st, b>>}
  /\ UNCHANGED <<codes, sessions, locks, cookie, tokens, job, ended, overran, crashes>>

\* The five minutes pass.
PendingEnds(p) ==
  /\ p \in pending
  /\ pending' = pending \ {p}
  /\ UNCHANGED <<codes, sessions, locks, cookie, tokens, job, ended, overran, crashes>>

\* consume: GET, and then DEL.
Callback(h, p) ==
  /\ p \in pending
  /\ Begin(h, [step |-> "forget", state |-> p[1], browser |-> p[2]])
  /\ UNCHANGED <<store, cookie, tokens, ended, overran, crashes>>

\* Faulty variant of ForgetPending: the state stays.
KeepPending(h) ==
  /\ At(h, "forget")
  /\ Go(h, "exchange")
  /\ UNCHANGED <<store, cookie, tokens, ended, overran, crashes>>

ForgetPending(h) ==
  /\ At(h, "forget")
  /\ pending' = {p \in pending : p[1] # job[h].state}
  /\ Go(h, "exchange")
  /\ UNCHANGED <<codes, sessions, locks, cookie, tokens, ended, overran, crashes>>

MayIssue == issued < MaxTokens

\* Keycloak takes a code once.
ExchangeCode(h) ==
  LET j == job[h] IN
  /\ At(h, "exchange")
  /\ IF j.state \in codes
     THEN Become(h, Idle) /\ UNCHANGED <<codes, issued>>
     ELSE /\ MayIssue
          /\ codes' = codes \cup {j.state}
          /\ issued' = issued + 1
          /\ Become(h, [step |-> "create", browser |-> j.browser, tokens |-> issued + 1])
  /\ UNCHANGED <<pending, sessions, locks, cookie, expiring, expired, ended, overran, crashes>>

\* Ids of sessions are new.
New(s) ==
  /\ sessions[s] = None /\ s \notin ended
  /\ \A b \in Browsers : cookie[b] # s
  /\ \A h \in Requests :
       job[h] \in Refreshing \cup Waiting => job[h].id # s

CreateSession(h, s) ==
  LET j == job[h] IN
  /\ At(h, "create") /\ New(s)
  /\ sessions' = [sessions EXCEPT ![s] = j.tokens]
  /\ cookie' = [cookie EXCEPT ![j.browser] = s]
  /\ Become(h, Idle)
  /\ UNCHANGED <<pending, codes, locks, tokens, ended, overran, crashes>>

--------------------------------------------------------------------------------
(* A request with a cookie *)

(* sessionAuthMiddleware, optionalSessionMiddleware and the WebSocket's route: *)
(* they differ in what they answer, and a socket leaves the cookie alone when   *)
(* there is no session.                                                         *)

IsExpiring(t) == t <= expiring
IsExpired(t) == t <= expired

Held(b, s, t, step) == [step |-> step, browser |-> b, id |-> s, tokens |-> t]
ToClear(b) == [step |-> "clear", browser |-> b]

FindSession(h, b) ==
  LET s == cookie[b]
      t == sessions[s]
  IN  /\ s # None
      /\ \/ t = None /\ Begin(h, ToClear(b))
         \/ t # None /\ ~IsExpiring(t) /\ Begin(h, Held(b, s, t, "serve"))
         \/ t # None /\ IsExpired(t) /\ Begin(h, Held(b, s, t, "drop"))
         \/ t # None /\ IsExpiring(t) /\ ~IsExpired(t) /\ Begin(h, Held(b, s, t, "lock"))
      /\ UNCHANGED <<store, cookie, tokens, ended, overran, crashes>>

\* Whether or not another request has put new tokens there.
DropExpired(h) ==
  /\ At(h, "drop")
  /\ sessions' = [sessions EXCEPT ![job[h].id] = None]
  /\ Become(h, ToClear(job[h].browser))
  /\ UNCHANGED <<pending, codes, locks, cookie, tokens, ended, overran, crashes>>

\* Faulty variant of Acquired: SET without NX.
AlwaysAcquired(s) == s \in SessionIds

\* SET NX.
Acquired(s) == s \notin locks

AcquireRefreshLock(h) ==
  LET j == job[h] IN
  /\ At(h, "lock")
  /\ IF Acquired(j.id)
     THEN Go(h, "refresh") /\ locks' = locks \cup {j.id}
     ELSE /\ Become(h, [step |-> "wait", browser |-> j.browser, id |-> j.id, tries |-> MaxTries])
          /\ UNCHANGED locks
  /\ UNCHANGED <<pending, codes, sessions, cookie, tokens, ended, overran, crashes>>

\* Keycloak issues new tokens for the refresh token that the session had.
Refresh(h) ==
  /\ At(h, "refresh")
  /\ ~IsExpired(job[h].tokens)
  /\ MayIssue
  /\ issued' = issued + 1
  /\ job' = [job EXCEPT ![h].step = "save", ![h].tokens = issued + 1]
  /\ UNCHANGED <<store, cookie, expiring, expired, ended, overran, crashes>>

\* Whether or not the session is still there.
SaveRefreshed(h) ==
  /\ At(h, "save")
  /\ sessions' = [sessions EXCEPT ![job[h].id] = job[h].tokens]
  /\ Go(h, "release")
  /\ UNCHANGED <<pending, codes, locks, cookie, tokens, ended, overran, crashes>>

\* Whoever's lock it is by now.
ReleaseRefreshLock(h) ==
  /\ At(h, "release")
  /\ locks' = locks \ {job[h].id}
  /\ Go(h, "serve")
  /\ UNCHANGED <<pending, codes, sessions, cookie, tokens, ended, overran, crashes>>

\* Keycloak or Redis refuses: the lock is released and the request is an error.
RefreshFails(h) ==
  /\ At(h, "refresh") \/ At(h, "save")
  /\ locks' = locks \ {job[h].id}
  /\ Become(h, Idle)
  /\ UNCHANGED <<pending, codes, sessions, cookie, tokens, ended, overran, crashes>>

\* Faulty variant of TriesLeft: who waits, waits on.
WaitOn(j) == j.tries

TriesLeft(j) == j.tries - 1

WaitForConcurrentRefresh(h) ==
  LET j == job[h]
      t == sessions[j.id]
  IN  /\ At(h, "wait")
      /\ \/ t = None /\ Become(h, ToClear(j.browser))
         \/ t # None /\ ~IsExpiring(t) /\ Become(h, Held(j.browser, j.id, t, "serve"))
         \/ /\ t # None /\ IsExpiring(t)
            /\ Become(h, IF TriesLeft(j) = 0 THEN ToClear(j.browser)
                         ELSE [j EXCEPT !.tries = TriesLeft(j)])
      /\ UNCHANGED <<store, cookie, tokens, ended, overran, crashes>>

\* A proxied request or a socket has what it needs; POST /auth/logout goes on.
Serve(h) ==
  /\ At(h, "serve")
  /\ Become(h, Idle) \/ Go(h, "delete")
  /\ UNCHANGED <<store, cookie, tokens, ended, overran, crashes>>

Logout(h) ==
  LET j == job[h] IN
  /\ At(h, "delete")
  /\ sessions' = [sessions EXCEPT ![j.id] = None]
  /\ ended' = ended \cup {j.id}
  /\ Become(h, ToClear(j.browser))
  /\ UNCHANGED <<pending, codes, locks, cookie, tokens, overran, crashes>>

\* The answer deletes the cookie, whichever the browser has by now, if it arrives.
Respond(h) ==
  /\ At(h, "clear")
  /\ cookie' \in {cookie, [cookie EXCEPT ![job[h].browser] = None]}
  /\ Become(h, Idle)
  /\ UNCHANGED <<store, tokens, ended, overran, crashes>>

--------------------------------------------------------------------------------
(* Time and failures *)

AccessTokenExpires ==
  /\ expiring < issued
  /\ expiring' = expiring + 1
  /\ UNCHANGED <<store, cookie, issued, expired, job, ended, overran, crashes>>

RefreshTokenExpires ==
  /\ expired < expiring
  /\ expired' = expired + 1
  /\ UNCHANGED <<store, cookie, issued, expiring, job, ended, overran, crashes>>

\* The cookie and the key in Redis have the same time to live.
SessionEnds(s) ==
  /\ sessions[s] # None
  /\ sessions' = [sessions EXCEPT ![s] = None]
  /\ cookie' = [b \in Browsers |-> IF cookie[b] = s THEN None ELSE cookie[b]]
  /\ UNCHANGED <<pending, codes, locks, tokens, job, ended, overran, crashes>>

Refreshers(s) == {h \in Requests : job[h].step \in {"refresh", "save", "release"} /\ job[h].id = s}

\* EX: the lock's time to live.
LockEnds(s) ==
  /\ s \in locks
  /\ locks' = locks \ {s}
  /\ overran' = (overran \/ Refreshers(s) # {})
  /\ UNCHANGED <<pending, codes, sessions, cookie, tokens, job, ended, crashes>>

Crash ==
  /\ crashes < MaxCrashes
  /\ \E h \in Requests : ~At(h, "idle")
  /\ crashes' = crashes + 1
  /\ job' = [h \in Requests |-> Idle]
  /\ UNCHANGED <<store, cookie, tokens, ended, overran>>

--------------------------------------------------------------------------------
Init ==
  /\ pending = {} /\ codes = {} /\ locks = {} /\ ended = {}
  /\ sessions = [s \in SessionIds |-> None]
  /\ cookie = [b \in Browsers |-> None]
  /\ issued = 0 /\ expiring = 0 /\ expired = 0
  /\ job = [h \in Requests |-> Idle]
  /\ overran = FALSE /\ crashes = 0

SignInStep(h) == ForgetPending(h) \/ ExchangeCode(h) \/ \E s \in SessionIds : CreateSession(h, s)

RefreshStep(h) ==
  \/ DropExpired(h)
  \/ AcquireRefreshLock(h)
  \/ Refresh(h)
  \/ SaveRefreshed(h)
  \/ ReleaseRefreshLock(h)
  \/ RefreshFails(h)
  \/ WaitForConcurrentRefresh(h)
  \/ Serve(h)
  \/ Logout(h)
  \/ Respond(h)

Passing ==
  \/ \E p \in pending : PendingEnds(p)
  \/ AccessTokenExpires \/ RefreshTokenExpires
  \/ \E s \in SessionIds : SessionEnds(s) \/ LockEnds(s)
  \/ Crash

Next ==
  \/ \E b \in Browsers, st \in States : Login(b, st)
  \/ \E h \in Requests : \E p \in pending : Callback(h, p)
  \/ \E h \in Requests, b \in Browsers : FindSession(h, b)
  \/ \E h \in Requests : SignInStep(h) \/ RefreshStep(h)
  \/ Passing

Spec == Init /\ [][Next]_vars

\* An answer of Redis or Keycloak comes, if only an error, and the time that a
\* lock may live passes.
FairSpec ==
  /\ Spec
  /\ \A h \in Requests : WF_vars(RefreshStep(h))
  /\ \A s \in SessionIds : WF_vars(LockEnds(s))

--------------------------------------------------------------------------------
(* Properties *)

\* What the variables hold; a state whose code was exchanged is not pending.
SessionsTypeOK ==
  /\ pending \subseteq States \X Browsers /\ codes \subseteq States
  /\ \A p \in pending : p[1] \notin codes
  /\ sessions \in [SessionIds -> Session \cup {None}]
  /\ locks \subseteq SessionIds /\ ended \subseteq SessionIds
  /\ cookie \in [Browsers -> SessionIds \cup {None}]
  /\ issued \in 0..MaxTokens
  /\ expiring \in 0..issued /\ expired \in 0..expiring
  /\ job \in [Requests -> {Idle} \cup SigningIn \cup Creating \cup Refreshing \cup Waiting
                            \cup Answering]
  /\ overran \in BOOLEAN /\ crashes \in 0..MaxCrashes

\* However many requests of a session refresh it, one after the other from what
\* they read before, its tokens are only replaced by newer ones, unless a refresh
\* took longer than its lock lives (refreshUnderLock).
TokensMoveForward ==
  [][\A s \in SessionIds :
       sessions[s] # None /\ sessions'[s] # None /\ ~overran => sessions'[s] >= sessions[s]]_vars

\* Every request with a session is answered and every lock is free again, also
\* those that wait for a refresh that stopped half-way.
RequestsAreAnswered ==
  /\ \A h \in Requests : job[h].step \in {"drop", "lock", "wait", "clear"} ~> At(h, "idle")
  /\ \A s \in SessionIds : s \in locks ~> s \notin locks

\* The documentation of the flow says that a logout ends the session.
LogoutEndsSession == \A s \in ended : sessions[s] = None
================================================================================
