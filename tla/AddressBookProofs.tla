------------------------------ MODULE AddressBookProofs ------------------------------
(***************************************************************************)
(* Theorems about AddressBook.tla for every value of its constants: its    *)
(* types, that a user has one default, and that a call leaves the rows of  *)
(* other users alone.                                                      *)
(*                                                                         *)
(* A call writes, some steps later, what it has read.  It may because its  *)
(* rows stay its user's (Owned, Shared): nothing gives a row away, and an  *)
(* id is used once.  And because, when a user's calls come one after the   *)
(* other, each of them leaves a default behind (Sound).                    *)
(***************************************************************************)
EXTENDS AddressBook, FiniteSetTheorems, WellFoundedInduction, TLAPS

--------------------------------------------------------------------------------
(* The inductive invariant *)

Call ==
  [step : {"save", "clear", "upsert", "delete", "replace", "profile", "first"},
   user : Users, id : Ids \cup {0}, default : BOOLEAN, held : SUBSET Ids]

\* The rows that a call has read and may write.
Touched(call) == {i \in Ids : i = call.id \/ i \in call.held}

\* Ids are handed out in order, to rows and to the calls that will create them.
Created ==
  /\ \A i \in Ids : rows[i] # NoRow => i <= created
  /\ \A r \in Requests : \A i \in Touched(request[r]) : i <= created

\* What a call may write is its user's.
Owned ==
  \A r \in Requests : \A i \in Touched(request[r]) :
    rows[i] # NoRow => rows[i].owner = request[r].user

Shared ==
  \A q, r \in Requests :
    Touched(request[q]) \cap Touched(request[r]) # {} => request[q].user = request[r].user

\* Only a save that makes a default holds rows, and only an address book has profiles.
CallOK(call) ==
  /\ call.held # {} => call.step \in {"clear", "upsert"} /\ call.default
  /\ call.step \in {"profile", "first"} => book = "addresses"

CallsOK == \A r \in Requests : CallOK(request[r])

Unique == \A u \in Users : \A i, j \in Defaults(u) : i = j

HasDefault(u) == Listed(u) # {} => Defaults(u) # {}

\* What a call relies on when it is the only one of its user.
Sound(call) ==
  LET u == call.user IN
  /\ call.step \in {"save", "clear", "upsert"} /\ ~call.default
       => Defaults(u) \ {call.id} # {}
  /\ call.step \in {"delete", "profile"} => HasDefault(u)
  /\ call.step = "delete" /\ ~call.default => call.id \notin Defaults(u)

OneByOne ==
  \A u \in Users \ raced :
    /\ \A q, r \in Working(u) : q = r
    /\ Working(u) = {} => HasDefault(u)
    /\ \A r \in Working(u) : Sound(request[r])

Inductive ==
  /\ TypeOK /\ Created /\ Owned /\ Shared /\ CallsOK
  /\ Unique /\ OneByOne

--------------------------------------------------------------------------------
(* Rows *)

\* The natural numbers are well-ordered.
LEMMA Least ==
  ASSUME NEW S \in SUBSET Nat, S # {}
  PROVE  \E i \in S : \A j \in S : i <= j
<1> DEFINE Less == OpToRel(<, Nat)
<1>1. IsWellFoundedOn(Less, Nat)
  BY NatLessThanWellFounded
<1>2. \A i, j \in Nat : <<i, j>> \in Less <=> i < j
  BY DEF OpToRel
<1> HIDE DEF Less
<1>3. PICK i \in S : \A j \in S : <<j, i>> \notin Less
  BY <1>1, WFMin
<1>4. ASSUME NEW j \in S
      PROVE  i <= j
  <2>1. ~(j < i) /\ i \in Nat /\ j \in Nat
    BY <1>2, <1>3
  <2> QED
    BY <2>1
<1> QED
  BY <1>4

\* Who has rows has a first one.
LEMMA FirstIsListed ==
  ASSUME NEW u, Listed(u) # {}
  PROVE  FirstListed(u) \in Listed(u)
<1> DEFINE leading == IF Defaults(u) # {} THEN Defaults(u) ELSE Listed(u)
<1>1. leading \in SUBSET Nat /\ leading # {} /\ leading \subseteq Listed(u)
  BY DEF Listed, Defaults, Ids
<1> HIDE DEF leading
<1>2. \E i \in leading : \A j \in leading : i <= j
  BY <1>1, Least
<1>3. (CHOOSE i \in leading : \A j \in leading : i <= j) \in leading
  BY <1>2
<1>4. FirstListed(u) = CHOOSE i \in leading : \A j \in leading : i <= j
  BY DEF FirstListed, leading
<1> QED
  BY <1>1, <1>3, <1>4

\* A row is there and somebody's, or it is not there.
LEMMA RowKind ==
  ASSUME TypeOK, NEW i \in Ids
  PROVE  /\ rows[i] = NoRow \/ rows[i] \in Row
         /\ rows[i] \in Row => rows[i] # NoRow
BY BookAssumption DEF TypeOK, Row, NoRow

\* A call in memory is one, or the slot is free.
LEMMA CallKind ==
  ASSUME TypeOK, NEW r \in Requests
  PROVE  /\ request[r] = Idle \/ request[r] \in Call
         /\ request[r].step # "none" => request[r] \in Call
         /\ \A u \in Users : request[r].user = u => request[r] \in Call
         /\ request[r].user \in Users => request[r] # Idle
BY BookAssumption DEF TypeOK, Call, Idle

--------------------------------------------------------------------------------
(* What every step of a call has to keep *)

\* What a step of a call of u may write or remember: rows that the call has read
\* before, rows of u, and the id that the step hands out.
Mine(call, u) ==
  Touched(call) \cup Listed(u) \cup {i \in Ids : created' = created + 1 /\ i = created'}

\* A step of request r for user u, after which its memory is call.
Moves(r, u, call) ==
  /\ request[r] = Idle \/ request[r].user = u
  /\ call = Idle \/ (call \in Call /\ call.user = u)
  /\ request' = [request EXCEPT ![r] = call]
  /\ created' \in {created, created + 1} /\ created' <= MaxEntries
  /\ Touched(call) \subseteq Mine(request[r], u)
  /\ rows' \in [Ids -> Row \cup {NoRow}]
  /\ \A i \in Ids :
       \/ rows'[i] = rows[i]
       \/ i \in Mine(request[r], u) /\ (rows'[i] = NoRow \/ rows'[i].owner = u)

LEMMA MoveOwns ==
  ASSUME Inductive, NEW r \in Requests, NEW u \in Users, NEW call, Moves(r, u, call)
  PROVE  Created' /\ Owned' /\ Shared'
<1>1. TypeOK /\ Created /\ Owned /\ Shared /\ created \in Nat /\ created' \in Nat
  BY DEF Inductive, TypeOK, Moves
<1>2. request'[r] = call /\ \A q \in Requests : q # r => request'[q] = request[q]
  BY <1>1 DEF Moves, TypeOK
<1>3. Touched(Idle) = {}
  BY DEF Touched, Idle, Ids
<1>4. ASSUME NEW i \in Mine(request[r], u)
      PROVE  /\ i \in Ids /\ i <= created'
             /\ rows[i] # NoRow => rows[i].owner = u
             /\ \A q \in Requests : q # r /\ i \in Touched(request[q]) => request[q].user = u
  <2>1. CASE i \in Touched(request[r])
    <3>1. request[r].user = u
      BY <1>3, <2>1 DEF Moves
    <3> QED
      BY <1>1, <2>1, <3>1 DEF Created, Owned, Shared, Touched, Moves, Ids
  <2>2. CASE i \in Listed(u)
    BY <1>1, <2>2 DEF Created, Owned, Listed, Moves, Ids
  <2>3. CASE i \in Ids /\ created' = created + 1 /\ i = created'
    BY <1>1, <2>3 DEF Created
  <2> QED
    BY <2>1, <2>2, <2>3 DEF Mine
<1>5. \A i \in Touched(call) : i \in Mine(request[r], u) /\ call.user = u
  BY <1>3 DEF Moves
<1>6. \A i \in Ids : created' >= created /\ (i <= created => i <= created')
  BY <1>1 DEF Moves, Ids
<1>7. Created'
  <2>1. \A i \in Ids : rows'[i] # NoRow => i <= created'
    BY <1>1, <1>4, <1>6 DEF Created, Moves
  <2>2. ASSUME NEW q \in Requests, NEW i \in Touched(request'[q])
        PROVE  i <= created'
    BY <1>1, <1>2, <1>4, <1>5, <1>6, <2>2 DEF Created, Touched
  <2> QED
    BY <2>1, <2>2 DEF Created
<1>8. Owned'
  <2>1. ASSUME NEW q \in Requests, NEW i \in Touched(request'[q]), rows'[i] # NoRow
        PROVE  rows'[i].owner = request'[q].user
    <3>1. i \in Ids
      BY <2>1 DEF Touched
    <3>2. request'[q].user = u \/ q # r
      BY <1>2, <1>5, <2>1
    <3>3. CASE rows'[i] = rows[i]
      BY <1>1, <1>2, <1>4, <1>5, <2>1, <3>1, <3>3 DEF Owned
    <3>4. CASE rows'[i] # rows[i]
      BY <1>2, <1>4, <1>5, <2>1, <3>1, <3>4 DEF Moves
    <3> QED
      BY <3>3, <3>4
  <2> QED
    BY <2>1 DEF Owned
<1>9. Shared'
  <2>1. ASSUME NEW p \in Requests, NEW q \in Requests,
               NEW i \in Touched(request'[p]) \cap Touched(request'[q])
        PROVE  request'[p].user = request'[q].user
    BY <1>1, <1>2, <1>4, <1>5, <2>1 DEF Shared
  <2> QED
    BY <2>1 DEF Shared
<1> QED
  BY <1>7, <1>8, <1>9

\* A step for u leaves the rows of others as they are.
LEMMA MoveLeavesOthers ==
  ASSUME Inductive, NEW r \in Requests, NEW u \in Users, NEW call, Moves(r, u, call),
         NEW v \in Users, v # u
  PROVE  Listed(v)' = Listed(v) /\ Defaults(v)' = Defaults(v)
<1>1. TypeOK /\ Owned
  BY DEF Inductive
<1>2. ASSUME NEW i \in Mine(request[r], u)
      PROVE  i \in Ids /\ (rows[i] # NoRow => rows[i].owner = u)
  <2>1. CASE i \in Touched(request[r])
    <3>1. request[r].user = u
      BY <2>1 DEF Moves, Touched, Idle, Ids
    <3> QED
      BY <1>1, <2>1, <3>1 DEF Owned, Touched
  <2>2. CASE i \in Listed(u)
    BY <2>2 DEF Listed
  <2>3. CASE i \in Ids /\ created' = created + 1 /\ i = created'
    <3>1. created \in Nat /\ ~(created + 1 <= created)
      BY <1>1 DEF TypeOK
    <3> QED
      BY <2>3, <3>1 DEF Inductive, Created
  <2> QED
    BY <2>1, <2>2, <2>3 DEF Mine
<1>3. \A i \in Ids : rows'[i] # rows[i] =>
        /\ rows[i] # NoRow => rows[i].owner # v
        /\ rows'[i] # NoRow => rows'[i].owner # v
  BY <1>2 DEF Moves
<1>4. Listed(v)' = Listed(v)
  BY <1>3 DEF Listed
<1>5. \A i \in Listed(v) : rows'[i] = rows[i]
  BY <1>3 DEF Listed
<1> QED
  BY <1>4, <1>5 DEF Defaults

\* A step keeps the invariant when it does right by its own user.
LEMMA MoveStep ==
  ASSUME Inductive, NEW r \in Requests, NEW u \in Users, NEW call,
         Moves(r, u, call), CallOK(call),
         UNCHANGED book, profiles' \subseteq Users, book = "cards" => profiles' = {},
         failures' \in 0..MaxFailures,
         call # Idle => (call.id = 0 <=> call.step \in {"profile", "first"}),
         raced \subseteq raced', raced' \subseteq raced \cup {u},
         \A i, j \in Defaults(u)' : i = j,
         u \notin raced' =>
           /\ request[r] = Idle => Working(u) = {}
           /\ call = Idle => HasDefault(u)'
           /\ call # Idle => Sound(call)'
  PROVE  Inductive'
<1>1. TypeOK /\ CallsOK /\ Unique /\ OneByOne /\ r \in Requests
  BY DEF Inductive
<1>2. /\ request'[r] = call
      /\ \A q \in Requests : q # r => request'[q] = request[q]
  BY <1>1 DEF Moves, TypeOK
<1>3. Created' /\ Owned' /\ Shared'
  BY MoveOwns
<1>4. TypeOK'
  <2>1. request' \in [Requests -> Call \cup {Idle}]
    BY <1>1 DEF TypeOK, Moves, Call
  <2>2. \A q \in Requests :
          request'[q].id = 0 <=> request'[q].step \in {"none", "profile", "first"}
    <3>1. Idle.id = 0 /\ Idle.step = "none"
      BY DEF Idle
    <3>2. call # Idle => call.step # "none"
      BY DEF Moves, Call
    <3> QED
      BY <1>1, <1>2, <3>1, <3>2 DEF TypeOK
  <2>3. created' \in 0..MaxEntries
    BY <1>1, BookAssumption DEF TypeOK, Moves
  <2>4. raced' \subseteq Users
    BY <1>1 DEF TypeOK
  <2> QED
    BY <1>1, <2>1, <2>2, <2>3, <2>4 DEF TypeOK, Moves, Call
<1>5. CallsOK'
  BY <1>1, <1>2 DEF CallsOK, CallOK
<1>6. \A v \in Users \ {u} : Listed(v)' = Listed(v) /\ Defaults(v)' = Defaults(v)
  BY MoveLeavesOthers
<1>7. Unique'
  BY <1>1, <1>6 DEF Unique
<1>8. \A v \in Users \ {u} : Working(v)' = Working(v)
  <2>1. request[r] = Idle \/ request[r].user = u
    BY DEF Moves
  <2>2. \A v \in Users \ {u} : request[r].user # v /\ call.user # v
    BY <2>1, BookAssumption DEF Moves, Idle
  <2> QED
    BY <1>2, <2>2 DEF Working
<1>9. ASSUME NEW v \in Users \ raced', v # u
      PROVE  /\ \A p, q \in Working(v)' : p = q
             /\ Working(v)' = {} => HasDefault(v)'
             /\ \A q \in Working(v)' : Sound(request[q])'
  <2>1. v \in Users \ raced /\ Working(v)' = Working(v)
    BY <1>8, <1>9
  <2>2. HasDefault(v)' = HasDefault(v)
    BY <1>6, <1>9 DEF HasDefault
  <2>3. ASSUME NEW q \in Working(v)
        PROVE  Sound(request[q])'
    <3>1. request[q].user = v /\ request'[q] = request[q] /\ Sound(request[q])
      BY <1>1, <1>2, <1>9, <2>1, BookAssumption DEF Working, Moves, OneByOne, Idle
    <3> QED
      BY <1>6, <1>9, <2>2, <3>1 DEF Sound
  <2> QED
    BY <1>1, <2>1, <2>2, <2>3 DEF OneByOne
<1>10. ASSUME u \notin raced'
       PROVE  /\ \A p, q \in Working(u)' : p = q
              /\ Working(u)' = {} => HasDefault(u)'
              /\ \A q \in Working(u)' : Sound(request[q])'
  <2>1. \A p, q \in Working(u) : p = q
    BY <1>1, <1>10 DEF OneByOne
  <2>2. Working(u) \subseteq {r}
    BY <1>10, <2>1 DEF Working, Moves
  <2>3. Working(u)' \subseteq {r}
    BY <1>2, <2>2 DEF Working
  <2>4. r \in Working(u)' <=> call # Idle
    BY <1>1, <1>2, BookAssumption DEF Working, Moves, Idle
  <2> QED
    BY <1>2, <1>10, <2>3, <2>4
<1>11. OneByOne'
  BY <1>9, <1>10 DEF OneByOne
<1> QED
  BY <1>3, <1>4, <1>5, <1>7, <1>11 DEF Inductive

--------------------------------------------------------------------------------
(* Calls begin *)

\* A call that begins changes no row.
LEMMA BeginStep ==
  ASSUME Inductive, NEW r \in Requests, NEW u \in Users, NEW call \in Call,
         Begin(r, u, call), call.user = u, CallOK(call),
         call.id = 0 <=> call.step \in {"profile", "first"},
         created' \in {created, created + 1}, created' <= MaxEntries,
         Touched(call) \subseteq Mine(request[r], u),
         UNCHANGED <<book, rows, profiles, failures>>,
         HasDefault(u) => Sound(call)
  PROVE  Inductive'
<1>1. TypeOK /\ Unique /\ OneByOne
  BY DEF Inductive
<1>2. Listed(u)' = Listed(u) /\ Defaults(u)' = Defaults(u)
  BY DEF Listed, Defaults
<1>3. Moves(r, u, call)
  BY <1>1 DEF Moves, Begin, TypeOK
<1>4. raced \subseteq raced' /\ raced' \subseteq raced \cup {u}
  BY DEF Begin
<1>5. u \notin raced' => Working(u) = {} /\ u \notin raced
  BY DEF Begin
<1>6. u \notin raced' => Sound(call)
  BY <1>1, <1>5 DEF OneByOne
<1>7. Sound(call)' = Sound(call)
  BY <1>2 DEF Sound, HasDefault
<1>8. call # Idle
  BY DEF Call, Idle
<1>9. /\ profiles' \subseteq Users /\ failures' \in 0..MaxFailures
      /\ book = "cards" => profiles' = {}
  BY <1>1 DEF TypeOK
<1>10. \A i, j \in Defaults(u)' : i = j
  BY <1>1, <1>2 DEF Unique
<1> QED
  BY <1>3, <1>4, <1>5, <1>6, <1>7, <1>8, <1>9, <1>10, MoveStep

LEMMA AddStep ==
  ASSUME Inductive, NEW r \in Requests, NEW u \in Users, NEW isDefault \in BOOLEAN,
         Add(r, u, isDefault), UNCHANGED book
  PROVE  Inductive'
<1> DEFINE d == isDefault \/ Listed(u) = {}
           call == Saving(u, created', d)
<1>1. TypeOK /\ Created /\ created \in 0..MaxEntries /\ d \in BOOLEAN
  BY DEF Inductive, TypeOK
<1>2. created' = created + 1 /\ created' \in Ids
  BY <1>1, BookAssumption DEF Add, Ids
<1>3. /\ call.step = "save" /\ call.user = u /\ call.id = created'
      /\ call.default = d /\ call.held = {}
  BY DEF Saving
<1>4. call \in Call
  BY <1>1, <1>2 DEF Saving, Call
<1>5. Begin(r, u, call) /\ UNCHANGED <<rows, profiles, failures>>
  BY DEF Add
<1>6. ~d => Listed(u) # {}
  OBVIOUS
<1> HIDE DEF call, d
<1>7. CallOK(call) /\ Touched(call) \subseteq Mine(request[r], u)
  BY <1>2, <1>3 DEF CallOK, Touched, Mine
<1>8. created' \notin Defaults(u)
  BY <1>1, <1>2 DEF Created, Defaults, Listed
<1>9. HasDefault(u) => Sound(call)
  BY <1>3, <1>6, <1>8 DEF HasDefault, Sound
<1>10. created' # 0 /\ created' <= MaxEntries
  BY <1>1, <1>2 DEF Ids
<1> QED
  BY <1>2, <1>3, <1>4, <1>5, <1>7, <1>9, <1>10, BeginStep

\* What a user edits, chooses or removes is a row of the user's.
LEMMA OnOwnStep ==
  ASSUME Inductive, NEW r \in Requests, NEW u \in Users, NEW i \in Ids, NEW call \in Call,
         OnOwn(r, u, i, call), UNCHANGED book,
         call.step \in {"save", "delete"}, call.user = u, call.id = i, call.held = {},
         call.default \/ call.default = rows[i].default
  PROVE  Inductive'
<1>1. TypeOK /\ created \in 0..MaxEntries /\ i # 0
  BY DEF Inductive, TypeOK, Ids
<1>2. i \in Listed(u)
  BY DEF OnOwn, BelongsTo, Listed
<1>3. CallOK(call) /\ Touched(call) \subseteq Mine(request[r], u)
  BY <1>2 DEF CallOK, Touched, Mine
<1>4. ~call.default => i \notin Defaults(u)
  BY DEF Defaults
<1>5. HasDefault(u) => Sound(call)
  BY <1>2, <1>4 DEF HasDefault, Sound
<1>6. created' = created /\ created' <= MaxEntries
  BY <1>1 DEF OnOwn
<1> QED
  BY <1>1, <1>3, <1>5, <1>6, BeginStep DEF OnOwn

LEMMA EditChooseRemoveStep ==
  ASSUME Inductive, NEW r \in Requests, NEW u \in Users, NEW i \in Ids,
         Edit(r, u, i) \/ Choose(r, u, i) \/ Remove(r, u, i), UNCHANGED book
  PROVE  Inductive'
<1>1. rows[i].default \in BOOLEAN
  <2>1. rows[i] = NoRow \/ rows[i] \in Row
    BY RowKind DEF Inductive
  <2>2. NoRow.default \in BOOLEAN
    BY DEF NoRow
  <2>3. rows[i] \in Row => rows[i].default \in BOOLEAN
    BY DEF Row
  <2> QED
    BY <2>1, <2>2, <2>3
<1>2. CASE Edit(r, u, i)
  <2> DEFINE call == Saving(u, i, rows[i].default)
  <2>1. /\ call \in Call /\ call.step = "save" /\ call.user = u /\ call.id = i
        /\ call.held = {} /\ call.default = rows[i].default
    BY <1>1 DEF Saving, Call
  <2> QED
    BY <1>2, <2>1, OnOwnStep DEF Edit
<1>3. CASE Choose(r, u, i)
  <2> DEFINE call == Saving(u, i, TRUE)
  <2>1. /\ call \in Call /\ call.step = "save" /\ call.user = u /\ call.id = i
        /\ call.held = {} /\ call.default
    BY DEF Saving, Call
  <2> QED
    BY <1>3, <2>1, OnOwnStep DEF Choose
<1>4. CASE Remove(r, u, i)
  <2> DEFINE call == [Saving(u, i, rows[i].default) EXCEPT !.step = "delete"]
  <2>1. /\ call \in Call /\ call.step = "delete" /\ call.user = u /\ call.id = i
        /\ call.held = {} /\ call.default = rows[i].default
    BY <1>1 DEF Saving, Call
  <2> QED
    BY <1>4, <2>1, OnOwnStep DEF Remove
<1> QED
  BY <1>2, <1>3, <1>4

LEMMA UpdateUserProfileStep ==
  ASSUME Inductive, NEW r \in Requests, NEW u \in Users, UpdateUserProfile(r, u),
         UNCHANGED book
  PROVE  Inductive'
<1> DEFINE call == [Saving(u, 0, TRUE) EXCEPT !.step = "profile"]
<1>1. created \in 0..MaxEntries
  BY DEF Inductive, TypeOK
<1>2. /\ call \in Call /\ call.step = "profile" /\ call.user = u /\ call.id = 0
      /\ call.held = {}
  BY DEF Saving, Call
<1>3. Begin(r, u, call) /\ UNCHANGED <<rows, created, profiles, failures>> /\ book = "addresses"
  BY DEF UpdateUserProfile
<1> HIDE DEF call
<1>4. CallOK(call) /\ Touched(call) = {}
  BY <1>2, <1>3 DEF CallOK, Touched, Ids
<1>5. HasDefault(u) => Sound(call)
  BY <1>2 DEF Sound
<1>6. created' = created /\ created' <= MaxEntries
  BY <1>1, <1>3
<1> QED
  BY <1>2, <1>3, <1>4, <1>5, <1>6, BeginStep

--------------------------------------------------------------------------------
(* Calls go on *)

\* A call in progress is one of a user, who is at most the only one when not raced.
LEMMA InProgress ==
  ASSUME Inductive, NEW r \in Requests, request[r].step # "none"
  PROVE  /\ request[r] \in Call /\ request[r] # Idle /\ request[r].user \in Users
         /\ CallOK(request[r])
         /\ request[r].user \notin raced => Sound(request[r])
<1>1. request[r] \in Call
  BY CallKind DEF Inductive
<1>2. request[r].user \in Users /\ r \in Working(request[r].user)
  BY <1>1 DEF Call, Working
<1> QED
  BY <1>1, <1>2 DEF Inductive, CallsOK, OneByOne, Idle

\* A call that goes on and changes no row.
LEMMA GoesOn ==
  ASSUME Inductive, NEW r \in Requests, request[r].step # "none", NEW call,
         call = Idle \/ (call \in Call /\ call.user = request[r].user),
         request' = [request EXCEPT ![r] = call], CallOK(call),
         call # Idle => (call.id = 0 <=> call.step \in {"profile", "first"}),
         Touched(call) \subseteq Mine(request[r], request[r].user),
         UNCHANGED <<book, rows, created, failures, raced>>,
         profiles' \subseteq Users, book = "cards" => profiles' = {},
         request[r].user \notin raced =>
           /\ call = Idle => HasDefault(request[r].user)
           /\ call # Idle => Sound(call)
  PROVE  Inductive'
<1>1. PICK u \in Users : u = request[r].user
  BY InProgress
<1>2. TypeOK /\ Unique
  BY DEF Inductive
<1>3. /\ request[r] # Idle /\ created \in 0..MaxEntries
      /\ rows \in [Ids -> Row \cup {NoRow}]
  BY <1>2, InProgress DEF TypeOK
<1>4. Listed(u)' = Listed(u) /\ Defaults(u)' = Defaults(u)
  BY DEF Listed, Defaults
<1>5. Moves(r, u, call)
  <2>1. created' = created /\ created' <= MaxEntries
    BY <1>3
  <2>2. rows' \in [Ids -> Row \cup {NoRow}] /\ \A i \in Ids : rows'[i] = rows[i]
    BY <1>3
  <2>3. Touched(call) \subseteq Mine(request[r], u)
    BY <1>1 DEF Mine
  <2>4. call = Idle \/ (call \in Call /\ call.user = u)
    BY <1>1
  <2> QED
    BY <1>1, <2>1, <2>2, <2>3, <2>4 DEF Moves
<1>6. HasDefault(u)' = HasDefault(u) /\ (call # Idle => Sound(call)' = Sound(call))
  BY <1>1, <1>4 DEF HasDefault, Sound
<1>7. failures' \in 0..MaxFailures
  BY <1>2 DEF TypeOK
<1>8. \A i, j \in Defaults(u)' : i = j
  BY <1>2, <1>4 DEF Unique
<1> QED
  BY <1>1, <1>3, <1>5, <1>6, <1>7, <1>8, MoveStep

LEMMA FindOthersStep ==
  ASSUME Inductive, NEW r \in Requests, FindOthers(r), UNCHANGED book
  PROVE  Inductive'
<1> DEFINE c == request[r]
           call == [c EXCEPT !.step = "clear", !.held = ToClear(r)]
<1>1. /\ c \in Call /\ c.step = "save" /\ CallOK(c) /\ c.user \in Users
      /\ c.user \notin raced => Sound(c)
  BY InProgress DEF FindOthers
<1>2. TypeOK /\ c.id # 0
  BY <1>1 DEF Inductive, TypeOK
<1>3. ToClear(r) \subseteq Defaults(c.user) /\ (~c.default => ToClear(r) = {})
      /\ ToClear(r) \subseteq Ids
  BY DEF ToClear, Defaults, Listed
<1>4. /\ call \in Call /\ call.step = "clear" /\ call.user = c.user /\ call.id = c.id
      /\ call.default = c.default /\ call.held = ToClear(r)
  BY <1>1, <1>3 DEF Call
<1>5. request' = [request EXCEPT ![r] = call]
  BY DEF FindOthers
<1> HIDE DEF call
<1>6. CallOK(call)
  BY <1>3, <1>4 DEF CallOK
<1>7. Touched(call) \subseteq Mine(c, c.user)
  BY <1>3, <1>4 DEF Touched, Mine, Defaults
<1>8. c.user \notin raced => Sound(call)
  BY <1>1, <1>4 DEF Sound
<1>9. profiles' \subseteq Users /\ (book = "cards" => profiles' = {})
  BY <1>2 DEF TypeOK, FindOthers
<1>10. call # Idle
  BY <1>4 DEF Idle
<1> QED
  BY <1>1, <1>2, <1>4, <1>5, <1>6, <1>7, <1>8, <1>9, <1>10, GoesOn DEF FindOthers

LEMMA ClearOthersStep ==
  ASSUME Inductive, NEW r \in Requests, ClearOthers(r), UNCHANGED book
  PROVE  Inductive'
<1> DEFINE c == request[r]
           held == {i \in c.held : rows[i].default}
           call == [c EXCEPT !.step = "upsert", !.held = held]
<1>1. /\ c \in Call /\ c.step = "clear" /\ CallOK(c) /\ c.user \in Users
      /\ c.user \notin raced => Sound(c)
  BY InProgress DEF ClearOthers
<1>2. TypeOK /\ c.id # 0
  BY <1>1 DEF Inductive, TypeOK
<1>3. held \subseteq c.held /\ held \subseteq Ids
  BY <1>1 DEF Call
<1>4. /\ call \in Call /\ call.step = "upsert" /\ call.user = c.user /\ call.id = c.id
      /\ call.default = c.default /\ call.held = held
  BY <1>1, <1>3 DEF Call
<1>5. request' = [request EXCEPT ![r] = call]
  BY DEF ClearOthers
<1> HIDE DEF call, held
<1>6. CallOK(call)
  BY <1>1, <1>3, <1>4 DEF CallOK
<1>7. Touched(call) \subseteq Mine(c, c.user)
  BY <1>3, <1>4 DEF Touched, Mine
<1>8. c.user \notin raced => Sound(call)
  BY <1>1, <1>4 DEF Sound
<1>9. profiles' \subseteq Users /\ (book = "cards" => profiles' = {})
  BY <1>2 DEF TypeOK, ClearOthers
<1>10. call # Idle
  BY <1>4 DEF Idle
<1> QED
  BY <1>1, <1>2, <1>4, <1>5, <1>6, <1>7, <1>8, <1>9, <1>10, GoesOn DEF ClearOthers

\* A call that ends without having changed a row.
LEMMA EndsHere ==
  ASSUME Inductive, NEW r \in Requests, request[r].step # "none", End(r),
         UNCHANGED <<book, rows, created, failures, raced>>,
         profiles' \subseteq Users, book = "cards" => profiles' = {},
         request[r].user \notin raced => HasDefault(request[r].user)
  PROVE  Inductive'
<1>1. CallOK(Idle) /\ Touched(Idle) = {}
  BY DEF CallOK, Touched, Idle, Ids
<1> QED
  BY <1>1, GoesOn DEF End

LEMMA MakeDefaultStep ==
  ASSUME Inductive, NEW r \in Requests, MakeDefault(r), UNCHANGED book
  PROVE  Inductive'
<1> DEFINE c == request[r]
           call == Saving(c.user, FirstListed(c.user), TRUE)
<1>1. c \in Call /\ c.step = "replace" /\ c.user \in Users
  BY InProgress DEF MakeDefault
<1>2. profiles' \subseteq Users /\ (book = "cards" => profiles' = {})
  BY DEF Inductive, TypeOK, MakeDefault
<1>3. CASE Listed(c.user) = {}
  BY <1>1, <1>2, <1>3, EndsHere DEF MakeDefault, HasDefault
<1>4. CASE Listed(c.user) # {}
  <2>1. FirstListed(c.user) \in Listed(c.user) /\ FirstListed(c.user) \in Ids
    BY <1>4, FirstIsListed DEF Listed
  <2>2. /\ call \in Call /\ call.step = "save" /\ call.user = c.user
        /\ call.id = FirstListed(c.user) /\ call.default /\ call.held = {}
    BY <1>1, <2>1 DEF Saving, Call
  <2>3. request' = [request EXCEPT ![r] = call]
    BY <1>4 DEF MakeDefault
  <2> HIDE DEF call
  <2>4. CallOK(call) /\ call # Idle /\ call.id # 0
    BY <2>1, <2>2 DEF CallOK, Idle, Ids
  <2>5. Touched(call) \subseteq Mine(c, c.user)
    BY <2>1, <2>2 DEF Touched, Mine
  <2>6. Sound(call)
    BY <2>2 DEF Sound
  <2> QED
    BY <1>1, <1>2, <2>2, <2>3, <2>4, <2>5, <2>6, GoesOn DEF MakeDefault
<1> QED
  BY <1>3, <1>4

LEMMA SaveProfileStep ==
  ASSUME Inductive, NEW r \in Requests, SaveProfile(r), UNCHANGED book
  PROVE  Inductive'
<1> DEFINE c == request[r]
           call == [c EXCEPT !.step = "first"]
<1>1. /\ c \in Call /\ c.step = "profile" /\ CallOK(c) /\ c.user \in Users
      /\ c.user \notin raced => HasDefault(c.user)
  BY InProgress DEF SaveProfile, Sound
<1>2. TypeOK /\ c.id = 0 /\ book = "addresses"
  BY <1>1 DEF Inductive, TypeOK, CallOK
<1>3. profiles' \subseteq Users /\ (book = "cards" => profiles' = {})
  BY <1>1, <1>2 DEF TypeOK, SaveProfile
<1>4. CASE Listed(c.user) # {}
  BY <1>1, <1>3, <1>4, EndsHere DEF SaveProfile
<1>5. CASE Listed(c.user) = {}
  <2>1. /\ call \in Call /\ call.step = "first" /\ call.user = c.user /\ call.id = c.id
        /\ call.held = c.held
    BY <1>1 DEF Call
  <2>2. request' = [request EXCEPT ![r] = call]
    BY <1>5 DEF SaveProfile, Step
  <2> HIDE DEF call
  <2>3. CallOK(call) /\ call # Idle
    BY <1>1, <1>2, <2>1 DEF CallOK, Idle
  <2>4. Touched(call) \subseteq Mine(c, c.user)
    BY <2>1 DEF Touched, Mine
  <2>5. Sound(call)
    BY <2>1 DEF Sound
  <2> QED
    BY <1>1, <1>2, <1>3, <2>1, <2>2, <2>3, <2>4, <2>5, GoesOn DEF SaveProfile
<1> QED
  BY <1>4, <1>5

--------------------------------------------------------------------------------
(* Rows change *)

\* A call that ends with a change of rows, or stops.
LEMMA EndsWith ==
  ASSUME Inductive, NEW r \in Requests, NEW u \in Users,
         request[r].user = u, Moves(r, u, Idle),
         UNCHANGED book, profiles' \subseteq Users, book = "cards" => profiles' = {},
         failures' \in 0..MaxFailures, raced \subseteq raced', raced' \subseteq raced \cup {u},
         \A i, j \in Defaults(u)' : i = j,
         u \notin raced' => HasDefault(u)'
  PROVE  Inductive'
<1>1. request[r] # Idle
  BY BookAssumption DEF Idle
<1>2. CallOK(Idle)
  BY DEF CallOK, Idle
<1> QED
  BY <1>1, <1>2, MoveStep

\* What the transaction of a save leaves in a row.
LEMMA UpsertedRows ==
  ASSUME Inductive, NEW r \in Requests, request[r].step = "upsert",
         NEW u \in Users, request[r].user = u,
         rows' = [j \in Ids |->
           IF j = request[r].id THEN [owner |-> u, default |-> request[r].default]
           ELSE IF j \in request[r].held THEN [rows[j] EXCEPT !.default = FALSE]
           ELSE rows[j]]
  PROVE  /\ rows' \in [Ids -> Row \cup {NoRow}]
         /\ \A j \in Ids :
              \/ rows'[j] = rows[j]
              \/ j \in Touched(request[r]) /\ (rows'[j] = NoRow \/ rows'[j].owner = u)
<1> DEFINE c == request[r]
<1>1. TypeOK /\ Owned /\ c \in Call
  BY InProgress DEF Inductive
<1> SUFFICES ASSUME NEW j \in Ids
             PROVE  /\ rows'[j] \in Row \cup {NoRow}
                    /\ \/ rows'[j] = rows[j]
                       \/ /\ j \in Touched(request[r])
                          /\ rows'[j] = NoRow \/ rows'[j].owner = u
  OBVIOUS
<1>2. rows[j] \in Row \cup {NoRow}
  BY <1>1 DEF TypeOK
<1>3. CASE j = c.id
  <2>1. rows'[j] = [owner |-> u, default |-> c.default]
    BY <1>3
  <2>2. [owner |-> u, default |-> c.default] \in Row
    BY <1>1 DEF Row, Call
  <2> QED
    BY <1>3, <2>1, <2>2 DEF Touched
<1>4. CASE j # c.id /\ j \in c.held
  <2>1. rows'[j] = [rows[j] EXCEPT !.default = FALSE] /\ j \in Touched(c)
    BY <1>4 DEF Touched
  <2>2. CASE rows[j] = NoRow
    <3>1. [NoRow EXCEPT !.default = FALSE] = NoRow
      <4>1. NoRow = [f \in {"owner", "default"} |-> NoRow[f]]
        BY DEF NoRow
      <4> QED
        BY <4>1 DEF NoRow
    <3> QED
      BY <1>2, <2>1, <2>2, <3>1
  <2>3. CASE rows[j] \in Row
    <3>1. rows[j] # NoRow /\ rows[j].owner = u
      BY <1>1, <2>1, <2>3, RowKind DEF Owned
    <3>2. rows'[j] \in Row /\ rows'[j].owner = rows[j].owner
      BY <2>1, <2>3 DEF Row
    <3> QED
      BY <2>1, <3>1, <3>2
  <2> QED
    BY <1>2, <2>2, <2>3
<1>5. CASE j # c.id /\ j \notin c.held
  BY <1>2, <1>5
<1> QED
  BY <1>3, <1>4, <1>5

LEMMA UpsertStep ==
  ASSUME Inductive, NEW r \in Requests, Upsert(r), UNCHANGED book
  PROVE  Inductive'
<1> DEFINE c == request[r]
<1>1. /\ c \in Call /\ c.step = "upsert" /\ CallOK(c)
      /\ c.user \notin raced => Sound(c)
  BY InProgress DEF Upsert
<1>2. PICK u \in Users : u = c.user
  BY <1>1 DEF Call
<1>3. PICK i \in Ids : i = c.id
  BY <1>1 DEF Inductive, TypeOK, Call
<1>4. TypeOK /\ Unique
  BY DEF Inductive
<1>5. /\ profiles' \subseteq Users /\ (book = "cards" => profiles' = {})
      /\ failures' \in 0..MaxFailures /\ created' = created /\ created' <= MaxEntries
  BY <1>4, BookAssumption DEF TypeOK, Upsert
<1>6. CASE c.default /\ ~Indexed(r, u, i) /\ UNCHANGED rows
  <2>1. HasDefault(u)
    BY <1>6 DEF Indexed, HasDefault
  <2> QED
    BY <1>1, <1>2, <1>5, <1>6, <2>1, EndsHere DEF Upsert
<1>7. CASE /\ c.default => Indexed(r, u, i)
           /\ rows' = [j \in Ids |->
                IF j = i THEN [owner |-> u, default |-> c.default]
                ELSE IF j \in c.held THEN [rows[j] EXCEPT !.default = FALSE]
                ELSE rows[j]]
  <2>1. /\ rows' \in [Ids -> Row \cup {NoRow}]
        /\ \A j \in Ids :
             \/ rows'[j] = rows[j]
             \/ j \in Touched(c) /\ (rows'[j] = NoRow \/ rows'[j].owner = u)
    <3>1. rows' = [j \in Ids |->
             IF j = c.id THEN [owner |-> u, default |-> c.default]
             ELSE IF j \in c.held THEN [rows[j] EXCEPT !.default = FALSE]
             ELSE rows[j]]
      BY <1>3, <1>7
    <3> QED
      BY <1>1, <1>2, <3>1, UpsertedRows
  <2>2. Moves(r, u, Idle)
    <3>1. Touched(Idle) = {} /\ request' = [request EXCEPT ![r] = Idle]
      BY DEF Touched, Idle, Ids, Upsert, End
    <3> QED
      BY <1>2, <1>5, <2>1, <3>1 DEF Moves, Mine
  <2>3. CASE c.default
    <3>1. rows'[i] = [owner |-> u, default |-> TRUE] /\ rows'[i] # NoRow
      BY <1>7, <2>3, BookAssumption DEF NoRow
    <3>2. i \in Defaults(u)'
      BY <3>1 DEF Defaults, Listed
    <3>3. ASSUME NEW j \in Ids, j # i
          PROVE  j \notin Defaults(u)'
      <4>1. CASE j \in c.held
        <5>1. rows'[j] = [rows[j] EXCEPT !.default = FALSE]
          BY <1>7, <3>3, <4>1
        <5>2. rows[j] = NoRow \/ rows[j] \in Row
          BY <1>4, RowKind
        <5>3. ~rows'[j].default
          BY <5>1, <5>2 DEF NoRow, Row
        <5> QED
          BY <5>3 DEF Defaults
      <4>2. CASE j \notin c.held
        <5>1. rows'[j] = rows[j] /\ j \notin Defaults(u)
          BY <1>7, <2>3, <3>3, <4>2 DEF Indexed
        <5> QED
          BY <5>1 DEF Defaults, Listed
      <4> QED
        BY <4>1, <4>2
    <3>4. \A j \in Defaults(u)' : j = i
      BY <3>3 DEF Defaults, Listed
    <3>5. HasDefault(u)' /\ \A j, k \in Defaults(u)' : j = k
      BY <3>2, <3>4 DEF HasDefault
    <3> QED
      BY <1>2, <1>5, <2>2, <3>5, EndsWith DEF Upsert
  <2>4. CASE ~c.default
    <3>1. c.held = {} /\ \A j \in Ids \ {i} : rows'[j] = rows[j]
      BY <1>1, <1>7, <2>4 DEF CallOK
    <3>2. rows'[i].default = FALSE
      BY <1>1, <1>7, <2>4 DEF Call
    <3>3. Defaults(u)' = Defaults(u) \ {i}
      BY <3>1, <3>2 DEF Defaults, Listed
    <3>4. u \notin raced => HasDefault(u)'
      BY <1>1, <1>2, <1>3, <2>4, <3>3 DEF Sound, HasDefault
    <3>5. \A j, k \in Defaults(u)' : j = k
      BY <1>4, <3>3 DEF Unique
    <3> QED
      BY <1>2, <1>5, <2>2, <3>4, <3>5, EndsWith DEF Upsert
  <2> QED
    BY <2>3, <2>4
<1> QED
  BY <1>2, <1>3, <1>6, <1>7 DEF Upsert

LEMMA DeleteRowStep ==
  ASSUME Inductive, NEW r \in Requests, DeleteRow(r), UNCHANGED book
  PROVE  Inductive'
<1> DEFINE c == request[r]
<1>1. /\ c \in Call /\ c # Idle /\ c.step = "delete" /\ CallOK(c)
      /\ c.user \notin raced => Sound(c)
  BY InProgress DEF DeleteRow
<1>2. PICK u \in Users : u = c.user
  BY <1>1 DEF Call
<1>3. PICK i \in Ids : i = c.id
  BY <1>1 DEF Inductive, TypeOK, Call
<1>4. TypeOK /\ Unique
  BY DEF Inductive
<1>5. /\ profiles' \subseteq Users /\ (book = "cards" => profiles' = {})
      /\ failures' \in 0..MaxFailures /\ created' = created /\ created' <= MaxEntries
  BY <1>4, BookAssumption DEF TypeOK, DeleteRow
<1>6. /\ rows' \in [Ids -> Row \cup {NoRow}] /\ rows'[i] = NoRow
      /\ \A j \in Ids : j # i => rows'[j] = rows[j]
  BY <1>3, <1>4 DEF TypeOK, DeleteRow
<1>7. Defaults(u)' = Defaults(u) \ {i} /\ Listed(u)' = Listed(u) \ {i}
  BY <1>6 DEF Defaults, Listed
<1>8. \A j, k \in Defaults(u)' : j = k
  BY <1>4, <1>7 DEF Unique
<1>9. \A call : /\ call = Idle \/ (call \in Call /\ call.user = u)
                /\ request' = [request EXCEPT ![r] = call]
                /\ Touched(call) \subseteq Touched(c)
                => Moves(r, u, call)
  BY <1>2, <1>3, <1>5, <1>6 DEF Moves, Mine, Touched
<1>10. CASE rows[i] # NoRow /\ c.default
  <2>1. PICK next \in Call : next = [c EXCEPT !.step = "replace"]
    BY <1>1 DEF Call
  <2>2. /\ next.step = "replace" /\ next.user = u /\ next.id = i /\ next.held = c.held
        /\ request' = [request EXCEPT ![r] = next]
    BY <1>1, <1>2, <1>3, <1>10, <2>1 DEF Call, DeleteRow, Step
  <2>3. CallOK(next) /\ Touched(next) \subseteq Touched(c) /\ next # Idle
    BY <1>1, <1>3, <2>2 DEF CallOK, Touched, Idle
  <2>4. Moves(r, u, next)
    BY <1>9, <2>2, <2>3
  <2>5. Sound(next)'
    BY <2>2 DEF Sound
  <2>6. i # 0
    BY DEF Ids
  <2> QED
    BY <1>1, <1>5, <1>8, <2>2, <2>3, <2>4, <2>5, <2>6, MoveStep DEF DeleteRow
<1>11. CASE ~(rows[i] # NoRow /\ c.default)
  <2>1. Moves(r, u, Idle)
    <3>1. Touched(Idle) = {} /\ request' = [request EXCEPT ![r] = Idle]
      BY <1>3, <1>11 DEF Touched, Idle, Ids, DeleteRow, End
    <3> QED
      BY <1>9, <3>1
  <2>2. ASSUME u \notin raced
        PROVE  HasDefault(u)'
    <3>1. Sound(c)
      BY <1>1, <1>2, <2>2
    <3>2. HasDefault(u) /\ i \notin Defaults(u)
      BY <1>1, <1>2, <1>3, <1>11, <3>1 DEF Sound, Defaults, Listed
    <3> QED
      BY <1>7, <3>2 DEF HasDefault
  <2> QED
    BY <1>2, <1>5, <1>8, <2>1, <2>2, EndsWith DEF DeleteRow
<1> QED
  BY <1>10, <1>11

LEMMA CreateFirstStep ==
  ASSUME Inductive, NEW r \in Requests, CreateFirst(r), UNCHANGED book
  PROVE  Inductive'
<1> DEFINE c == request[r]
<1>1. c \in Call /\ c.step = "first" /\ CallOK(c)
  BY InProgress DEF CreateFirst
<1>2. PICK u \in Users : u = c.user
  BY <1>1 DEF Call
<1>3. TypeOK /\ Unique /\ Created /\ c.held = {} /\ book = "addresses"
  BY <1>1 DEF Inductive, CallOK
<1>4. PICK n \in Ids : n = created + 1 /\ created' = n /\ n <= MaxEntries
  BY <1>3, BookAssumption DEF TypeOK, CreateFirst, Ids
<1>5. /\ failures' \in 0..MaxFailures
      /\ profiles' \subseteq Users /\ (book = "cards" => profiles' = {})
  BY <1>2, <1>3 DEF TypeOK, CreateFirst
<1>6. n \notin Defaults(u)
  <2>1. created \in Nat /\ ~(n <= created)
    BY <1>3, <1>4 DEF TypeOK
  <2> QED
    BY <1>3, <2>1 DEF Created, Defaults, Listed
<1>7. Touched(Idle) = {} /\ request' = [request EXCEPT ![r] = Idle]
  BY DEF Touched, Idle, Ids, CreateFirst, End
<1>8. CASE Indexed(r, u, n) /\ rows' = [rows EXCEPT ![n] = [owner |-> u, default |-> TRUE]]
  <2>1. [owner |-> u, default |-> TRUE] \in Row
    BY DEF Row
  <2>2. /\ rows' \in [Ids -> Row \cup {NoRow}]
        /\ rows'[n] = [owner |-> u, default |-> TRUE]
        /\ \A i \in Ids : i # n => rows'[i] = rows[i]
    BY <1>3, <1>8, <2>1 DEF TypeOK
  <2>3. Moves(r, u, Idle)
    BY <1>2, <1>4, <1>7, <2>2 DEF Moves, Mine
  <2>4. Defaults(u) = {}
    BY <1>3, <1>6, <1>8 DEF Indexed
  <2>5. Defaults(u)' = {n}
    BY <2>2, <2>4, BookAssumption DEF Defaults, Listed, NoRow
  <2>6. HasDefault(u)' /\ \A i, j \in Defaults(u)' : i = j
    BY <2>5 DEF HasDefault
  <2> QED
    BY <1>2, <1>5, <2>3, <2>6, EndsWith DEF CreateFirst
<1>9. CASE ~Indexed(r, u, n) /\ UNCHANGED rows
  <2>1. Moves(r, u, Idle)
    BY <1>2, <1>3, <1>4, <1>7, <1>9 DEF Moves, TypeOK
  <2>2. Defaults(u)' = Defaults(u) /\ Listed(u)' = Listed(u)
    BY <1>9 DEF Defaults, Listed
  <2>3. HasDefault(u)' /\ \A i, j \in Defaults(u)' : i = j
    BY <1>3, <1>9, <2>2 DEF HasDefault, Indexed, Unique
  <2> QED
    BY <1>2, <1>5, <2>1, <2>3, EndsWith DEF CreateFirst
<1> QED
  BY <1>2, <1>4, <1>8, <1>9 DEF CreateFirst

LEMMA StopStep ==
  ASSUME Inductive, NEW r \in Requests, Stop(r), UNCHANGED book
  PROVE  Inductive'
<1>1. request[r] \in Call
  BY CallKind DEF Stop, Inductive
<1>2. PICK u \in Users : u = request[r].user
  BY <1>1 DEF Call
<1>3. TypeOK /\ Unique
  BY DEF Inductive
<1>4. /\ failures' \in 0..MaxFailures /\ created' = created /\ created' <= MaxEntries
      /\ profiles' \subseteq Users /\ (book = "cards" => profiles' = {})
      /\ raced' = raced \cup {u} /\ rows' = rows
      /\ rows \in [Ids -> Row \cup {NoRow}]
  BY <1>2, <1>3, BookAssumption DEF TypeOK, Stop
<1>5. Touched(Idle) = {} /\ request' = [request EXCEPT ![r] = Idle]
  BY DEF Touched, Idle, Ids, Stop, End
<1>6. Moves(r, u, Idle)
  BY <1>2, <1>4, <1>5 DEF Moves
<1>7. \A i, j \in Defaults(u)' : i = j
  BY <1>3, <1>4 DEF Unique, Defaults, Listed
<1> QED
  BY <1>2, <1>4, <1>6, <1>7, EndsWith

--------------------------------------------------------------------------------
(* The specification *)

LEMMA InitInductive ==
  ASSUME Init
  PROVE  Inductive
<1>1. \A r \in Requests : request[r] = Idle
  BY DEF Init
<1>2. \A u : Listed(u) = {} /\ Defaults(u) = {}
  BY DEF Init, Listed, Defaults
<1>3. \A u \in Users : Working(u) = {}
  BY <1>1, BookAssumption DEF Working, Idle
<1>4. Touched(Idle) = {} /\ CallOK(Idle)
  BY DEF Touched, CallOK, Idle, Ids
<1>5. TypeOK
  BY <1>1, BookAssumption DEF Init, TypeOK, Idle
<1>6. Created /\ Owned /\ Shared /\ CallsOK
  BY <1>1, <1>4 DEF Init, Created, Owned, Shared, CallsOK
<1>7. Unique /\ OneByOne
  BY <1>2, <1>3 DEF Unique, OneByOne, HasDefault
<1> QED
  BY <1>5, <1>6, <1>7 DEF Inductive

LEMMA NextInductive ==
  ASSUME Inductive, [Next]_vars
  PROVE  Inductive'
<1>1. ASSUME NEW r \in Requests, NEW u \in Users, AddressCall(r, u) \/ CardCall(r, u),
             UNCHANGED book
      PROVE  Inductive'
  BY <1>1, AddStep, EditChooseRemoveStep
     DEF AddressCall, CardCall, AddSavedAddress, UpdateSavedAddress, SetDefaultSavedAddress,
         DeleteSavedAddress, AddSavedCard, SaveCardOfPayment, UpdateSavedCard, SetDefaultSavedCard,
         DeleteSavedCard
<1>2. ASSUME Next
      PROVE  Inductive'
  BY <1>1, <1>2, UpdateUserProfileStep, FindOthersStep, ClearOthersStep, UpsertStep,
     DeleteRowStep, MakeDefaultStep, SaveProfileStep, CreateFirstStep, StopStep DEF Next
<1>3. ASSUME UNCHANGED vars
      PROVE  Inductive'
  BY <1>3 DEF vars, Inductive, TypeOK, Created, Owned, Shared, CallsOK, CallOK, Unique,
     OneByOne, HasDefault, Sound, Working, Defaults, Listed
<1> QED
  BY <1>2, <1>3

\* The invariant that the theorems below rest on.
THEOREM BookInductive == Spec => []Inductive
BY InitInductive, NextInductive, PTL DEF Spec

\* Rows, calls and profiles are of their types: a call has a row to save, also when
\* it looks for one to take the place of a default (MakeDefault).
THEOREM BookTypes == Spec => []TypeOK
<1>1. Inductive => TypeOK
  BY DEF Inductive
<1> QED
  BY <1>1, BookInductive, PTL

\* Nobody has two defaults, however many calls overlap; and who has rows and makes
\* one call after the other has one.
THEOREM OneDefaultEach == Spec => []OneDefault
<1>1. ASSUME Inductive, NEW u \in Users
      PROVE  /\ Cardinality(Defaults(u)) <= 1
             /\ Working(u) = {} /\ u \notin raced /\ Listed(u) # {} => Defaults(u) # {}
  <2>1. Unique /\ OneByOne
    BY <1>1 DEF Inductive
  <2>2. CASE Defaults(u) = {}
    BY <2>1, <2>2, FS_EmptySet DEF OneByOne, HasDefault
  <2>3. CASE Defaults(u) # {}
    <3>1. PICK i \in Defaults(u) : Defaults(u) = {i}
      BY <2>1, <2>3 DEF Unique
    <3>2. Cardinality(Defaults(u)) = 1
      BY <3>1, FS_Singleton
    <3> QED
      BY <2>3, <3>2
  <2> QED
    BY <2>2, <2>3
<1>2. Inductive => OneDefault
  BY <1>1 DEF OneDefault
<1> QED
  BY <1>2, BookInductive, PTL

--------------------------------------------------------------------------------
(* Rows of other users *)

\* A row changes by a save, by a delete, or when a profile creates it.
LEMMA WhoWrites ==
  ASSUME Inductive, [Next]_vars, NEW i \in Ids, rows[i] # NoRow, rows'[i] # rows[i]
  PROVE  \E r \in Requests :
           /\ i \in Touched(request[r]) /\ request[r] \in Call
           /\ request'[r].step # request[r].step
           /\ rows'[i] = NoRow \/ rows'[i].owner = request[r].user
<1>1. TypeOK /\ Created
  BY DEF Inductive
<1>2. PICK r \in Requests : Upsert(r) \/ DeleteRow(r) \/ CreateFirst(r)
  <2>1. Next
    BY DEF vars
  <2>2. \A r \in Requests, u \in Users :
          ~AddressCall(r, u) /\ ~CardCall(r, u) /\ ~UpdateUserProfile(r, u)
    BY DEF AddressCall, CardCall, AddSavedAddress, UpdateSavedAddress, UpdateUserProfile,
           SetDefaultSavedAddress, DeleteSavedAddress, AddSavedCard, SaveCardOfPayment, UpdateSavedCard,
           SetDefaultSavedCard, DeleteSavedCard, Add, Edit, Choose, Remove, OnOwn
  <2>3. \A r \in Requests : ~FindOthers(r) /\ ~ClearOthers(r) /\ ~MakeDefault(r)
                            /\ ~SaveProfile(r) /\ ~Stop(r)
    BY DEF FindOthers, ClearOthers, MakeDefault, SaveProfile, Stop
  <2> QED
    BY <2>1, <2>2, <2>3 DEF Next
<1>3. request[r] \in Call /\ request[r].step \in {"upsert", "delete", "first"}
  BY <1>2, InProgress DEF Upsert, DeleteRow, CreateFirst
<1>4. CASE Upsert(r)
  <2>1. request'[r].step = "none"
    BY <1>1, <1>4 DEF Upsert, End, TypeOK, Idle
  <2>2. PICK u \in Users : u = request[r].user
    BY <1>3 DEF Call
  <2>3. rows' = [j \in Ids |->
           IF j = request[r].id THEN [owner |-> u, default |-> request[r].default]
           ELSE IF j \in request[r].held THEN [rows[j] EXCEPT !.default = FALSE]
           ELSE rows[j]]
    BY <1>4, <2>2 DEF Upsert
  <2>4. i \in Touched(request[r]) /\ (rows'[i] = NoRow \/ rows'[i].owner = u)
    BY <1>4, <2>2, <2>3, UpsertedRows DEF Upsert
  <2> QED
    BY <1>3, <2>1, <2>2, <2>4
<1>5. CASE DeleteRow(r)
  <2>1. i = request[r].id /\ rows'[i] = NoRow
    BY <1>1, <1>5 DEF DeleteRow, TypeOK
  <2>2. request'[r].step \in {"none", "replace"}
    BY <1>1, <1>3, <1>5 DEF DeleteRow, Step, End, TypeOK, Idle, Call
  <2> QED
    BY <1>3, <1>5, <2>1, <2>2 DEF Touched, DeleteRow
<1>6. CASE CreateFirst(r)
  <2>1. i = created + 1 /\ created \in Nat
    BY <1>1, <1>6 DEF CreateFirst, TypeOK
  <2> QED
    BY <1>1, <2>1 DEF Created
<1> QED
  BY <1>2, <1>4, <1>5, <1>6

\* Only a call of its user changes a row, whatever has happened between what the
\* call has read and what it writes.
THEOREM RowsStayWithTheirUser == Spec => OthersUntouched
<1> DEFINE Untouched ==
      \A i \in Ids :
        rows[i] # NoRow /\ rows'[i] # rows[i] =>
          /\ \E r \in Working(rows[i].owner) : request'[r] # request[r]
          /\ rows'[i] # NoRow => rows'[i].owner = rows[i].owner
<1>1. ASSUME Inductive, [Next]_vars, NEW i \in Ids, rows[i] # NoRow, rows'[i] # rows[i]
      PROVE  /\ \E r \in Working(rows[i].owner) : request'[r] # request[r]
             /\ rows'[i] # NoRow => rows'[i].owner = rows[i].owner
  <2>1. PICK r \in Requests :
           /\ i \in Touched(request[r]) /\ request[r] \in Call
           /\ request'[r].step # request[r].step
           /\ rows'[i] = NoRow \/ rows'[i].owner = request[r].user
    BY <1>1, WhoWrites
  <2>2. rows[i].owner = request[r].user
    BY <1>1, <2>1 DEF Inductive, Owned
  <2> QED
    BY <2>1, <2>2 DEF Working
<1>2. Inductive /\ [Next]_vars => [Untouched]_vars
  BY <1>1
<1> QED
  BY <1>2, BookInductive, PTL DEF Spec, OthersUntouched
================================================================================
