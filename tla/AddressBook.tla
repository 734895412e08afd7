------------------------------- MODULE AddressBook -------------------------------
(***************************************************************************)
(* The address book and the card wallet of cart-service.  A user adds,     *)
(* edits, deletes and picks a default among the saved addresses, and among *)
(* the saved cards.  Saving the profile of a user with no address adds its *)
(* address as the first, and paying an order may add its card.  The two    *)
(* tables share nothing but the shape of their code: a behaviour is that   *)
(* of one of them, which "book" says.                                      *)
(*                                                                         *)
(* Each use case reads first and saves later, without a lock in between.   *)
(* A save is a transaction (READ COMMITTED) of two statements: clear the   *)
(* default of the user's other rows, then upsert the row.  A partial       *)
(* unique index allows a user one default row.                             *)
(***************************************************************************)
EXTENDS Naturals, FiniteSets

CONSTANTS
  Users,
  Requests,      \* calls of the use cases that may be in progress at a time
  MaxEntries,    \* bound on rows ever created
  MaxFailures    \* bound on calls that stop half way

VARIABLES
  book,          \* the table at hand: saved addresses or saved cards
  rows,          \* that table, by order of createdAt
  created,       \* ids handed out
  profiles,      \* users with a row in table UserProfile
  request,       \* what each call in progress has in memory
  failures,      \* calls that stopped half way
  raced          \* users who had two calls at once, or one that stopped

vars == <<book, rows, created, profiles, request, failures, raced>>

ASSUME BookAssumption ==
  "none" \notin Users /\ MaxEntries \in Nat /\ MaxFailures \in Nat

Ids == 1..MaxEntries

\* What a saved address or a saved card is to the properties.
Row == [owner : Users, default : BOOLEAN]

NoRow == [owner |-> "none", default |-> FALSE]

Idle == [step |-> "none", user |-> "none", id |-> 0, default |-> FALSE, held |-> {}]

--------------------------------------------------------------------------------
(* The table *)

Listed(u) == {i \in Ids : rows[i] # NoRow /\ rows[i].owner = u}

Defaults(u) == {i \in Listed(u) : rows[i].default}

\* The first row of ORDER BY isDefault DESC, createdAt ASC.
FirstListed(u) ==
  LET leading == IF Defaults(u) # {} THEN Defaults(u) ELSE Listed(u)
  IN  CHOOSE i \in leading : \A j \in leading : i <= j

\* Rows that another transaction has updated and not committed yet.
Locked(r) ==
  UNION {request[q].held : q \in {q \in Requests \ {r} : request[q].step = "upsert"}}

\* The index one_default_per_user of either table, for a row that is to be default.
Indexed(r, u, i) == Defaults(u) \subseteq request[r].held \union {i}

--------------------------------------------------------------------------------
(* The use cases, up to the statement that changes the table *)

Working(u) == {r \in Requests : request[r].user = u}

Begin(r, u, call) ==
  /\ request[r] = Idle
  /\ request' = [request EXCEPT ![r] = call]
  /\ raced' = IF Working(u) # {} THEN raced \union {u} ELSE raced

Saving(u, i, default) ==
  [step |-> "save", user |-> u, id |-> i, default |-> default, held |-> {}]

\* The first one becomes the default whether or not it is asked to.
Add(r, u, isDefault) ==
  /\ created < MaxEntries
  /\ created' = created + 1
  /\ Begin(r, u, Saving(u, created', isDefault \/ Listed(u) = {}))
  /\ UNCHANGED <<rows, profiles, failures>>

BelongsTo(i, u) == rows[i] # NoRow /\ rows[i].owner = u

\* What is not found, or not the user's, ends the call at once.
OnOwn(r, u, i, call) ==
  /\ BelongsTo(i, u)
  /\ Begin(r, u, call)
  /\ UNCHANGED <<rows, created, profiles, failures>>

Edit(r, u, i) == OnOwn(r, u, i, Saving(u, i, rows[i].default))
Choose(r, u, i) == OnOwn(r, u, i, Saving(u, i, TRUE))
Remove(r, u, i) == OnOwn(r, u, i, [Saving(u, i, rows[i].default) EXCEPT !.step = "delete"])

AddSavedAddress(r, u, isDefault) == book = "addresses" /\ Add(r, u, isDefault)
UpdateSavedAddress(r, u, i) == book = "addresses" /\ Edit(r, u, i)
SetDefaultSavedAddress(r, u, i) == book = "addresses" /\ Choose(r, u, i)
DeleteSavedAddress(r, u, i) == book = "addresses" /\ Remove(r, u, i)

AddSavedCard(r, u, isDefault) == book = "cards" /\ Add(r, u, isDefault)

\* PayOrder with saveCard: the default only if it is the first one.  It is saved in the
\* transaction of the payment, by the same two statements; a payment that is rolled back
\* takes the card along (Stop).
SaveCardOfPayment(r, u) == book = "cards" /\ Add(r, u, FALSE)

UpdateSavedCard(r, u, i) == book = "cards" /\ Edit(r, u, i)
SetDefaultSavedCard(r, u, i) == book = "cards" /\ Choose(r, u, i)
DeleteSavedCard(r, u, i) == book = "cards" /\ Remove(r, u, i)

UpdateUserProfile(r, u) ==
  /\ book = "addresses"
  /\ Begin(r, u, [Saving(u, 0, TRUE) EXCEPT !.step = "profile"])
  /\ UNCHANGED <<rows, created, profiles, failures>>

--------------------------------------------------------------------------------
(* save: clear the other defaults, then upsert *)

Step(r, step) == request' = [request EXCEPT ![r].step = step]

End(r) == request' = [request EXCEPT ![r] = Idle]

\* Faulty variant of ToClear: the defaults of every user.
ToClearOfAll(r) ==
  IF request[r].default THEN UNION {Defaults(u) : u \in Users} \ {request[r].id} ELSE {}

\* The rows that the first statement has to clear.
ToClear(r) ==
  IF request[r].default THEN Defaults(request[r].user) \ {request[r].id} ELSE {}

\* updateMany finds them when it starts ...
FindOthers(r) ==
  /\ request[r].step = "save"
  /\ request' = [request EXCEPT ![r].step = "clear", ![r].held = ToClear(r)]
  /\ UNCHANGED <<rows, created, profiles, failures, raced>>

\* ... are looked at again after waiting for those that another updates.
ClearOthers(r) ==
  /\ request[r].step = "clear"
  /\ request[r].held \intersect Locked(r) = {}
  /\ request' = [request EXCEPT ![r].step = "upsert",
                                ![r].held = {i \in @ : rows[i].default}]
  /\ UNCHANGED <<rows, created, profiles, failures, raced>>

Upsert(r) ==
  LET i == request[r].id
      u == request[r].user
  IN  /\ request[r].step = "upsert"
      /\ i \notin Locked(r)
      /\ \/ /\ request[r].default => Indexed(r, u, i)
            /\ rows' = [j \in Ids |->
                 IF j = i THEN [owner |-> u, default |-> request[r].default]
                 ELSE IF j \in request[r].held THEN [rows[j] EXCEPT !.default = FALSE]
                 ELSE rows[j]]
         \/ \* the index refuses it, and the transaction is rolled back
            /\ request[r].default /\ ~Indexed(r, u, i)
            /\ UNCHANGED rows
      /\ End(r)
      /\ UNCHANGED <<created, profiles, failures, raced>>

--------------------------------------------------------------------------------
(* delete, and the save of the profile *)

\* Deleting a row that is gone throws.
DeleteRow(r) ==
  LET i == request[r].id
  IN  /\ request[r].step = "delete"
      /\ i \notin Locked(r)
      /\ rows' = [rows EXCEPT ![i] = NoRow]
      /\ IF rows[i] # NoRow /\ request[r].default THEN Step(r, "replace") ELSE End(r)
      /\ UNCHANGED <<created, profiles, failures, raced>>

\* Faulty variant of MakeDefault: the default is deleted and not replaced.
LeaveNoDefault(r) ==
  /\ request[r].step = "replace"
  /\ End(r)
  /\ UNCHANGED <<rows, created, profiles, failures, raced>>

\* Faulty variant of MakeDefault: nobody asks whether there is another row.
MakeDefaultUnchecked(r) ==
  LET u == request[r].user
      first == IF Listed(u) = {} THEN 0 ELSE FirstListed(u)
  IN  /\ request[r].step = "replace"
      /\ request' = [request EXCEPT ![r] = Saving(u, first, TRUE)]
      /\ UNCHANGED <<rows, created, profiles, failures, raced>>

\* Another row takes the place of the default that was deleted.
MakeDefault(r) ==
  LET u == request[r].user
  IN  /\ request[r].step = "replace"
      /\ IF Listed(u) = {} THEN End(r)
         ELSE request' = [request EXCEPT ![r] = Saving(u, FirstListed(u), TRUE)]
      /\ UNCHANGED <<rows, created, profiles, failures, raced>>

\* The upsert of the profile waits for another one of the same user.
SaveProfile(r) ==
  LET u == request[r].user
  IN  /\ request[r].step = "profile"
      /\ \A q \in Working(u) : request[q].step # "first"
      /\ IF Listed(u) # {}
           THEN profiles' = profiles \union {u} /\ End(r)
           ELSE Step(r, "first") /\ UNCHANGED profiles
      /\ UNCHANGED <<rows, created, failures, raced>>

\* The address of the profile becomes the first of the book, as default.
CreateFirst(r) ==
  LET u == request[r].user
  IN  /\ request[r].step = "first"
      /\ created < MaxEntries
      /\ created' = created + 1
      /\ \/ /\ Indexed(r, u, created')
            /\ rows' = [rows EXCEPT ![created'] = [owner |-> u, default |-> TRUE]]
            /\ profiles' = profiles \union {u}
         \/ ~Indexed(r, u, created') /\ UNCHANGED <<rows, profiles>>
      /\ End(r)
      /\ UNCHANGED <<failures, raced>>

\* The process or its database connection stops: what was not committed is
\* rolled back, and nothing takes the call up again.
Stop(r) ==
  /\ request[r] # Idle
  /\ failures < MaxFailures
  /\ failures' = failures + 1
  /\ raced' = raced \union {request[r].user}
  /\ End(r)
  /\ UNCHANGED <<rows, created, profiles>>

--------------------------------------------------------------------------------
Init ==
  /\ book \in {"addresses", "cards"}
  /\ rows = [i \in Ids |-> NoRow]
  /\ created = 0
  /\ profiles = {}
  /\ request = [r \in Requests |-> Idle]
  /\ failures = 0
  /\ raced = {}

AddressCall(r, u) ==
  \/ \E d \in BOOLEAN : AddSavedAddress(r, u, d)
  \/ \E i \in Ids : \/ UpdateSavedAddress(r, u, i)
                    \/ SetDefaultSavedAddress(r, u, i)
                    \/ DeleteSavedAddress(r, u, i)

CardCall(r, u) ==
  \/ SaveCardOfPayment(r, u)
  \/ \E d \in BOOLEAN : AddSavedCard(r, u, d)
  \/ \E i \in Ids : \/ UpdateSavedCard(r, u, i)
                    \/ SetDefaultSavedCard(r, u, i)
                    \/ DeleteSavedCard(r, u, i)

Next ==
  /\ UNCHANGED book
  /\ \E r \in Requests :
       \/ \E u \in Users : AddressCall(r, u) \/ CardCall(r, u) \/ UpdateUserProfile(r, u)
       \/ FindOthers(r) \/ ClearOthers(r) \/ Upsert(r)
       \/ DeleteRow(r) \/ MakeDefault(r)
       \/ SaveProfile(r) \/ CreateFirst(r)
       \/ Stop(r)

Spec == Init /\ [][Next]_vars

--------------------------------------------------------------------------------
(* Properties *)

\* What the variables hold; only the save of a profile is without a row.
TypeOK ==
  /\ book \in {"addresses", "cards"}
  /\ book = "cards" => profiles = {}
  /\ rows \in [Ids -> Row \union {NoRow}]
  /\ created \in 0..MaxEntries
  /\ profiles \subseteq Users
  /\ request \in [Requests ->
       [step : {"save", "clear", "upsert", "delete", "replace", "profile", "first"},
        user : Users, id : Ids \union {0}, default : BOOLEAN, held : SUBSET Ids]
       \union {Idle}]
  /\ \A r \in Requests :
       request[r].id = 0 <=> request[r].step \in {"none", "profile", "first"}
  /\ failures \in 0..MaxFailures
  /\ raced \subseteq Users

\* A user never has two default addresses or two default cards, whatever calls overlap; and a user
\* whose calls came one after the other and went through has one whenever
\* there is a row to choose, also after the default was deleted and
\* whatever other users did meanwhile (PrismaSavedAddressRepository.save,
\* DeleteSavedAddressUseCase, and the same of cards).
OneDefault ==
  \A u \in Users :
    /\ Cardinality(Defaults(u)) <= 1
    /\ Working(u) = {} /\ u \notin raced /\ Listed(u) # {} => Defaults(u) # {}

\* A step that changes a row or deletes it is taken by a call of the user
\* it belongs to, and no row changes hands: the check is made on
\* what a call read some steps before it writes (belongsTo, and the userId in
\* the where of updateMany).
OthersUntouched ==
  [][\A i \in Ids :
       rows[i] # NoRow /\ rows'[i] # rows[i] =>
         /\ \E r \in Working(rows[i].owner) : request'[r] # request[r]
         /\ rows'[i] # NoRow => rows'[i].owner = rows[i].owner]_vars
================================================================================
