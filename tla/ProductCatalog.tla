------------------------------ MODULE ProductCatalog ------------------------------
(***************************************************************************)
(* The catalogue edits of products-service next to its reservations.  A    *)
(* use case of the administrator (and the review of a customer) reads the  *)
(* whole product, builds the changed entity in memory and saves it with    *)
(* PrismaProductRepository.save, which writes every column of every        *)
(* variant, the counters stock and reservedStock included, and compares    *)
(* nothing with what is stored by then.                                    *)
(***************************************************************************)
EXTENDS Inventory

CONSTANTS
  Admins,        \* slots for edits made at the same time
  NewVariants,   \* ids for variants created later
  NewRow,        \* the row that a created variant gets
  EditPrices,    \* the prices and stocks that
  EditStocks     \* administrators enter for a variant

VARIABLES
  edit,          \* [Admins -> the entity to save]
  created        \* the ids of NewVariants already handed out

catalogVars == <<vars, edit, created>>

ASSUME CatalogAssumption ==
  /\ NewVariants \subseteq Variants \ InitiallyListed
  /\ NewRow \in Row /\ NewRow.reserved = 0
  /\ EditPrices \subseteq Prices /\ EditStocks \subseteq Nat

NoEdit == [open |-> FALSE]

\* A Product in memory: its variants with their rows, and its deletedAt.
Entity ==
  [open : {TRUE}, product : Products, variants : SUBSET Variants,
   rows : [Variants -> Row], deleted : BOOLEAN]

VariantsOf(p) == {v \in Variants : ProductOf[v] = p}

\* findById: the product with its variants, unless it has been deleted.
Found(p) ==
  [open |-> TRUE, product |-> p, variants |-> listed \cap VariantsOf(p),
   rows |-> [v \in Variants |-> IF v \in listed \cap VariantsOf(p) THEN rows[v] ELSE InitialRows[v]],
   deleted |-> FALSE]

Begin(a, p, entity) ==
  /\ edit[a] = NoEdit
  /\ p \notin deleted
  /\ edit' = [edit EXCEPT ![a] = entity]
  /\ UNCHANGED vars

\* PUT a product, or a customer's review: the variants are saved as they were read.
EditProduct(a, p) == Begin(a, p, Found(p)) /\ UNCHANGED created

\* Faulty variant of StockAllowed: any stock may be entered.
StockUnchecked(v, stock) == TRUE

\* The ProductVariant constructor refuses less stock than is reserved.
StockAllowed(v, stock) == stock >= rows[v].reserved

\* PUT a variant: a new price and a new physical stock.
EditVariant(a, v, price, stock) ==
  /\ v \in listed /\ StockAllowed(v, stock)
  /\ Begin(a, ProductOf[v],
           [Found(ProductOf[v]) EXCEPT !.rows[v].price = price, !.rows[v].stock = stock])
  /\ UNCHANGED created

\* POST a variant, under a fresh id.
AddVariant(a, v) ==
  /\ v \in NewVariants \ created
  /\ created' = created \cup {v}
  /\ Begin(a, ProductOf[v],
           [Found(ProductOf[v]) EXCEPT !.variants = @ \cup {v}, !.rows[v] = NewRow])

\* DELETE a variant, not the last one.
RemoveVariant(a, v) ==
  LET siblings == Found(ProductOf[v]).variants IN
  /\ v \in siblings /\ siblings # {v}
  /\ Begin(a, ProductOf[v], [Found(ProductOf[v]) EXCEPT !.variants = @ \ {v}])
  /\ UNCHANGED created

\* DELETE a product: Product.softDelete refuses while units are reserved.
NothingReserved(p) == \A v \in listed \cap VariantsOf(p) : rows[v].reserved = 0

DeleteProduct(a, p) ==
  /\ NothingReserved(p)
  /\ Begin(a, p, [Found(p) EXCEPT !.deleted = TRUE])
  /\ UNCHANGED created

\* The rows that the save deletes.
Dropped(e) == (listed \cap VariantsOf(e.product)) \ e.variants

\* Faulty variant of Referenced: no foreign key.
Unreferenced(v) == FALSE

\* The foreign key of InventoryReservationLine, onDelete Restrict.
Referenced(v) == \E o \in Orders : v \in DOMAIN reservations[o].lines

SavedRows(e) == [v \in Variants |-> IF v \in e.variants THEN e.rows[v] ELSE rows[v]]

\* PrismaProductRepository.save, one transaction.
Save(a) ==
  LET e == edit[a] IN
  /\ e # NoEdit
  /\ \A v \in Dropped(e) : ~Referenced(v)
  /\ rows' = SavedRows(e)
  /\ listed' = (listed \ VariantsOf(e.product)) \cup e.variants
  /\ deleted' = IF e.deleted THEN deleted \cup {e.product} ELSE deleted \ {e.product}
  /\ announced' = IF e.deleted THEN announced
                  ELSE [v \in Variants |-> IF v \in e.variants THEN e.rows[v] ELSE announced[v]]
  /\ edit' = [edit EXCEPT ![a] = NoEdit]
  /\ UNCHANGED <<reservations, task, batch, promised, now, created>>

\* The foreign key, an error or a crash: nothing is saved.
AbandonSave(a) ==
  /\ edit[a] # NoEdit
  /\ edit' = [edit EXCEPT ![a] = NoEdit]
  /\ UNCHANGED <<vars, created>>

--------------------------------------------------------------------------------
CatalogInit == Init /\ edit = [a \in Admins |-> NoEdit] /\ created = {}

CatalogStep(a) ==
  \/ \E p \in Products : EditProduct(a, p) \/ DeleteProduct(a, p)
  \/ \E v \in Variants, price \in EditPrices, stock \in EditStocks : EditVariant(a, v, price, stock)
  \/ \E v \in Variants : AddVariant(a, v) \/ RemoveVariant(a, v)
  \/ Save(a)
  \/ AbandonSave(a)

CatalogNext == (Next /\ UNCHANGED <<edit, created>>) \/ \E a \in Admins : CatalogStep(a)

CatalogSpec == CatalogInit /\ [][CatalogNext]_catalogVars

--------------------------------------------------------------------------------
(* Properties *)

CatalogTypeOK ==
  /\ TypeOK
  /\ edit \in [Admins -> {NoEdit} \cup Entity]
  /\ created \subseteq NewVariants

\* Whatever edits and reservations overwrite each other's counters, no row ever
\* has more units reserved than in stock, so that available stock is never
\* negative (ProductVariant and the compare-and-swap of the commit).
WithinStock == \A v \in Variants : rows[v].reserved <= rows[v].stock

\* Units change hands only at the price and from the catalogue of that moment:
\* a reservation made or confirmed from an outdated read is refused.
TradesAtCurrentPrice ==
  [][\A o \in Orders :
       /\ reservations[o].status # reservations'[o].status
       /\ reservations'[o].status \in {"ACTIVE", "CONFIRMED"}
       => CatalogMatches(reservations'[o].lines)]_catalogVars

\* A reservation never names a variant that has been removed, whatever was
\* removed while it was being made.
ReservedVariantsExist ==
  \A o \in Orders : DOMAIN reservations[o].lines \subseteq listed

\* The worker may give the units of o back: the catalogue is as the order saw
\* it, and the counters still cover it.
Releasable(o) ==
  LET lines == reservations[o].lines IN
  CatalogMatches(lines) /\ \A v \in DOMAIN lines : lines[v].quantity <= rows[v].reserved

\* The overdue reservations that a poll may read instead of o, and cannot end.
RefusedBefore(o) ==
  {p \in Due \ {o} : reservations[p].expiresAt <= reservations[o].expiresAt /\ ~Releasable(p)}

\* The worker has come to an answer on o, be it that the release is refused.
Answers(o) ==
  /\ task[Worker] # Idle /\ task[Worker].order = o
  /\ Snapshot(Worker) \/ Commit(Worker)
  /\ task'[Worker] = Idle

\* The worker's timer keeps firing, and each await of its loop ends, well or with an
\* error or a restart.  A query or a transaction may fail, though not at every
\* attempt at one reservation.  Customers and administrators get no fairness.
WorkerStep ==
  \/ Poll \/ (\E o \in Orders : ExpireNext(o))
  \/ Snapshot(Worker) \/ Commit(Worker) \/ Fail(Worker)

WorkerFairness ==
  /\ WF_catalogVars(WorkerStep /\ UNCHANGED <<edit, created>>)
  /\ \A o \in Orders :
       []<><<ExpireNext(o)>>_catalogVars => []<><<Answers(o)>>_catalogVars

FairCatalogSpec == CatalogSpec /\ WorkerFairness

\* An overdue reservation does not hold its stock for ever, unless a changed
\* price, a removed offer or an overwritten counter refuses its release again
\* and again, BatchLimit such reservations fill every poll ahead of it, or the
\* catalogue is edited without end (InventoryReservationExpirationWorker).
OverdueReservationsEnd ==
  \/ []<><<\E a \in Admins : Save(a)>>_catalogVars
  \/ \A o \in Orders :
       []<>(o \in Due => ~Releasable(o) \/ Cardinality(RefusedBefore(o)) >= BatchLimit)

\* The use case's test promises that stock is not reduced below what active
\* reservations hold.
StockCoversReservations == \A v \in Variants : Ledger!Held(v) <= rows[v].stock
================================================================================
