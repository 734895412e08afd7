------------------------------- MODULE ProductFeed -------------------------------
(***************************************************************************)
(* The catalogue on its way from products-service to its two copies in     *)
(* MongoDB: one document per product, which products-service itself reads  *)
(* (products-projection), and one per variant, which cart-service reads    *)
(* when it prices a cart (cart-products-projection).  The copies carry no  *)
(* version: the order of the events is all that keeps them right.          *)
(*                                                                         *)
(* A product's columns, prices and stocks are an edition, new with every   *)
(* save.  What a save may write is ProductCatalog's subject; here it is    *)
(* that any save, also one that brings a deleted product back, is          *)
(* announced as it was written.                                            *)
(***************************************************************************)
EXTENDS OutboxRelay

CONSTANTS
  Products,
  Variants,
  ProductOf,     \* [Variants -> Products]
  MaxEditions    \* bound on the saves

VARIABLES
  rows,          \* tables Product and ProductVariant
  catalog,       \* collection of products-projection
  priced,        \* collection of cart-products-projection: by variant
  applying       \* the event that cart-products-projection is applying

vars == <<feedVars, rows, catalog, priced, applying>>

ASSUME ProductFeedAssumption ==
  /\ ProductOf \in [Variants -> Products] /\ {"catalog", "priced"} \subseteq Consumers
  /\ MaxEditions \in Nat

VariantsOf(p) == {v \in Variants : ProductOf[v] = p}

Content == [edition : 1..MaxEditions, variants : SUBSET Variants]
Gone == [edition |-> 0, variants |-> {}]

Event == [product : Products, content : Content \cup {Gone}]

ASSUME EventAssumption == Event \subseteq Events /\ \A e \in Event : RowOf[e] = e.product

Resting == [left |-> {}, prune |-> FALSE]

--------------------------------------------------------------------------------
(* products-service *)

\* The row and its event in one transaction.
Write(p, content) ==
  /\ rows' = [rows EXCEPT ![p] = content]
  /\ Announce([product |-> p, content |-> content])
  /\ UNCHANGED <<published, polling, poll, topic, offset, failures, catalog, priced, applying>>

NextEdition(vs) == [edition |-> Len(outbox) + 1, variants |-> vs]
MayWrite == Len(outbox) < MaxEditions
Known(p) == \E i \in DOMAIN outbox : outbox[i].product = p

CreateProduct(p, vs) == MayWrite /\ ~Known(p) /\ Write(p, NextEdition(vs))

\* Of an entity read before: the product may be deleted by now, and is not after.
SaveProduct(p, vs) == MayWrite /\ Known(p) /\ Write(p, NextEdition(vs))

\* Of an entity read before: the product may be deleted already.
DeleteProduct(p) == MayWrite /\ Known(p) /\ Write(p, Gone)

\* enqueueChangedProducts: the counters of a product that is there.  An order of
\* several products announces each; the copies relate no two of them.
CommitReservation(p) ==
  /\ MayWrite /\ rows[p] # Gone
  /\ Write(p, NextEdition(rows[p].variants))

--------------------------------------------------------------------------------
(* products-projection: one document is replaced, or deleted *)

HandleProduct ==
  LET e == Message("catalog") IN
  /\ Unread("catalog")
  /\ catalog' = [catalog EXCEPT ![e.product] = e.content]
  /\ Handled("catalog")
  /\ UNCHANGED <<relayVars, failures, rows, priced, applying>>

--------------------------------------------------------------------------------
(* cart-products-projection: one document after the other, then the others go *)

\* An event with nothing to save has only documents to delete.
TakeEvent ==
  /\ Unread("priced") /\ applying = Resting
  /\ applying' = [left |-> Message("priced").content.variants, prune |-> TRUE]
  /\ UNCHANGED <<feedVars, rows, catalog, priced>>

ReplaceOne(v) ==
  /\ v \in applying.left
  /\ priced' = [priced EXCEPT ![v] = Message("priced").content.edition]
  /\ applying' = [applying EXCEPT !.left = @ \ {v}]
  /\ UNCHANGED <<feedVars, rows, catalog>>

\* Faulty variant of Pruned: what the product no longer has stays.
NotPruned(e) == priced

Pruned(e) ==
  [v \in Variants |-> IF v \in VariantsOf(e.product) \ e.content.variants THEN 0 ELSE priced[v]]

DeleteMany ==
  /\ applying.prune /\ applying.left = {}
  /\ priced' = Pruned(Message("priced"))
  /\ applying' = Resting
  /\ Handled("priced")
  /\ UNCHANGED <<relayVars, failures, rows, catalog>>

\* The process stops, with an event half applied: it will be applied again.
Restart(c) ==
  /\ Rewind(c)
  /\ applying' = IF c = "priced" THEN Resting ELSE applying
  /\ UNCHANGED <<relayVars, rows, catalog, priced>>

--------------------------------------------------------------------------------
Init ==
  /\ FeedInit
  /\ rows = [p \in Products |-> Gone]
  /\ catalog = [p \in Products |-> Gone]
  /\ priced = [v \in Variants |-> 0]
  /\ applying = Resting

Copies == <<rows, catalog, priced, applying>>

Projecting == HandleProduct \/ TakeEvent \/ (\E v \in Variants : ReplaceOne(v)) \/ DeleteMany

Next ==
  \/ \E p \in Products :
       \/ \E vs \in SUBSET VariantsOf(p) \ {{}} : CreateProduct(p, vs) \/ SaveProduct(p, vs)
       \/ DeleteProduct(p)
       \/ CommitReservation(p)
  \/ (Relay \/ Stop) /\ UNCHANGED Copies
  \/ Projecting
  \/ \E c \in Consumers : Restart(c)

Spec == Init /\ [][Next]_vars

\* The timer polls again and again, and kafkajs hands over what it has.  Nothing
\* makes anyone save a product, and failures come to an end.
FairSpec ==
  /\ Spec
  /\ WF_vars(Relay /\ UNCHANGED Copies)
  /\ WF_vars(HandleProduct)
  /\ WF_vars(TakeEvent \/ (\E v \in Variants : ReplaceOne(v)) \/ DeleteMany)

--------------------------------------------------------------------------------
(* Properties *)

\* The events of a product among those of the given positions.
Of(events, S, p) == {i \in S : events[i].product = p}

\* Whatever the relay has published twice or not yet, the last event of a product
\* in the outbox, or in the topic when none is pending, is its row: an old event is
\* never published again after a newer one (the flag of pollOnce, createdAt).
FeedEndsWithRow ==
  \A p \in Products :
    LET waiting == Of(outbox, Pending, p)
        sent    == Of(topic, DOMAIN topic, p)
    IN  rows[p] = IF waiting # {} THEN outbox[Max(waiting)].content
                  ELSE IF sent # {} THEN topic[Max(sent)].content ELSE Gone

DocumentsOf(p, content) ==
  \A v \in VariantsOf(p) :
    priced[v] = IF v \in content.variants THEN content.edition ELSE 0

\* The documents of a product, which are written one by one and half of them when
\* the process stops, are together those of the last event handled since it
\* started: all of its variants, all of one edition, and no other.
AppliedWholly ==
  applying = Resting =>
    \A p \in Products :
      LET o == offset["priced"]
          handled == Of(topic, o.from + 1 .. o.done, p)
      IN  handled # {} => DocumentsOf(p, topic[Max(handled)].content)

\* When the catalogue is left alone both copies come to agree with it and stay so.
CopiesCatchUp ==
  <>[](catalog = rows /\ \A p \in Products : DocumentsOf(p, rows[p]))
================================================================================
