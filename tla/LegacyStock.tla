----------------------------- MODULE LegacyStock -----------------------------
(***************************************************************************)
(* The stock of the legacy server, the SQLite application in production:   *)
(* boxes and items with codes generated beforehand are packed at a factory,*)
(* received, shipped to distributors as whole boxes or item by item, and   *)
(* all of it can be cancelled, and codes invalidated or deleted.           *)
(*                                                                         *)
(* A handler runs to its end in one turn of the event loop, and its writes *)
(* are synchronous: each is one action.  A refused request, and a trigger  *)
(* that aborts the transaction, changes nothing and is no action.  A batch *)
(* of shipments or deletions is as many actions.  Brands and roles limit   *)
(* who may act on what and are left out; any factory that is authorized    *)
(* for the product may be named, by itself or by the brand.                *)
(***************************************************************************)
EXTENDS Naturals, FiniteSets

CONSTANTS
  Boxes, Items,   \* the codes
  StockProducts, Batches, StockFactories, Distributors, Null,
  FactoriesFor,   \* [StockProducts -> SUBSET StockFactories], product_factories
  ProductSize,    \* [StockProducts -> Nat], products.box_size, zero if not known
  Sizes,          \* what may be entered as a box's size
  Printed         \* [Boxes \cup Items -> lots], what a code was generated for; either
                  \* field may be Null

StockCodes == Boxes \cup Items
Lot == [product : StockProducts, batch : Batches]

ASSUME StockAssumption ==
  /\ Boxes \cap Items = {} /\ IsFiniteSet(Items)
  /\ FactoriesFor \in [StockProducts -> SUBSET StockFactories]
  /\ ProductSize \in [StockProducts -> Nat]
  /\ Sizes \subseteq Nat \ {0}
  /\ Printed \in [StockCodes -> [product : StockProducts \cup {Null},
                                 batch : Batches \cup {Null}]]
  /\ Null \notin StockCodes \cup StockProducts \cup Batches \cup StockFactories
                 \cup Distributors

VARIABLES
  boxes, items,  \* the tables; a deleted row has the status "deleted"
  shipments,     \* rows of shipments: of a box, or of an item, wherever it is
  packRecords,   \* the codes that pack_records names
  queried        \* the items that a consumer has looked up: scanned_at is set

boxVars == <<boxes, items, shipments, packRecords, queried>>

\* distributor stands for distributor_id and shipped_at, written together.
Box == [product : StockProducts \cup {Null}, batch : Batches \cup {Null},
        size : Nat, count : Nat,
        status : {"in_stock", "shipped", "invalid", "deleted"},
        distributor : Distributors \cup {Null}, factory : StockFactories \cup {Null},
        confirmed : BOOLEAN]
Item == [box : Boxes \cup {Null},
         product : StockProducts \cup {Null}, batch : Batches \cup {Null},
         status : {"in_stock", "scanned", "shipped", "invalid", "deleted"},
         boxed : BOOLEAN,
         distributor : Distributors \cup {Null}, factory : StockFactories \cup {Null}]
Shipment == [box : Boxes \cup {Null}, item : Items \cup {Null},
             distributor : Distributors]

\* Some codes were deleted before, and some items looked up.
StockInitWith(deleted, seen) ==
  /\ boxes = [b \in Boxes |->
       [product |-> Printed[b].product, batch |-> Printed[b].batch,
        size |-> 0, count |-> 0,
        status |-> IF b \in deleted THEN "deleted" ELSE "in_stock",
        distributor |-> Null, factory |-> Null, confirmed |-> FALSE]]
  /\ items = [i \in Items |->
       [box |-> Null, product |-> Printed[i].product, batch |-> Printed[i].batch,
        status |-> IF i \in deleted THEN "deleted" ELSE "in_stock",
        boxed |-> FALSE, distributor |-> Null, factory |-> Null]]
  /\ shipments = {} /\ packRecords = {} /\ queried = seen

StockInit == StockInitWith({}, {})

-----------------------------------------------------------------------------
(* What the handlers ask *)

Exists(c) == IF c \in Boxes THEN boxes[c].status # "deleted"
                            ELSE items[c].status # "deleted"
Within(b) == {i \in Items : items[i].box = b}
BoxShipped(b) == boxes[b].status = "shipped" \/ boxes[b].distributor # Null

itemHasShipment(i) ==
  \/ items[i].status = "shipped" \/ items[i].distributor # Null
  \/ \E row \in shipments : row.item = i
  \/ items[i].box # Null /\ BoxShipped(items[i].box)

Alike(i, product, batch) == items[i].product = product /\ items[i].batch = batch

\* The triggers and boxConflict: what is in a box is of the box's product and batch.
NoConflict(b) == \A i \in Within(b) : Alike(i, boxes[b].product, boxes[b].batch)

\* resolvePackingFactory and operationFactory: an authorized one, and never another
\* than the one that has the code already.
MayPack(f, product, owner) ==
  /\ product # Null
  /\ f = owner \/ (owner = Null /\ f \in FactoriesFor[product])
PackingFactory(f, product, owner) ==
  MayPack(f, product, owner) /\ f \in FactoriesFor[product]

Open(b) == boxes[b].status = "in_stock" /\ ~boxes[b].confirmed
SizeOf(b) == IF boxes[b].size # 0 THEN boxes[b].size ELSE ProductSize[boxes[b].product]

-----------------------------------------------------------------------------
(* Packing and receipt *)

\* Mutant: the triggers on boxes are missing.
SetProductUnguarded(b, lot, size, f) ==
  /\ Open(b)
  /\ PackingFactory(f, lot.product, boxes[b].factory)
  /\ \A i \in Within(b) : items[i].product = lot.product
  /\ size >= Cardinality(Within(b))
  /\ boxes' = [boxes EXCEPT ![b].product = lot.product, ![b].batch = lot.batch,
                            ![b].size = size, ![b].factory = f]
  /\ UNCHANGED <<items, shipments, packRecords, queried>>

SetProduct(b, lot, size, f) ==
  /\ Open(b)
  /\ PackingFactory(f, lot.product, boxes[b].factory)
  /\ \A i \in Within(b) : Alike(i, lot.product, lot.batch)
  /\ size >= Cardinality(Within(b))
  /\ boxes' = [boxes EXCEPT ![b].product = lot.product, ![b].batch = lot.batch,
                            ![b].size = size, ![b].factory = f]
  /\ UNCHANGED <<items, shipments, packRecords, queried>>

\* An item that no receipt or shipment has, of no other product, batch or factory.
Free(i, lot, f) ==
  /\ items[i].status = "in_stock" /\ items[i].box = Null /\ ~items[i].boxed
  /\ ~itemHasShipment(i)
  /\ items[i].factory \in {Null, f}
  /\ items[i].product \in {Null, lot.product}
  /\ items[i].batch \in {Null, lot.batch}

Receive(S, b, lot, f) ==
  items' = [i \in Items |-> IF i \in S
              THEN [items[i] EXCEPT !.box = b, !.product = lot.product,
                      !.batch = lot.batch, !.status = "scanned", !.boxed = TRUE,
                      !.factory = f]
              ELSE items[i]]

LotOf(b) == [product |-> boxes[b].product, batch |-> boxes[b].batch]

Scan(b, i, size, f) ==
  /\ Open(b) /\ boxes[b].product # Null /\ boxes[b].batch # Null
  /\ NoConflict(b)
  /\ PackingFactory(f, boxes[b].product, boxes[b].factory)
  /\ Cardinality(Within(b)) < size
  /\ Free(i, LotOf(b), f)
  /\ Receive({i}, b, LotOf(b), f)
  /\ boxes' = [boxes EXCEPT ![b].count = Cardinality(Within(b)) + 1,
                            ![b].size = size, ![b].factory = f]
  /\ packRecords' = packRecords \cup {b, i}
  /\ UNCHANGED <<shipments, queried>>

\* Items that are in the box already may be among the requested ones.
Bind(b, S, f) ==
  LET added == S \ Within(b)
      count == Cardinality(Within(b) \cup S)
  IN /\ Open(b) /\ boxes[b].distributor = Null
     /\ NoConflict(b)
     /\ MayPack(f, boxes[b].product, boxes[b].factory)
     /\ boxes[b].size > 0 => count <= boxes[b].size
     /\ \A i \in S \cap Within(b) : /\ items[i].status # "invalid" /\ ~itemHasShipment(i)
                                    /\ items[i].factory \in {Null, f}
     /\ \A i \in added : Free(i, LotOf(b), f)
     /\ Receive(added, b, LotOf(b), f)
     /\ boxes' = [boxes EXCEPT ![b].count = count, ![b].factory = f]
     /\ packRecords' = packRecords \cup added \cup (IF added = {} THEN {} ELSE {b})
     /\ UNCHANGED <<shipments, queried>>

\* The receipt of a full box.
Confirm(b, f) ==
  /\ Open(b) /\ NoConflict(b)
  /\ PackingFactory(f, boxes[b].product, boxes[b].factory)
  /\ SizeOf(b) # 0 /\ Cardinality(Within(b)) = SizeOf(b)
  /\ boxes' = [boxes EXCEPT ![b].count = Cardinality(Within(b)), ![b].factory = f,
                            ![b].confirmed = TRUE]
  /\ items' = [i \in Items |-> IF i \in Within(b) THEN [items[i] EXCEPT !.factory = f]
                                                  ELSE items[i]]
  /\ packRecords' = packRecords \cup {b}
  /\ UNCHANGED <<shipments, queried>>

\* The receipt of an item that goes into no box.
ScanNoBox(i, lot, f) ==
  /\ f \in FactoriesFor[lot.product]
  /\ Free(i, lot, f)
  /\ Receive({i}, Null, lot, f)
  /\ packRecords' = packRecords \cup {i}
  /\ UNCHANGED <<boxes, shipments, queried>>

-----------------------------------------------------------------------------
(* Cancellation of a receipt *)

clearItemReceipt(S) ==
  items' = [i \in Items |-> IF i \in S
              THEN [box |-> Null, product |-> Null, batch |-> Null,
                    status |-> "in_stock", boxed |-> FALSE,
                    distributor |-> Null, factory |-> Null]
              ELSE items[i]]

clearedBox ==
  [product |-> Null, batch |-> Null, size |-> 0, count |-> 0,
   status |-> "in_stock", distributor |-> Null, factory |-> Null,
   confirmed |-> FALSE]

Boxed(i) == IF items[i].box = Null THEN {} ELSE {items[i].box}

\* Mutant: the receipt of the box stays confirmed.
TakeOutConfirmed(i) ==
  LET b == items[i].box
      rest == Within(b) \ {i}
  IN /\ items[i].status \notin {"invalid", "deleted"} /\ ~itemHasShipment(i)
     /\ clearItemReceipt({i})
     /\ boxes' = IF b = Null THEN boxes
                 ELSE [boxes EXCEPT ![b] = IF rest = {} THEN clearedBox
                         ELSE [@ EXCEPT !.count = Cardinality(rest)]]
     /\ packRecords' = packRecords \cup {i} \cup Boxed(i)
     /\ UNCHANGED <<shipments, queried>>

\* The box is not confirmed any more, and is blank again with its last item gone.
TakeOut(i) ==
  LET b == items[i].box
      rest == Within(b) \ {i}
  IN /\ items[i].status \notin {"invalid", "deleted"} /\ ~itemHasShipment(i)
     /\ clearItemReceipt({i})
     /\ boxes' = IF b = Null THEN boxes
                 ELSE [boxes EXCEPT ![b] = IF rest = {} THEN clearedBox
                         ELSE [@ EXCEPT !.count = Cardinality(rest),
                                        !.confirmed = FALSE]]
     /\ packRecords' = packRecords \cup {i} \cup Boxed(i)
     /\ UNCHANGED <<shipments, queried>>

Unbind(i) == items[i].box # Null /\ TakeOut(i)

CancelItem(i) ==
  /\ \/ items[i].box # Null
     \/ items[i].status = "scanned" /\ items[i].boxed /\ items[i].product # Null
  /\ TakeOut(i)

CancelBox(b) ==
  /\ boxes[b].status = "in_stock" /\ boxes[b].distributor = Null
  /\ \A row \in shipments : row.box # b
  /\ \A i \in Within(b) : ~itemHasShipment(i) /\ items[i].status # "invalid"
  /\ boxes[b].product # Null \/ Within(b) # {}
  /\ clearItemReceipt(Within(b))
  /\ boxes' = [boxes EXCEPT ![b] = clearedBox]
  /\ packRecords' = packRecords \cup Within(b)
                      \cup (IF Within(b) = {} THEN {} ELSE {b})
  /\ UNCHANGED <<shipments, queried>>

-----------------------------------------------------------------------------
(* Shipping *)

ShipBox(b, d) ==
  /\ boxes[b].status = "in_stock" /\ boxes[b].confirmed
  /\ boxes[b].product # Null /\ Within(b) # {}
  /\ boxes[b].distributor = Null
  /\ \A row \in shipments : row.box # b
  /\ \A i \in Within(b) : items[i].status # "invalid" /\ ~itemHasShipment(i)
  /\ Cardinality(Within(b)) >= boxes[b].size
  /\ NoConflict(b)
  /\ boxes' = [boxes EXCEPT ![b].status = "shipped", ![b].distributor = d]
  /\ items' = [i \in Items |-> IF i \in Within(b)
                 THEN [items[i] EXCEPT !.status = "shipped", !.distributor = d]
                 ELSE items[i]]
  /\ shipments' = shipments \cup {[box |-> b, item |-> Null, distributor |-> d]}
  /\ UNCHANGED <<packRecords, queried>>

\* The box it is taken from stays as it is.
ShipItem(i, d) ==
  LET b == items[i].box
  IN /\ items[i].status \notin {"invalid", "deleted"} /\ ~itemHasShipment(i)
     /\ items[i].product # Null
     /\ IF b = Null THEN items[i].boxed
        ELSE /\ boxes[b].status # "invalid" /\ boxes[b].confirmed
             /\ Alike(i, boxes[b].product, boxes[b].batch)
     /\ items' = [items EXCEPT ![i].status = "shipped", ![i].distributor = d]
     /\ shipments' = shipments \cup {[box |-> b, item |-> i, distributor |-> d]}
     /\ UNCHANGED <<boxes, packRecords, queried>>

\* Mutant: all items of the box are in stock again.
CancelBoxShipmentAll(b) ==
  /\ boxes[b].status \in {"in_stock", "shipped"}
  /\ BoxShipped(b) \/ \E row \in shipments : row.box = b
  /\ boxes' = [boxes EXCEPT ![b].status = "in_stock", ![b].distributor = Null]
  /\ items' = [i \in Items |-> IF i \in Within(b)
                 THEN [items[i] EXCEPT !.status = "scanned", !.distributor = Null]
                 ELSE items[i]]
  /\ shipments' = {row \in shipments : row.box # b}
  /\ UNCHANGED <<packRecords, queried>>

\* Of the box as a whole, or of all items that were shipped from it.
CancelBoxShipment(b) ==
  /\ boxes[b].status \in {"in_stock", "shipped"}
  /\ BoxShipped(b) \/ \E row \in shipments : row.box = b
  /\ boxes' = [boxes EXCEPT ![b].status = "in_stock", ![b].distributor = Null]
  /\ items' = [i \in Items |-> IF i \in Within(b)
                 THEN [items[i] EXCEPT
                         !.status = IF @ = "invalid" THEN "invalid" ELSE "scanned",
                         !.distributor = Null]
                 ELSE items[i]]
  /\ shipments' = {row \in shipments : row.box # b}
  /\ UNCHANGED <<packRecords, queried>>

\* Mutant: the rows of shipments stay for the record.
CancelItemShipmentKept(i) ==
  /\ items[i].status \notin {"invalid", "deleted"} /\ itemHasShipment(i)
  /\ items[i].box = Null
     \/ \A row \in shipments : ~(row.box = items[i].box /\ row.item = Null)
  /\ items' = [items EXCEPT
       ![i].status = IF items[i].box # Null \/ items[i].boxed THEN "scanned"
                                                              ELSE "in_stock",
       ![i].distributor = Null]
  /\ UNCHANGED <<boxes, shipments, packRecords, queried>>

\* An item that was shipped within its box is cancelled with it.
CancelItemShipment(i) ==
  /\ items[i].status \notin {"invalid", "deleted"} /\ itemHasShipment(i)
  /\ items[i].box = Null
     \/ \A row \in shipments : ~(row.box = items[i].box /\ row.item = Null)
  /\ items' = [items EXCEPT
       ![i].status = IF items[i].box # Null \/ items[i].boxed THEN "scanned"
                                                              ELSE "in_stock",
       ![i].distributor = Null]
  /\ shipments' = {row \in shipments : row.item # i}
  /\ UNCHANGED <<boxes, packRecords, queried>>

-----------------------------------------------------------------------------
(* Codes *)

\* A code of any state may be invalidated, a box without what is in it.
InvalidateBox(b) ==
  /\ boxes[b].status \notin {"invalid", "deleted"}
  /\ boxes' = [boxes EXCEPT ![b].status = "invalid"]
  /\ UNCHANGED <<items, shipments, packRecords, queried>>

\* Mutant: a status that no handler knows of.
InvalidateItemVoid(i) ==
  /\ items[i].status \notin {"invalid", "deleted"}
  /\ items' = [items EXCEPT ![i].status = "void"]
  /\ UNCHANGED <<boxes, shipments, packRecords, queried>>

InvalidateItem(i) ==
  /\ items[i].status \notin {"invalid", "deleted"}
  /\ items' = [items EXCEPT ![i].status = "invalid"]
  /\ UNCHANGED <<boxes, shipments, packRecords, queried>>

\* Mutant: whatever the box has been through.
DeleteBoxUsed(b) ==
  /\ boxes[b].status = "in_stock"
  /\ boxes' = [boxes EXCEPT ![b].status = "deleted"]
  /\ UNCHANGED <<items, shipments, packRecords, queried>>

\* Only what was never used can be deleted.
DeleteBox(b) ==
  /\ boxes[b].status = "in_stock" /\ boxes[b].distributor = Null
  /\ \A row \in shipments : row.box # b
  /\ b \notin packRecords /\ Within(b) = {}
  /\ boxes' = [boxes EXCEPT ![b].status = "deleted"]
  /\ UNCHANGED <<items, shipments, packRecords, queried>>

DeleteItem(i) ==
  /\ items[i].status \in {"in_stock", "scanned"} /\ items[i].distributor = Null
  /\ ~items[i].boxed /\ i \notin queried /\ i \notin packRecords
  /\ \A row \in shipments : row.item # i
  /\ items' = [items EXCEPT ![i].status = "deleted"]
  /\ UNCHANGED <<boxes, shipments, packRecords, queried>>

\* A consumer's look-up changes nothing but scanned_at.
LookUp(i) ==
  /\ items[i].status # "deleted" /\ i \notin queried
  /\ queried' = queried \cup {i}
  /\ UNCHANGED <<boxes, items, shipments, packRecords>>

-----------------------------------------------------------------------------

Pack == \E b \in Boxes, f \in StockFactories :
  \/ \E lot \in Lot, size \in Sizes : SetProduct(b, lot, size, f)
  \/ \E i \in Items, size \in Sizes : Scan(b, i, size, f)
  \/ \E S \in SUBSET Items : S # {} /\ Bind(b, S, f)
  \/ Confirm(b, f)

StockNext ==
  \/ Pack
  \/ \E i \in Items, lot \in Lot, f \in StockFactories : ScanNoBox(i, lot, f)
  \/ \E i \in Items : Unbind(i) \/ CancelItem(i) \/ CancelItemShipment(i)
                        \/ InvalidateItem(i) \/ DeleteItem(i) \/ LookUp(i)
  \/ \E b \in Boxes : CancelBox(b) \/ CancelBoxShipment(b)
                        \/ InvalidateBox(b) \/ DeleteBox(b)
  \/ \E d \in Distributors : \/ \E b \in Boxes : ShipBox(b, d)
                             \/ \E i \in Items : ShipItem(i, d)

StockSpec == StockInit /\ [][StockNext]_boxVars

-----------------------------------------------------------------------------
(* Properties *)

StockTypeOK ==
  /\ boxes \in [Boxes -> Box]
  /\ items \in [Items -> Item]
  /\ shipments \subseteq Shipment
  /\ packRecords \subseteq StockCodes
  /\ queried \subseteq Items

\* A box counts what is in it, and one whose receipt is confirmed is full, however
\* items were bound, scanned, shipped, taken out and put in again.
ConfirmedIsFull == \A b \in Boxes :
  /\ boxes[b].count = Cardinality(Within(b))
  /\ boxes[b].confirmed => boxes[b].product # Null /\ boxes[b].count = SizeOf(b)

\* What is in a box was received by the same factory, and is of the same product
\* and batch: batches are not mixed, and no receipt is booked to two factories.
OneReceipt == \A i \in Items : items[i].box # Null =>
  /\ Alike(i, boxes[items[i].box].product, boxes[items[i].box].batch)
  /\ items[i].factory # Null /\ items[i].factory = boxes[items[i].box].factory

\* An item has a distributor exactly if a shipment of that distributor names it, or
\* the box that it is in; a box, exactly if a shipment names it as a whole.
ShipmentsTellWhere ==
  /\ \A i \in Items : LET rows == {row \in shipments :
                            \/ row.item = i
                            \/ row.item = Null /\ row.box = items[i].box}
                      IN {row.distributor : row \in rows} = {items[i].distributor} \ {Null}
  /\ \A b \in Boxes : LET rows == {row \in shipments : row.item = Null /\ row.box = b}
                      IN {row.distributor : row \in rows} = {boxes[b].distributor} \ {Null}
  /\ \A i \in Items : items[i].status = "shipped" => items[i].distributor # Null
  /\ \A b \in Boxes : boxes[b].status = "shipped" => boxes[b].distributor # Null

\* Codes that a receipt or a shipment refers to exist.
NoOrphans ==
  /\ \A i \in Items : items[i].box # Null \/ items[i].boxed =>
       Exists(i) /\ (items[i].box # Null => Exists(items[i].box))
  /\ \A row \in shipments : /\ row.box # Null => Exists(row.box)
                            /\ row.item # Null => Exists(row.item)
  /\ \A c \in packRecords : Exists(c)

\* What a box says is in it is in it, and is there.
BoxesSound == StockTypeOK /\ ConfirmedIsFull /\ NoOrphans

\* An invalid item stays invalid, and is not shipped, whatever is cancelled: also
\* when the shipment of the box that it is in is.
InvalidItemsStay == [][\A i \in Items : items[i].status = "invalid" =>
  /\ items[i].status' = "invalid"
  /\ items[i].distributor' \in {items[i].distributor, Null}]_boxVars

-----------------------------------------------------------------------------
(* What a comment says and the code does not do *)

\* server.js, before the handler: a code of any state may be marked invalid, and is
\* void from then on.  So no handler brings an invalid box back into stock.
InvalidBoxesStay == [][\A b \in Boxes : boxes[b].status = "invalid" =>
                         boxes[b].status' = "invalid"]_boxVars
=============================================================================
