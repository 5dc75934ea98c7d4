-------------------------- MODULE LegacyStockProofs --------------------------
(***************************************************************************)
(* Boxes hold what they count, receipts are of one factory, product and    *)
(* batch, and shipments tell where everything is, for any codes, products, *)
(* factories, distributors and sizes, whatever was deleted before.         *)
(***************************************************************************)
EXTENDS LegacyStock, FiniteSetTheorems, TLAPS

\* An item is in a box by a receipt only.
BoxedByReceipt == \A i \in Items : items[i].box # Null => items[i].boxed

\* A row of shipments tells of a whole box, or of an item that is still in the box it was
\* shipped from; and only a box whose receipt is confirmed is shipped.
RowsTell == \A row \in shipments :
  /\ row.item = Null => row.box # Null
  /\ row.item # Null => items[row.item].box = row.box
ShippedIsConfirmed == \A b \in Boxes : boxes[b].distributor # Null => boxes[b].confirmed

\* ShipmentsTellWhere, row by row.
Names(row, i) == row.item = i \/ (row.item = Null /\ row.box = items[i].box)
ItemWhere(i) ==
  /\ \A row \in shipments : Names(row, i) => row.distributor = items[i].distributor
  /\ items[i].distributor # Null => \E row \in shipments : Names(row, i)
  /\ items[i].status = "shipped" => items[i].distributor # Null
BoxWhere(b) ==
  /\ \A row \in shipments : row.item = Null /\ row.box = b =>
       row.distributor = boxes[b].distributor
  /\ boxes[b].distributor # Null => \E row \in shipments : row.item = Null /\ row.box = b
  /\ boxes[b].status = "shipped" => boxes[b].distributor # Null
Where == (\A i \in Items : ItemWhere(i)) /\ (\A b \in Boxes : BoxWhere(b))

StockInv ==
  /\ BoxesSound /\ BoxedByReceipt /\ OneReceipt
  /\ Where /\ RowsTell /\ ShippedIsConfirmed

BoxesBut(b) == boxes' \in [Boxes -> Box] /\ \A c \in Boxes \ {b} : boxes'[c] = boxes[c]
ItemsBut(S) == items' \in [Items -> Item] /\ \A i \in Items \ S : items'[i] = items[i]

-----------------------------------------------------------------------------
(* What the requests do to the rows *)

\* A receipt puts items that are in no box into b, if that is one.
LEMMA ReceiveRows ==
  ASSUME StockTypeOK, NEW S \in SUBSET Items, NEW b \in Boxes \cup {Null}, NEW lot,
         lot.product \in StockProducts, lot.batch \in Batches \cup {Null},
         NEW f \in StockFactories, Receive(S, b, lot, f), \A i \in S : items[i].box = Null
  PROVE  /\ ItemsBut(S)
         /\ \A i \in S :
              /\ items'[i].box = b /\ items'[i].status = "scanned" /\ items'[i].boxed
              /\ items'[i].product = lot.product /\ items'[i].batch = lot.batch
              /\ items'[i].factory = f /\ items'[i].distributor = items[i].distributor
         /\ \A c \in Boxes : Within(c)' = Within(c) \cup (IF c = b THEN S ELSE {})
<1> DEFINE y(i) == [items[i] EXCEPT !.box = b, !.product = lot.product, !.batch = lot.batch,
                      !.status = "scanned", !.boxed = TRUE, !.factory = f]
<1>1. \A i \in S :
        /\ y(i) \in Item
        /\ y(i).box = b /\ y(i).status = "scanned" /\ y(i).boxed
        /\ y(i).product = lot.product /\ y(i).batch = lot.batch
        /\ y(i).factory = f /\ y(i).distributor = items[i].distributor
  <2> SUFFICES ASSUME NEW i \in S, items[i] \in Item PROVE
        /\ y(i) \in Item
        /\ y(i).box = b /\ y(i).status = "scanned" /\ y(i).boxed
        /\ y(i).product = lot.product /\ y(i).batch = lot.batch
        /\ y(i).factory = f /\ y(i).distributor = items[i].distributor
    BY DEF StockTypeOK
  <2> QED BY DEF Item
<1>2. items' = [i \in Items |-> IF i \in S THEN y(i) ELSE items[i]]
  BY DEF Receive
<1> HIDE DEF y
<1>3. /\ items' \in [Items -> Item] /\ \A i \in Items \ S : items'[i] = items[i]
      /\ \A i \in S : items'[i] = y(i)
  BY <1>1, <1>2 DEF StockTypeOK
<1>4. \A c \in Boxes : Within(c)' = Within(c) \cup (IF c = b THEN S ELSE {})
  BY <1>1, <1>3, StockAssumption DEF Within, StockCodes
<1> QED BY <1>1, <1>3, <1>4 DEF ItemsBut

\* A receipt that is cancelled leaves items as if they had never been received.
LEMMA ClearRows ==
  ASSUME StockTypeOK, NEW S \in SUBSET Items, clearItemReceipt(S)
  PROVE  /\ ItemsBut(S)
         /\ \A i \in S :
              /\ items'[i].box = Null /\ items'[i].status = "in_stock" /\ ~items'[i].boxed
              /\ items'[i].distributor = Null
         /\ \A c \in Boxes : Within(c)' = Within(c) \ S
<1>1. /\ items' \in [Items -> Item] /\ \A i \in Items \ S : items'[i] = items[i]
      /\ \A i \in S : items'[i] = [box |-> Null, product |-> Null, batch |-> Null,
                                   status |-> "in_stock", boxed |-> FALSE,
                                   distributor |-> Null, factory |-> Null]
  BY DEF clearItemReceipt, StockTypeOK, Item
<1>2. \A c \in Boxes : Within(c)' = Within(c) \ S
  BY <1>1, StockAssumption DEF Within, StockCodes
<1> QED BY <1>1, <1>2 DEF ItemsBut

\* Items whose box stays are where they were.
LEMMA SameWithin ==
  ASSUME ItemsBut(Items), \A i \in Items : items'[i].box = items[i].box
  PROVE  \A c \in Boxes : Within(c)' = Within(c)
BY DEF Within

\* One box is written.
LEMMA BoxRow ==
  ASSUME StockTypeOK, NEW b \in Boxes, NEW y \in Box, boxes' = [boxes EXCEPT ![b] = y]
  PROVE  BoxesBut(b) /\ boxes'[b] = y
BY DEF BoxesBut, StockTypeOK

\* A box gets its product and batch, and stays empty.
LEMMA SetProductRow ==
  ASSUME StockTypeOK, NEW b \in Boxes, NEW f \in StockFactories, NEW lot \in Lot, NEW size \in Sizes,
         SetProduct(b, lot, size, f)
  PROVE  /\ BoxesBut(b)
         /\ boxes'[b].product = lot.product /\ boxes'[b].batch = lot.batch
         /\ boxes'[b].size = size /\ boxes'[b].factory = f
         /\ boxes'[b].count = boxes[b].count /\ boxes'[b].status = boxes[b].status
         /\ boxes'[b].distributor = boxes[b].distributor
         /\ boxes'[b].confirmed = boxes[b].confirmed
<1> DEFINE y == [boxes[b] EXCEPT !.product = lot.product, !.batch = lot.batch,
                                 !.size = size, !.factory = f]
<1>1. boxes' = [boxes EXCEPT ![b] = y]
  BY DEF SetProduct, StockTypeOK, Box
<1>2. /\ y \in Box
      /\ y.product = lot.product /\ y.batch = lot.batch /\ y.size = size /\ y.factory = f
      /\ y.count = boxes[b].count /\ y.status = boxes[b].status
      /\ y.distributor = boxes[b].distributor /\ y.confirmed = boxes[b].confirmed
  <2>1. boxes[b] \in Box /\ size \in Nat
    BY StockAssumption DEF StockTypeOK
  <2> QED BY <2>1 DEF Box, Lot
<1> HIDE DEF y
<1> QED BY <1>1, <1>2, BoxRow

\* Scan and Bind: what is put into a box is counted.
LEMMA CountRow ==
  ASSUME StockTypeOK, NEW b \in Boxes, NEW f \in StockFactories, NEW count \in Nat, NEW size \in Nat,
         \/ boxes' = [boxes EXCEPT ![b].count = count, ![b].size = size, ![b].factory = f]
         \/ boxes' = [boxes EXCEPT ![b].count = count, ![b].factory = f]
  PROVE  /\ BoxesBut(b)
         /\ boxes'[b].count = count /\ boxes'[b].factory = f
         /\ boxes'[b].product = boxes[b].product /\ boxes'[b].batch = boxes[b].batch
         /\ boxes'[b].status = boxes[b].status
         /\ boxes'[b].distributor = boxes[b].distributor
         /\ boxes'[b].confirmed = boxes[b].confirmed
<1>0. boxes[b] \in Box
  BY DEF StockTypeOK
<1>1. CASE boxes' = [boxes EXCEPT ![b].count = count, ![b].size = size, ![b].factory = f]
  <2> DEFINE y == [boxes[b] EXCEPT !.count = count, !.size = size, !.factory = f]
  <2>1. boxes' = [boxes EXCEPT ![b] = y]
    BY <1>1 DEF StockTypeOK, Box
  <2>2. /\ y \in Box /\ y.count = count /\ y.factory = f
        /\ y.product = boxes[b].product /\ y.batch = boxes[b].batch
        /\ y.status = boxes[b].status
        /\ y.distributor = boxes[b].distributor /\ y.confirmed = boxes[b].confirmed
    BY <1>0 DEF Box
  <2> HIDE DEF y
  <2> QED BY <2>1, <2>2, BoxRow
<1>2. CASE boxes' = [boxes EXCEPT ![b].count = count, ![b].factory = f]
  <2> DEFINE y == [boxes[b] EXCEPT !.count = count, !.factory = f]
  <2>1. boxes' = [boxes EXCEPT ![b] = y]
    BY <1>2 DEF StockTypeOK, Box
  <2>2. /\ y \in Box /\ y.count = count /\ y.factory = f
        /\ y.product = boxes[b].product /\ y.batch = boxes[b].batch
        /\ y.status = boxes[b].status
        /\ y.distributor = boxes[b].distributor /\ y.confirmed = boxes[b].confirmed
    BY <1>0 DEF Box
  <2> HIDE DEF y
  <2> QED BY <2>1, <2>2, BoxRow
<1> QED BY <1>1, <1>2

\* A confirmed receipt is booked to the factory of the box, for each of its items.
LEMMA ConfirmRows ==
  ASSUME StockTypeOK, NEW b \in Boxes, NEW f \in StockFactories, Confirm(b, f),
         Cardinality(Within(b)) \in Nat
  PROVE  /\ BoxesBut(b)
         /\ boxes'[b].count = Cardinality(Within(b)) /\ boxes'[b].factory = f
         /\ boxes'[b].confirmed
         /\ boxes'[b].product = boxes[b].product /\ boxes'[b].batch = boxes[b].batch
         /\ boxes'[b].size = boxes[b].size /\ boxes'[b].status = boxes[b].status
         /\ boxes'[b].distributor = boxes[b].distributor
         /\ ItemsBut(Within(b))
         /\ \A i \in Within(b) :
              /\ items'[i].factory = f /\ items'[i].box = items[i].box
              /\ items'[i].product = items[i].product /\ items'[i].batch = items[i].batch
              /\ items'[i].status = items[i].status /\ items'[i].boxed = items[i].boxed
              /\ items'[i].distributor = items[i].distributor
<1> DEFINE y == [boxes[b] EXCEPT !.count = Cardinality(Within(b)), !.factory = f,
                                 !.confirmed = TRUE]
           z(i) == [items[i] EXCEPT !.factory = f]
<1>1. boxes' = [boxes EXCEPT ![b] = y]
  BY DEF Confirm, StockTypeOK, Box
<1>2. /\ y \in Box /\ y.count = Cardinality(Within(b)) /\ y.factory = f /\ y.confirmed
      /\ y.product = boxes[b].product /\ y.batch = boxes[b].batch
      /\ y.size = boxes[b].size /\ y.status = boxes[b].status
      /\ y.distributor = boxes[b].distributor
  <2>1. boxes[b] \in Box
    BY DEF StockTypeOK
  <2> QED BY <2>1 DEF Box
<1>3. \A i \in Within(b) :
        /\ i \in Items /\ z(i) \in Item
        /\ z(i).factory = f /\ z(i).box = items[i].box
        /\ z(i).product = items[i].product /\ z(i).batch = items[i].batch
        /\ z(i).status = items[i].status /\ z(i).boxed = items[i].boxed
        /\ z(i).distributor = items[i].distributor
  <2>1. \A i \in Within(b) : i \in Items /\ items[i] \in Item
    BY DEF StockTypeOK, Within
  <2> QED BY <2>1 DEF Item
<1>4. items' = [i \in Items |-> IF i \in Within(b) THEN z(i) ELSE items[i]]
  BY DEF Confirm
<1> HIDE DEF y, z
<1>5. ItemsBut(Within(b)) /\ \A i \in Within(b) : items'[i] = z(i)
  BY <1>3, <1>4 DEF ItemsBut, StockTypeOK
<1> QED BY <1>1, <1>2, <1>3, <1>5, BoxRow

\* The box that an item is taken out of is blank, or counts the rest and is not confirmed.
LEMMA TakeOutRow ==
  ASSUME StockTypeOK, NEW i \in Items, TakeOut(i), NEW b \in Boxes \cup {Null}, b = items[i].box,
         \A c \in Boxes : IsFiniteSet(Within(c))
  PROVE  /\ BoxesBut(b)
         /\ b # Null /\ Within(b) \ {i} = {} => boxes'[b] = clearedBox
         /\ b # Null /\ Within(b) \ {i} # {} =>
              /\ boxes'[b].count = Cardinality(Within(b) \ {i}) /\ ~boxes'[b].confirmed
              /\ boxes'[b].factory = boxes[b].factory
              /\ boxes'[b].product = boxes[b].product /\ boxes'[b].batch = boxes[b].batch
              /\ boxes'[b].status = boxes[b].status
              /\ boxes'[b].distributor = boxes[b].distributor
<1>1. CASE b = Null
  BY <1>1 DEF TakeOut, BoxesBut, StockTypeOK
<1>2. CASE b # Null /\ Within(b) \ {i} = {}
  <2>1. clearedBox \in Box
    BY DEF clearedBox, Box
  <2>2. boxes' = [boxes EXCEPT ![b] = clearedBox]
    BY <1>2 DEF TakeOut
  <2> QED BY <1>2, <2>1, <2>2, BoxRow
<1>3. CASE b # Null /\ Within(b) \ {i} # {}
  <2> DEFINE count == Cardinality(Within(b) \ {i})
             y == [boxes[b] EXCEPT !.count = count, !.confirmed = FALSE]
  <2>1. boxes' = [boxes EXCEPT ![b] = y]
    BY <1>3 DEF TakeOut
  <2>2. boxes[b] \in Box
    BY <1>3 DEF StockTypeOK
  <2>3. count \in Nat
    BY <1>3, FS_Subset, FS_CardinalityType
  <2> HIDE DEF count
  <2>4. /\ y \in Box /\ y.count = count /\ ~y.confirmed /\ y.factory = boxes[b].factory
        /\ y.product = boxes[b].product /\ y.batch = boxes[b].batch
        /\ y.status = boxes[b].status /\ y.distributor = boxes[b].distributor
    BY <2>2, <2>3 DEF Box
  <2> HIDE DEF y
  <2>5. BoxesBut(b) /\ boxes'[b] = y
    BY <1>3, <2>1, <2>4, BoxRow
  <2> QED BY <1>3, <2>4, <2>5 DEF count
<1> QED BY <1>1, <1>2, <1>3

\* Shipping a box, and taking that back, writes its status and distributor.
LEMMA StatusRow ==
  ASSUME StockTypeOK, NEW b \in Boxes, NEW d \in Distributors \cup {Null}, NEW status,
         status \in {"in_stock", "shipped", "invalid", "deleted"},
         \/ boxes' = [boxes EXCEPT ![b].status = status, ![b].distributor = d]
         \/ boxes' = [boxes EXCEPT ![b].status = status] /\ d = boxes[b].distributor
  PROVE  /\ BoxesBut(b)
         /\ boxes'[b].status = status /\ boxes'[b].distributor = d
         /\ boxes'[b].count = boxes[b].count /\ boxes'[b].factory = boxes[b].factory
         /\ boxes'[b].product = boxes[b].product /\ boxes'[b].batch = boxes[b].batch
         /\ boxes'[b].size = boxes[b].size /\ boxes'[b].confirmed = boxes[b].confirmed
<1> DEFINE y == [boxes[b] EXCEPT !.status = status, !.distributor = d]
<1>0. boxes[b] \in Box
  BY DEF StockTypeOK
<1>1. boxes' = [boxes EXCEPT ![b] = y]
  <2>1. CASE boxes' = [boxes EXCEPT ![b].status = status, ![b].distributor = d]
    BY <2>1 DEF StockTypeOK, Box
  <2>2. CASE boxes' = [boxes EXCEPT ![b].status = status] /\ d = boxes[b].distributor
    <3>1. [boxes[b] EXCEPT !.status = status] = y
      BY <1>0, <2>2 DEF Box
    <3> QED BY <2>2, <3>1
  <2> QED BY <2>1, <2>2
<1>2. /\ y \in Box /\ y.status = status /\ y.distributor = d
      /\ y.count = boxes[b].count /\ y.factory = boxes[b].factory
      /\ y.product = boxes[b].product /\ y.batch = boxes[b].batch
      /\ y.size = boxes[b].size /\ y.confirmed = boxes[b].confirmed
  BY <1>0 DEF Box
<1> HIDE DEF y
<1> QED BY <1>1, <1>2, BoxRow

Written(S, st, to) ==
  items' = [i \in Items |-> IF i \in S
              THEN [items[i] EXCEPT !.status = st[i], !.distributor = to[i]] ELSE items[i]]

\* Shipments write the status and the distributor of items.
LEMMA StatusRows ==
  ASSUME StockTypeOK, NEW S \in SUBSET Items,
         NEW st \in [S -> {"in_stock", "scanned", "shipped", "invalid", "deleted"}],
         NEW to \in [S -> Distributors \cup {Null}],
         Written(S, st, to)
  PROVE  /\ ItemsBut(S)
         /\ \A i \in S :
              /\ items'[i].status = st[i] /\ items'[i].distributor = to[i]
              /\ items'[i].box = items[i].box /\ items'[i].boxed = items[i].boxed
              /\ items'[i].product = items[i].product /\ items'[i].batch = items[i].batch
              /\ items'[i].factory = items[i].factory
         /\ \A c \in Boxes : Within(c)' = Within(c)
<1> DEFINE y(i) == [items[i] EXCEPT !.status = st[i], !.distributor = to[i]]
<1>1. \A i \in S :
        /\ i \in Items /\ y(i) \in Item
        /\ y(i).status = st[i] /\ y(i).distributor = to[i]
        /\ y(i).box = items[i].box /\ y(i).boxed = items[i].boxed
        /\ y(i).product = items[i].product /\ y(i).batch = items[i].batch
        /\ y(i).factory = items[i].factory
  <2>1. \A i \in S : /\ i \in Items /\ items[i] \in Item
                     /\ st[i] \in {"in_stock", "scanned", "shipped", "invalid", "deleted"}
                     /\ to[i] \in Distributors \cup {Null}
    BY DEF StockTypeOK
  <2> QED BY <2>1 DEF Item
<1>2. items' = [i \in Items |-> IF i \in S THEN y(i) ELSE items[i]]
  BY DEF Written
<1> HIDE DEF y
<1>3. \A i \in S : y(i) \in Item
  BY <1>1
<1>4. ItemsBut(S) /\ \A i \in S : items'[i] = y(i)
  BY <1>2, <1>3 DEF ItemsBut, StockTypeOK
<1>5. \A c \in Boxes : Within(c)' = Within(c)
  BY <1>1, <1>4 DEF ItemsBut, Within
<1> QED BY <1>1, <1>4, <1>5

\* The same for one item.
LEMMA StatusOfItem ==
  ASSUME StockTypeOK, NEW i \in Items,
         NEW st \in {"in_stock", "scanned", "shipped", "invalid", "deleted"},
         NEW d \in Distributors \cup {Null},
         \/ items' = [items EXCEPT ![i].status = st, ![i].distributor = d]
         \/ items' = [items EXCEPT ![i].status = st] /\ d = items[i].distributor
  PROVE  /\ ItemsBut({i})
         /\ items'[i].status = st /\ items'[i].distributor = d
         /\ items'[i].box = items[i].box /\ items'[i].boxed = items[i].boxed
         /\ items'[i].product = items[i].product /\ items'[i].batch = items[i].batch
         /\ items'[i].factory = items[i].factory
         /\ \A c \in Boxes : Within(c)' = Within(c)
<1> DEFINE y == [items[i] EXCEPT !.status = st, !.distributor = d]
<1>0. items[i] \in Item
  BY DEF StockTypeOK
<1>1. items' = [items EXCEPT ![i] = y]
  <2>1. CASE items' = [items EXCEPT ![i].status = st, ![i].distributor = d]
    BY <2>1 DEF StockTypeOK, Item
  <2>2. CASE items' = [items EXCEPT ![i].status = st] /\ d = items[i].distributor
    <3>1. [items[i] EXCEPT !.status = st] = y
      BY <1>0, <2>2 DEF Item
    <3> QED BY <2>2, <3>1
  <2> QED BY <2>1, <2>2
<1>2. /\ y \in Item /\ y.status = st /\ y.distributor = d
      /\ y.box = items[i].box /\ y.boxed = items[i].boxed
      /\ y.product = items[i].product /\ y.batch = items[i].batch
      /\ y.factory = items[i].factory
  BY <1>0 DEF Item
<1> HIDE DEF y
<1>3. ItemsBut({i}) /\ items'[i] = y
  BY <1>1, <1>2 DEF ItemsBut, StockTypeOK
<1>4. \A c \in Boxes : Within(c)' = Within(c)
  BY <1>2, <1>3 DEF ItemsBut, Within
<1> QED BY <1>2, <1>3, <1>4

-----------------------------------------------------------------------------
(* Packing and receipt keep the invariant *)

\* What is in a box can be counted.
LEMMA WithinFinite ==
  \A b \in Boxes : /\ IsFiniteSet(Within(b)) /\ Cardinality(Within(b)) \in Nat
                   /\ Within(b) \subseteq Items
BY FS_Subset, FS_CardinalityType, StockAssumption DEF Within

\* What has no shipment goes nowhere.
LEMMA Nowhere ==
  ASSUME StockInv, NEW i \in Items, ~itemHasShipment(i)
  PROVE  /\ items[i].distributor = Null /\ items[i].status # "shipped"
         /\ \A row \in shipments : ~Names(row, i)
         /\ items[i].box \in Boxes => boxes[items[i].box].distributor = Null
<1> USE DEF StockInv
<1>1. /\ items[i].distributor = Null /\ items[i].status # "shipped"
      /\ \A row \in shipments : row.item # i
      /\ items[i].box # Null => boxes[items[i].box].distributor = Null
  BY DEF itemHasShipment, BoxShipped
<1>2. items[i].box \in Boxes \cup {Null} /\ Null \notin Boxes
  BY StockAssumption DEF BoxesSound, StockTypeOK, Item, StockCodes
<1>3. \A row \in shipments : row.distributor # Null
  BY StockAssumption DEF BoxesSound, StockTypeOK, Shipment
<1>4. ASSUME NEW row \in shipments, Names(row, i) PROVE FALSE
  <2>1. row.item = Null /\ row.box = items[i].box
    BY <1>1, <1>4 DEF Names
  <2>2. items[i].box \in Boxes
    BY <1>2, <2>1 DEF RowsTell
  <2> QED BY <1>1, <1>2, <1>3, <2>1, <2>2 DEF Where, BoxWhere
<1> QED BY <1>1, <1>2, <1>4

\* Only an empty box gets another product.
LEMMA SetProductStep ==
  ASSUME StockInv, NEW b \in Boxes, NEW f \in StockFactories, NEW lot \in Lot, NEW size \in Sizes,
         SetProduct(b, lot, size, f)
  PROVE  StockInv'
<1> USE DEF StockInv, BoxesSound
<1>1. /\ BoxesBut(b)
      /\ boxes'[b].product = lot.product /\ boxes'[b].batch = lot.batch
      /\ boxes'[b].size = size /\ boxes'[b].factory = f
      /\ boxes'[b].count = boxes[b].count /\ boxes'[b].status = boxes[b].status
      /\ boxes'[b].distributor = boxes[b].distributor
      /\ boxes'[b].confirmed = boxes[b].confirmed
  BY SetProductRow
<1>2. UNCHANGED <<items, shipments, packRecords, queried>> /\ Open(b)
  BY DEF SetProduct
<1>3. \A c \in Boxes : Within(c)' = Within(c)
  BY <1>2 DEF Within
<1>4. StockTypeOK'
  BY <1>1, <1>2 DEF StockTypeOK, BoxesBut
<1>5. ConfirmedIsFull'
  BY <1>1, <1>2, <1>3 DEF ConfirmedIsFull, SizeOf, BoxesBut, Open
<1>6. NoOrphans' /\ BoxedByReceipt'
  BY <1>1, <1>2 DEF NoOrphans, BoxedByReceipt, Exists, BoxesBut
<1>7. OneReceipt'
  <2> SUFFICES ASSUME NEW i \in Items, items[i].box # Null
               PROVE  /\ Alike(i, boxes[items[i].box].product, boxes[items[i].box].batch)'
                      /\ items[i].factory # Null /\ items[i].factory = boxes'[items[i].box].factory
    BY <1>2 DEF OneReceipt
  <2>1. items[i].box \in Boxes
    BY DEF StockTypeOK, Item
  <2>2. CASE items[i].box = b
    <3>1. i \in Within(b)
      BY <2>2 DEF Within
    <3>2. f = boxes[b].factory
      BY <2>2, <3>1 DEF SetProduct, PackingFactory, MayPack, OneReceipt
    <3> QED BY <1>1, <1>2, <2>2, <3>1, <3>2 DEF OneReceipt, Alike, SetProduct
  <2>3. CASE items[i].box # b
    BY <1>1, <1>2, <2>1, <2>3 DEF OneReceipt, Alike, BoxesBut
  <2> QED BY <2>2, <2>3
<1>8. Where' /\ RowsTell' /\ ShippedIsConfirmed'
  BY <1>1, <1>2 DEF Where, ItemWhere, BoxWhere, Names, RowsTell, ShippedIsConfirmed, BoxesBut
<1> QED BY <1>4, <1>5, <1>6, <1>7, <1>8

\* Scan and Bind: free items are put into a box that is open.
LEMMA PackedKeeps ==
  ASSUME StockInv, NEW b \in Boxes, NEW f \in StockFactories, NEW S \in SUBSET Items,
         Open(b), Receive(S, b, LotOf(b), f), \A i \in S : Free(i, LotOf(b), f),
         MayPack(f, boxes[b].product, boxes[b].factory),
         BoxesBut(b), boxes'[b].count = Cardinality(Within(b) \cup S),
         boxes'[b].factory = f,
         boxes'[b].product = boxes[b].product, boxes'[b].batch = boxes[b].batch,
         boxes'[b].status = boxes[b].status, boxes'[b].distributor = boxes[b].distributor,
         boxes'[b].confirmed = boxes[b].confirmed,
         packRecords' \subseteq packRecords \cup {b} \cup S, UNCHANGED <<shipments, queried>>
  PROVE  StockInv'
<1> USE DEF StockInv, BoxesSound
<1>0. /\ LotOf(b).product \in StockProducts /\ LotOf(b).batch \in Batches \cup {Null}
      /\ LotOf(b).product = boxes[b].product /\ LotOf(b).batch = boxes[b].batch
      /\ boxes[b] \in Box
  BY DEF MayPack, StockTypeOK, Box, LotOf
<1>1. \A i \in S : items[i].box = Null /\ items[i].status = "in_stock" /\ ~itemHasShipment(i)
  BY DEF Free
<1>2. /\ ItemsBut(S)
      /\ \A i \in S :
           /\ items'[i].box = b /\ items'[i].status = "scanned" /\ items'[i].boxed
           /\ items'[i].product = boxes[b].product /\ items'[i].batch = boxes[b].batch
           /\ items'[i].factory = f /\ items'[i].distributor = items[i].distributor
      /\ \A c \in Boxes : Within(c)' = Within(c) \cup (IF c = b THEN S ELSE {})
  BY <1>0, <1>1, ReceiveRows
<1>3. StockTypeOK'
  BY <1>2 DEF StockTypeOK, BoxesBut, ItemsBut, StockCodes
<1>4. ConfirmedIsFull'
  <2>1. boxes'[b].count = Cardinality(Within(b)') /\ ~boxes'[b].confirmed
    BY <1>2 DEF Open
  <2>2. \A c \in Boxes \ {b} : Within(c)' = Within(c) /\ boxes'[c] = boxes[c]
    BY <1>2 DEF BoxesBut
  <2> QED BY <2>1, <2>2 DEF ConfirmedIsFull, SizeOf
<1>5. NoOrphans' /\ BoxedByReceipt'
  <2>1. \A c \in StockCodes : Exists(c) => Exists(c)'
    BY <1>2 DEF Exists, ItemsBut, BoxesBut, StockCodes
  <2>2. Exists(b)' /\ \A i \in S : Exists(i)'
    BY <1>2, StockAssumption DEF Exists, Open
  <2>3. \A i \in Items \ S : items'[i] = items[i]
    BY <1>2 DEF ItemsBut
  <2>4. \A i \in Items : items'[i].box # Null => items'[i].box \in Boxes
    BY <1>3 DEF StockTypeOK, Item
  <2>5. BoxedByReceipt'
    BY <1>2, <2>3 DEF BoxedByReceipt
  <2>6. \A i \in Items : items'[i].box # Null \/ items'[i].boxed =>
          Exists(i)' /\ (items'[i].box # Null => Exists(items[i].box)')
    <3>1. ASSUME NEW i \in S PROVE Exists(i)' /\ Exists(items[i].box)'
      BY <1>2, <2>2
    <3>2. ASSUME NEW i \in Items \ S, items'[i].box # Null \/ items'[i].boxed
          PROVE  Exists(i)' /\ (items'[i].box # Null => Exists(items[i].box)')
      BY <2>1, <2>3, <2>4, <3>2 DEF NoOrphans, StockCodes
    <3> QED BY <3>1, <3>2
  <2>7. \A row \in shipments : /\ row.box \in Boxes \cup {Null} /\ row.item \in Items \cup {Null}
    BY DEF StockTypeOK, Shipment
  <2>8. \A row \in shipments : /\ row.box # Null => Exists(row.box)'
                               /\ row.item # Null => Exists(row.item)'
    BY <2>1, <2>7 DEF NoOrphans, StockCodes
  <2>9. \A c \in packRecords' : Exists(c)'
    BY <2>1, <2>2 DEF NoOrphans, StockTypeOK
  <2> QED BY <2>5, <2>6, <2>8, <2>9 DEF NoOrphans
<1>6. OneReceipt'
  <2> SUFFICES ASSUME NEW i \in Items, items'[i].box # Null
               PROVE  /\ Alike(i, boxes[items[i].box].product, boxes[items[i].box].batch)'
                      /\ items'[i].factory # Null
                      /\ items'[i].factory = boxes'[items'[i].box].factory
    BY DEF OneReceipt
  <2>1. CASE i \in S
    BY <1>2, <2>1, StockAssumption DEF Alike
  <2>2. CASE i \notin S
    <3>1. items'[i] = items[i] /\ items[i].box \in Boxes
      BY <1>2, <2>2 DEF ItemsBut, StockTypeOK, Item
    <3>2. items[i].factory = boxes'[items[i].box].factory
      BY <3>1 DEF OneReceipt, MayPack, BoxesBut
    <3> QED BY <3>1, <3>2 DEF OneReceipt, Alike, BoxesBut
  <2> QED BY <2>1, <2>2
<1>7. boxes[b].distributor = Null
  BY DEF ShippedIsConfirmed, Open
<1>8. \A i \in S : items[i].distributor = Null /\ \A row \in shipments : ~Names(row, i)
  BY <1>1, Nowhere
<1>9. Where'
  <2>1. ASSUME NEW i \in S PROVE ItemWhere(i)'
    <3>1. \A row \in shipments : ~(row.item = Null /\ row.box = b)
      BY <1>7, StockAssumption DEF Where, BoxWhere, StockTypeOK, Shipment
    <3>2. \A row \in shipments : row.item # i
      BY <1>8 DEF Names
    <3> QED BY <1>2, <1>8, <3>1, <3>2 DEF ItemWhere, Names
  <2>2. ASSUME NEW i \in Items \ S PROVE ItemWhere(i)'
    BY <1>2 DEF Where, ItemWhere, Names, ItemsBut
  <2>3. \A c \in Boxes : BoxWhere(c)'
    BY DEF Where, BoxWhere, BoxesBut
  <2> QED BY <2>1, <2>2, <2>3 DEF Where
<1>10. RowsTell' /\ ShippedIsConfirmed'
  <2>1. \A row \in shipments : row.item \notin S
    BY <1>8 DEF Names
  <2>2. \A row \in shipments : row.item \in Items \cup {Null}
    BY DEF StockTypeOK, Shipment
  <2> QED BY <1>2, <2>1, <2>2 DEF RowsTell, ShippedIsConfirmed, ItemsBut, BoxesBut
<1> QED BY <1>3, <1>4, <1>5, <1>6, <1>9, <1>10

\* An item is received into an open box.
LEMMA ScanStep ==
  ASSUME StockInv, NEW b \in Boxes, NEW f \in StockFactories, NEW i \in Items, NEW size \in Sizes,
         Scan(b, i, size, f)
  PROVE  StockInv'
<1>1. StockTypeOK /\ IsFiniteSet(Within(b)) /\ Cardinality(Within(b)) \in Nat /\ size \in Nat
  BY WithinFinite, StockAssumption DEF StockInv, BoxesSound
<1>2. i \notin Within(b)
  BY StockAssumption DEF Scan, Free, Within, StockCodes
<1>3. Cardinality(Within(b) \cup {i}) = Cardinality(Within(b)) + 1
  BY <1>1, <1>2, FS_AddElement
<1>4. boxes' = [boxes EXCEPT ![b].count = Cardinality(Within(b)) + 1, ![b].size = size,
                             ![b].factory = f]
  BY DEF Scan
<1>5. Cardinality(Within(b)) + 1 \in Nat
  BY <1>1
<1>6. /\ BoxesBut(b)
      /\ boxes'[b].count = Cardinality(Within(b)) + 1 /\ boxes'[b].factory = f
      /\ boxes'[b].product = boxes[b].product /\ boxes'[b].batch = boxes[b].batch
      /\ boxes'[b].status = boxes[b].status
      /\ boxes'[b].distributor = boxes[b].distributor
      /\ boxes'[b].confirmed = boxes[b].confirmed
  BY <1>1, <1>4, <1>5, CountRow
<1>7. /\ Open(b) /\ Receive({i}, b, LotOf(b), f) /\ Free(i, LotOf(b), f)
      /\ MayPack(f, boxes[b].product, boxes[b].factory)
      /\ packRecords' = packRecords \cup {b, i} /\ UNCHANGED <<shipments, queried>>
  BY DEF Scan, PackingFactory
<1> QED BY <1>3, <1>6, <1>7, PackedKeeps

\* Several items are received into a box at once.
LEMMA BindStep ==
  ASSUME StockInv, NEW b \in Boxes, NEW f \in StockFactories, NEW S \in SUBSET Items, Bind(b, S, f)
  PROVE  StockInv'
<1> DEFINE added == S \ Within(b)
           count == Cardinality(Within(b) \cup S)
<1>1. StockTypeOK /\ count \in Nat
  <2>1. IsFiniteSet(Within(b) \cup S)
    BY FS_Subset, WithinFinite, StockAssumption
  <2> QED BY <2>1, FS_CardinalityType DEF StockInv, BoxesSound
<1>2. Within(b) \cup S = Within(b) \cup added
  OBVIOUS
<1>3. boxes' = [boxes EXCEPT ![b].count = count, ![b].factory = f]
  BY DEF Bind
<1>4. /\ Open(b) /\ Receive(added, b, LotOf(b), f) /\ \A i \in added : Free(i, LotOf(b), f)
      /\ MayPack(f, boxes[b].product, boxes[b].factory)
      /\ packRecords' \subseteq packRecords \cup {b} \cup added
      /\ UNCHANGED <<shipments, queried>>
  BY DEF Bind
<1> HIDE DEF count
<1>5. /\ BoxesBut(b)
      /\ boxes'[b].count = count /\ boxes'[b].factory = f
      /\ boxes'[b].product = boxes[b].product /\ boxes'[b].batch = boxes[b].batch
      /\ boxes'[b].status = boxes[b].status
      /\ boxes'[b].distributor = boxes[b].distributor
      /\ boxes'[b].confirmed = boxes[b].confirmed
  BY <1>1, <1>3, CountRow
<1>6. count = Cardinality(Within(b) \cup added) /\ added \in SUBSET Items
  BY <1>2 DEF count
<1> HIDE DEF added
<1> QED BY <1>4, <1>5, <1>6, PackedKeeps

-----------------------------------------------------------------------------
(* What keeps each part of the invariant *)

\* References stay sound while codes stay and only codes that are there get referred to.
LEMMA OrphansKept ==
  ASSUME StockInv, StockTypeOK', \A c \in StockCodes : Exists(c) => Exists(c)',
         \A i \in Items : /\ items'[i].box \in {Null, items[i].box}
                          /\ items'[i].boxed => items[i].boxed \/ Exists(i),
         \A row \in shipments' \ shipments : /\ row.box # Null => Exists(row.box)
                                             /\ row.item # Null => Exists(row.item),
         \A c \in packRecords' \ packRecords : Exists(c)
  PROVE  NoOrphans'
<1> USE DEF StockInv, BoxesSound, StockCodes
<1>1. ASSUME NEW i \in Items, items'[i].box # Null \/ items'[i].boxed
      PROVE  Exists(i)' /\ (items'[i].box # Null => Exists(items[i].box)')
  <2>1. items'[i].box # Null => items'[i].box = items[i].box /\ items[i].box \in Boxes
    BY DEF StockTypeOK, Item
  <2>2. Exists(i) /\ (items'[i].box # Null => Exists(items[i].box))
    BY <1>1, <2>1 DEF NoOrphans
  <2> QED BY <2>1, <2>2
<1>2. ASSUME NEW row \in shipments'
      PROVE  /\ row.box # Null => Exists(row.box)'
             /\ row.item # Null => Exists(row.item)'
  <2>1. row.box \in Boxes \cup {Null} /\ row.item \in Items \cup {Null}
    BY DEF StockTypeOK, Shipment
  <2>2. (row.box # Null => Exists(row.box)) /\ (row.item # Null => Exists(row.item))
    BY DEF NoOrphans
  <2> QED BY <2>1, <2>2
<1>3. ASSUME NEW c \in packRecords' PROVE Exists(c)'
  BY DEF NoOrphans, StockTypeOK
<1> QED BY <1>1, <1>2, <1>3 DEF NoOrphans

\* Receipts stay alike while what they name is not written.
LEMMA ReceiptsKept ==
  ASSUME StockInv,
         \A i \in Items : items'[i].box # Null =>
           /\ items'[i].box = items[i].box /\ items'[i].boxed = items[i].boxed
           /\ items'[i].product = items[i].product /\ items'[i].batch = items[i].batch
           /\ items'[i].factory = items[i].factory
           /\ boxes'[items[i].box].product = boxes[items[i].box].product
           /\ boxes'[items[i].box].batch = boxes[items[i].box].batch
           /\ boxes'[items[i].box].factory = boxes[items[i].box].factory
  PROVE  OneReceipt' /\ BoxedByReceipt'
BY DEF StockInv, OneReceipt, BoxedByReceipt, Alike

\* A box counts what is in it while neither is touched.
LEMMA CountsKept ==
  ASSUME StockInv,
         \A b \in Boxes :
           /\ Within(b)' = Within(b) /\ boxes'[b].count = boxes[b].count
           /\ boxes'[b].product = boxes[b].product /\ boxes'[b].size = boxes[b].size
           /\ boxes'[b].confirmed = boxes[b].confirmed
  PROVE  ConfirmedIsFull'
BY DEF StockInv, BoxesSound, ConfirmedIsFull, SizeOf

-----------------------------------------------------------------------------
(* The rest of the requests *)

\* The receipt of a full box is confirmed.
LEMMA ConfirmStep ==
  ASSUME StockInv, NEW b \in Boxes, NEW f \in StockFactories, Confirm(b, f)
  PROVE  StockInv'
<1> USE DEF StockInv, BoxesSound
<1>1. /\ BoxesBut(b)
      /\ boxes'[b].count = Cardinality(Within(b)) /\ boxes'[b].factory = f
      /\ boxes'[b].confirmed
      /\ boxes'[b].product = boxes[b].product /\ boxes'[b].batch = boxes[b].batch
      /\ boxes'[b].size = boxes[b].size /\ boxes'[b].status = boxes[b].status
      /\ boxes'[b].distributor = boxes[b].distributor
      /\ ItemsBut(Within(b))
      /\ \A i \in Within(b) :
           /\ items'[i].factory = f /\ items'[i].box = items[i].box
           /\ items'[i].product = items[i].product /\ items'[i].batch = items[i].batch
           /\ items'[i].status = items[i].status /\ items'[i].boxed = items[i].boxed
           /\ items'[i].distributor = items[i].distributor
  BY ConfirmRows, WithinFinite
<1>2. /\ UNCHANGED <<shipments, queried>> /\ packRecords' = packRecords \cup {b}
      /\ Open(b) /\ boxes[b].product # Null /\ Cardinality(Within(b)) = SizeOf(b)
      /\ f \in StockFactories
  BY DEF Confirm, PackingFactory, MayPack
<1>3. \A i \in Items :
        /\ items'[i].box = items[i].box /\ items'[i].boxed = items[i].boxed
        /\ items'[i].product = items[i].product /\ items'[i].batch = items[i].batch
        /\ items'[i].status = items[i].status /\ items'[i].distributor = items[i].distributor
  BY <1>1 DEF ItemsBut
<1>4. \A c \in Boxes : Within(c)' = Within(c)
  BY <1>3 DEF Within
<1>5. StockTypeOK'
  BY <1>1, <1>2 DEF StockTypeOK, BoxesBut, ItemsBut, StockCodes
<1>6. ConfirmedIsFull'
  <2>1. boxes'[b].count = Cardinality(Within(b)') /\ SizeOf(b)' = SizeOf(b)
    BY <1>1, <1>4 DEF SizeOf
  <2>2. \A c \in Boxes \ {b} : Within(c)' = Within(c) /\ boxes'[c] = boxes[c]
    BY <1>1, <1>4 DEF BoxesBut
  <2> QED BY <1>1, <1>2, <2>1, <2>2 DEF ConfirmedIsFull, SizeOf
<1>7. NoOrphans'
  <2>1. \A c \in StockCodes : Exists(c) => Exists(c)'
    BY <1>1, <1>3 DEF Exists, BoxesBut, StockCodes
  <2>2. Exists(b)
    BY <1>2 DEF Exists, Open
  <2> QED BY <1>2, <1>3, <1>5, <2>1, <2>2, OrphansKept
<1>8. OneReceipt' /\ BoxedByReceipt'
  <2>1. BoxedByReceipt'
    BY <1>3 DEF BoxedByReceipt
  <2> SUFFICES ASSUME NEW i \in Items, items'[i].box # Null
               PROVE  /\ Alike(i, boxes[items[i].box].product, boxes[items[i].box].batch)'
                      /\ items'[i].factory # Null
                      /\ items'[i].factory = boxes'[items'[i].box].factory
    BY <2>1 DEF OneReceipt
  <2>2. items[i].box \in Boxes /\ items'[i].box = items[i].box
    BY <1>3 DEF StockTypeOK, Item
  <2>3. CASE items[i].box = b
    <3>1. i \in Within(b)
      BY <2>3 DEF Within
    <3> QED BY <1>1, <1>3, <2>3, <3>1, <2>2, StockAssumption DEF OneReceipt, Alike
  <2>4. CASE items[i].box # b
    <3>1. items'[i] = items[i] /\ boxes'[items[i].box] = boxes[items[i].box]
      BY <1>1, <2>2, <2>4 DEF ItemsBut, BoxesBut, Within
    <3> QED BY <2>2, <3>1 DEF OneReceipt, Alike
  <2> QED BY <2>3, <2>4
<1>9. Where' /\ RowsTell'
  <2>1. \A c \in Boxes : /\ boxes'[c].status = boxes[c].status
                         /\ boxes'[c].distributor = boxes[c].distributor
    BY <1>1 DEF BoxesBut
  <2>2. \A row \in shipments : row.item \in Items \cup {Null}
    BY DEF StockTypeOK, Shipment
  <2> QED BY <1>2, <1>3, <2>1, <2>2 DEF Where, ItemWhere, BoxWhere, Names, RowsTell
<1>10. ShippedIsConfirmed'
  BY <1>1 DEF ShippedIsConfirmed, BoxesBut
<1> QED BY <1>5, <1>6, <1>7, <1>8, <1>9, <1>10

\* An item that is received without a box.
LEMMA ScanNoBoxStep ==
  ASSUME StockInv, NEW i \in Items, NEW lot \in Lot, NEW f \in StockFactories, ScanNoBox(i, lot, f)
  PROVE  StockInv'
<1> USE DEF StockInv, BoxesSound
<1>1. /\ Free(i, lot, f) /\ Receive({i}, Null, lot, f) /\ packRecords' = packRecords \cup {i}
      /\ UNCHANGED <<boxes, shipments, queried>>
      /\ lot.product \in StockProducts /\ lot.batch \in Batches
  BY DEF ScanNoBox, Lot
<1>2. /\ ItemsBut({i})
      /\ items'[i].box = Null /\ items'[i].status = "scanned"
      /\ items'[i].distributor = items[i].distributor
      /\ \A c \in Boxes : Within(c)' = Within(c)
  <2>1. lot.batch \in Batches \cup {Null} /\ \A j \in {i} : items[j].box = Null
    BY <1>1 DEF Free
  <2>2. \A c \in Boxes : c # Null
    BY StockAssumption DEF StockCodes
  <2>3. {i} \in SUBSET Items /\ Null \in Boxes \cup {Null} /\ lot.product \in StockProducts
    BY <1>1
  <2>4. /\ ItemsBut({i})
        /\ \A j \in {i} :
             /\ items'[j].box = Null /\ items'[j].status = "scanned" /\ items'[j].boxed
             /\ items'[j].product = lot.product /\ items'[j].batch = lot.batch
             /\ items'[j].factory = f /\ items'[j].distributor = items[j].distributor
        /\ \A c \in Boxes : Within(c)' = Within(c) \cup (IF c = Null THEN {i} ELSE {})
    <3>1. Receive({i}, Null, lot, f)
      BY <1>1
    <3>2. lot.batch \in Batches \cup {Null}
      BY <2>1
    <3>3. \A j \in {i} : items[j].box = Null
      BY <2>1
    <3> QED BY <2>3, <3>1, <3>2, <3>3, ReceiveRows
  <2>5. ItemsBut({i})
    BY <2>4
  <2>6. /\ items'[i].box = Null /\ items'[i].status = "scanned"
        /\ items'[i].distributor = items[i].distributor
    BY <2>4
  <2>7. \A c \in Boxes : Within(c)' = Within(c)
    BY <2>2, <2>4
  <2> QED BY <2>5, <2>6, <2>7
<1>3. StockTypeOK'
  BY <1>1, <1>2 DEF StockTypeOK, ItemsBut, StockCodes
<1>4. ConfirmedIsFull'
  BY <1>1, <1>2, CountsKept
<1>5. Exists(i)
  BY <1>1, StockAssumption DEF Free, Exists
<1>6. NoOrphans'
  <2>1. \A c \in StockCodes : Exists(c) => Exists(c)'
    BY <1>1, <1>2 DEF Exists, ItemsBut, StockCodes
  <2>2. \A j \in Items : /\ items'[j].box \in {Null, items[j].box}
                         /\ items'[j].boxed => items[j].boxed \/ Exists(j)
    BY <1>2, <1>5 DEF ItemsBut
  <2> QED BY <1>1, <1>3, <1>5, <2>1, <2>2, OrphansKept
<1>7. OneReceipt' /\ BoxedByReceipt'
  BY <1>1, <1>2, ReceiptsKept DEF ItemsBut
<1>8. /\ items[i].distributor = Null
      /\ \A row \in shipments : ~Names(row, i)
  BY <1>1, Nowhere DEF Free
<1>9. Where'
  <2>1. \A row \in shipments : row.item = Null => row.box # Null
    BY DEF RowsTell
  <2>2. ItemWhere(i)'
    BY <1>1, <1>2, <1>8, <2>1 DEF ItemWhere, Names
  <2>3. \A j \in Items \ {i} : ItemWhere(j)'
    BY <1>1, <1>2 DEF Where, ItemWhere, Names, ItemsBut
  <2> QED BY <1>1, <2>2, <2>3 DEF Where, BoxWhere
<1>10. RowsTell' /\ ShippedIsConfirmed'
  <2>1. \A row \in shipments : row.item \in (Items \ {i}) \cup {Null}
    BY <1>8 DEF StockTypeOK, Shipment, Names
  <2> QED BY <1>1, <1>2, <2>1 DEF RowsTell, ShippedIsConfirmed, ItemsBut
<1> QED BY <1>3, <1>4, <1>6, <1>7, <1>9, <1>10

\* What becomes of a box when items S are taken out: blank, or with what is left.
Blanked(c, S) ==
  /\ Within(c) \subseteq S /\ Exists(c) /\ boxes[c].distributor = Null
  /\ boxes'[c].count = 0 /\ boxes'[c].status = "in_stock" /\ ~boxes'[c].confirmed
  /\ boxes'[c].distributor = Null
Reduced(c, S) ==
  /\ boxes'[c].count = Cardinality(Within(c) \ S)
  /\ boxes'[c].confirmed =>
       boxes[c].confirmed /\ Within(c) \cap S = {} /\ boxes'[c].size = boxes[c].size
  /\ boxes[c].distributor # Null => boxes'[c].confirmed
  /\ boxes'[c].product = boxes[c].product /\ boxes'[c].batch = boxes[c].batch
  /\ boxes'[c].factory = boxes[c].factory /\ boxes'[c].status = boxes[c].status
  /\ boxes'[c].distributor = boxes[c].distributor

\* A receipt that is cancelled, of one item or of a box: items without shipments are
\* cleared, and so is each box, or it counts what is left.
LEMMA ClearKeeps ==
  ASSUME StockInv, NEW S \in SUBSET Items, clearItemReceipt(S),
         \A i \in S : ~itemHasShipment(i) /\ Exists(i),
         boxes' \in [Boxes -> Box], UNCHANGED <<shipments, queried>>,
         \A c \in packRecords' \ packRecords : c \in StockCodes /\ Exists(c),
         \A c \in Boxes : Blanked(c, S) \/ Reduced(c, S)
  PROVE  StockInv'
<1> USE DEF StockInv, BoxesSound
<1>1. /\ ItemsBut(S)
      /\ \A i \in S :
           /\ items'[i].box = Null /\ items'[i].status = "in_stock" /\ ~items'[i].boxed
           /\ items'[i].distributor = Null
      /\ \A c \in Boxes : Within(c)' = Within(c) \ S
  BY ClearRows
<1>2. StockTypeOK'
  <2>1. packRecords' \subseteq StockCodes
    BY DEF StockTypeOK
  <2> QED BY <1>1, <2>1 DEF StockTypeOK, ItemsBut
<1>3. ConfirmedIsFull'
  <2> SUFFICES ASSUME NEW c \in Boxes
               PROVE  /\ boxes'[c].count = Cardinality(Within(c)')
                      /\ boxes'[c].confirmed =>
                           boxes'[c].product # Null /\ boxes'[c].count = SizeOf(c)'
    BY DEF ConfirmedIsFull
  <2>1. CASE Blanked(c, S)
    <3>1. Within(c)' = {}
      BY <1>1, <2>1 DEF Blanked
    <3> QED BY <2>1, <3>1, FS_EmptySet DEF Blanked
  <2>2. CASE Reduced(c, S)
    <3>1. boxes'[c].count = Cardinality(Within(c)')
      BY <1>1, <2>2 DEF Reduced
    <3>2. ASSUME boxes'[c].confirmed
          PROVE  boxes'[c].product # Null /\ boxes'[c].count = SizeOf(c)'
      <4>1. SizeOf(c)' = SizeOf(c) /\ Within(c)' = Within(c)
        BY <1>1, <2>2, <3>2 DEF Reduced, SizeOf
      <4> QED BY <2>2, <3>1, <3>2, <4>1 DEF Reduced, ConfirmedIsFull
    <3> QED BY <3>1, <3>2
  <2> QED BY <2>1, <2>2
<1>4. NoOrphans'
  <2>1. ASSUME NEW c \in StockCodes, Exists(c) PROVE Exists(c)'
    <3>1. CASE c \in Boxes
      BY <2>1, <3>1 DEF Exists, Blanked, Reduced
    <3>2. CASE c \notin Boxes
      BY <1>1, <2>1, <3>2 DEF Exists, ItemsBut, StockCodes
    <3> QED BY <3>1, <3>2
  <2>2. \A i \in Items : /\ items'[i].box \in {Null, items[i].box}
                         /\ items'[i].boxed => items[i].boxed \/ Exists(i)
    BY <1>1 DEF ItemsBut
  <2> QED BY <1>2, <2>1, <2>2, OrphansKept
<1>5. OneReceipt' /\ BoxedByReceipt'
  <2>1. ASSUME NEW i \in Items, items'[i].box # Null
        PROVE  /\ items'[i] = items[i]
               /\ boxes'[items[i].box].product = boxes[items[i].box].product
               /\ boxes'[items[i].box].batch = boxes[items[i].box].batch
               /\ boxes'[items[i].box].factory = boxes[items[i].box].factory
    <3>1. i \notin S /\ items'[i] = items[i]
      BY <1>1, <2>1 DEF ItemsBut
    <3>2. items[i].box \in Boxes /\ i \in Within(items[i].box)
      BY <2>1, <3>1 DEF StockTypeOK, Item, Within
    <3>3. Reduced(items[i].box, S)
      BY <3>1, <3>2 DEF Blanked
    <3> QED BY <3>1, <3>3 DEF Reduced
  <2> QED BY <2>1, ReceiptsKept
<1>6. \A i \in S : \A row \in shipments : ~Names(row, i)
  BY Nowhere
<1>7. \A c \in Boxes : boxes'[c].distributor = boxes[c].distributor
                       /\ (boxes'[c].status = "shipped" => boxes[c].status = "shipped")
  BY DEF Blanked, Reduced
<1>8. Where'
  <2>1. \A row \in shipments : row.item = Null => row.box # Null
    BY DEF RowsTell
  <2>2. \A i \in S : ItemWhere(i)'
    BY <1>1, <1>6, <2>1 DEF ItemWhere, Names
  <2>3. \A i \in Items \ S : ItemWhere(i)'
    BY <1>1 DEF Where, ItemWhere, Names, ItemsBut
  <2>4. \A c \in Boxes : BoxWhere(c)'
    BY <1>7 DEF Where, BoxWhere
  <2> QED BY <2>2, <2>3, <2>4 DEF Where
<1>9. RowsTell' /\ ShippedIsConfirmed'
  <2>1. \A row \in shipments : row.item \in (Items \ S) \cup {Null}
    BY <1>6 DEF StockTypeOK, Shipment, Names
  <2>2. RowsTell'
    BY <1>1, <2>1 DEF RowsTell, ItemsBut
  <2>3. ShippedIsConfirmed'
    BY DEF ShippedIsConfirmed, Blanked, Reduced
  <2> QED BY <2>2, <2>3
<1> QED BY <1>2, <1>3, <1>4, <1>5, <1>8, <1>9

\* The receipt of one item is cancelled, and its box counts the rest.
LEMMA TakeOutStep ==
  ASSUME StockInv, NEW i \in Items, TakeOut(i)
  PROVE  StockInv'
<1> USE DEF StockInv, BoxesSound
<1> DEFINE b == items[i].box
<1>1. /\ ~itemHasShipment(i) /\ clearItemReceipt({i}) /\ items[i].status # "deleted"
      /\ packRecords' = packRecords \cup {i} \cup Boxed(i) /\ UNCHANGED <<shipments, queried>>
  BY DEF TakeOut
<1>2. b \in Boxes \cup {Null} /\ Null \notin Boxes /\ i \in StockCodes /\ i \notin Boxes
  BY StockAssumption DEF StockTypeOK, Item, StockCodes
<1>3. Exists(i) /\ (b # Null => Exists(b))
  BY <1>1, <1>2 DEF NoOrphans, Exists
<1>4. b # Null => boxes[b].distributor = Null
  BY <1>1, <1>2, Nowhere
<1>5. /\ BoxesBut(b)
      /\ b # Null /\ Within(b) \ {i} = {} => boxes'[b] = clearedBox
      /\ b # Null /\ Within(b) \ {i} # {} =>
           /\ boxes'[b].count = Cardinality(Within(b) \ {i}) /\ ~boxes'[b].confirmed
           /\ boxes'[b].factory = boxes[b].factory
           /\ boxes'[b].product = boxes[b].product /\ boxes'[b].batch = boxes[b].batch
           /\ boxes'[b].status = boxes[b].status
           /\ boxes'[b].distributor = boxes[b].distributor
  BY <1>2, TakeOutRow, WithinFinite
<1>6. \A c \in packRecords' \ packRecords : c \in StockCodes /\ Exists(c)
  BY <1>1, <1>2, <1>3 DEF Boxed, StockCodes
<1>7. ASSUME NEW c \in Boxes PROVE Blanked(c, {i}) \/ Reduced(c, {i})
  <2>1. CASE c # b
    <3>1. boxes'[c] = boxes[c] /\ i \notin Within(c)
      BY <1>5, <2>1 DEF BoxesBut, Within
    <3>2. Within(c) \ {i} = Within(c) /\ Within(c) \cap {i} = {}
      BY <3>1
    <3> QED BY <3>1, <3>2 DEF Reduced, ConfirmedIsFull, ShippedIsConfirmed
  <2>2. CASE c = b /\ Within(c) \ {i} = {}
    <3>1. boxes'[c] = clearedBox
      BY <1>2, <1>5, <2>2
    <3> QED BY <1>2, <1>3, <1>4, <2>2, <3>1 DEF Blanked, clearedBox
  <2>3. CASE c = b /\ Within(c) \ {i} # {}
    BY <1>2, <1>4, <1>5, <2>3 DEF Reduced
  <2> QED BY <2>1, <2>2, <2>3
<1>8. boxes' \in [Boxes -> Box]
  BY <1>5 DEF BoxesBut
<1> QED BY <1>1, <1>3, <1>6, <1>7, <1>8, ClearKeeps

\* The receipt of a box is cancelled, with those of its items.
LEMMA CancelBoxStep ==
  ASSUME StockInv, NEW b \in Boxes, CancelBox(b)
  PROVE  StockInv'
<1> USE DEF StockInv, BoxesSound
<1>1. /\ \A i \in Within(b) : ~itemHasShipment(i)
      /\ boxes[b].distributor = Null /\ Exists(b)
      /\ clearItemReceipt(Within(b)) /\ UNCHANGED <<shipments, queried>>
      /\ packRecords' \subseteq packRecords \cup Within(b) \cup {b}
  BY DEF CancelBox, Exists
<1>2. \A i \in Within(b) : i \in Items /\ Exists(i)
  BY StockAssumption DEF Within, NoOrphans, StockCodes
<1>3. BoxesBut(b) /\ boxes'[b] = clearedBox
  <2>1. clearedBox \in Box /\ boxes' = [boxes EXCEPT ![b] = clearedBox]
    BY DEF clearedBox, Box, CancelBox
  <2> QED BY <2>1, BoxRow
<1>4. \A c \in packRecords' \ packRecords : c \in StockCodes /\ Exists(c)
  BY <1>1, <1>2 DEF StockCodes
<1>5. ASSUME NEW c \in Boxes PROVE Blanked(c, Within(b)) \/ Reduced(c, Within(b))
  <2>1. CASE c # b
    <3>1. boxes'[c] = boxes[c] /\ Within(c) \cap Within(b) = {}
      BY <1>3, <2>1 DEF BoxesBut, Within
    <3>2. Within(c) \ Within(b) = Within(c)
      BY <3>1
    <3> QED BY <3>1, <3>2 DEF Reduced, ConfirmedIsFull, ShippedIsConfirmed
  <2>2. CASE c = b
    BY <1>1, <1>3, <2>2 DEF Blanked, clearedBox
  <2> QED BY <2>1, <2>2
<1>6. boxes' \in [Boxes -> Box] /\ Within(b) \in SUBSET Items
  BY <1>3, WithinFinite DEF BoxesBut
<1> QED BY <1>1, <1>2, <1>4, <1>5, <1>6, ClearKeeps

-----------------------------------------------------------------------------
(* Shipping *)

\* Where things are does not disturb what is in a box and who received it.
LEMMA ShippingKeeps ==
  ASSUME StockInv, NEW S \in SUBSET Items, ItemsBut(S),
         \A i \in S : /\ items'[i].box = items[i].box /\ items'[i].boxed = items[i].boxed
                      /\ items'[i].product = items[i].product
                      /\ items'[i].batch = items[i].batch
                      /\ items'[i].factory = items[i].factory
                      /\ items'[i].status # "deleted",
         boxes' \in [Boxes -> Box],
         \A c \in Boxes : boxes'[c] = boxes[c] \/
           /\ boxes'[c].count = boxes[c].count /\ boxes'[c].factory = boxes[c].factory
           /\ boxes'[c].product = boxes[c].product /\ boxes'[c].batch = boxes[c].batch
           /\ boxes'[c].size = boxes[c].size /\ boxes'[c].confirmed = boxes[c].confirmed
           /\ boxes'[c].status # "deleted",
         UNCHANGED <<packRecords, queried>>, shipments' \subseteq Shipment,
         \A row \in shipments' \ shipments : /\ row.box # Null => Exists(row.box)
                                             /\ row.item # Null => Exists(row.item)
  PROVE  BoxesSound' /\ OneReceipt' /\ BoxedByReceipt'
<1> USE DEF StockInv, BoxesSound
<1>1. StockTypeOK'
  BY DEF StockTypeOK, ItemsBut
<1>2. \A i \in Items :
        /\ items'[i].box = items[i].box /\ items'[i].boxed = items[i].boxed
        /\ items'[i].product = items[i].product /\ items'[i].batch = items[i].batch
        /\ items'[i].factory = items[i].factory
        /\ items'[i].status = "deleted" => items[i].status = "deleted"
  BY DEF ItemsBut
<1>3. \A c \in Boxes : Within(c)' = Within(c)
  BY <1>2 DEF Within
<1>4. ConfirmedIsFull'
  BY <1>3, CountsKept
<1>5. \A c \in StockCodes : Exists(c) => Exists(c)'
  BY <1>2 DEF Exists, StockCodes
<1>6. NoOrphans'
  BY <1>1, <1>2, <1>5, OrphansKept
<1>7. OneReceipt' /\ BoxedByReceipt'
  <2>1. \A i \in Items : items[i].box # Null => items[i].box \in Boxes
    BY DEF StockTypeOK, Item
  <2> QED BY <1>2, <2>1, ReceiptsKept
<1> QED BY <1>1, <1>4, <1>6, <1>7

\* A box is shipped with everything in it.
LEMMA ShipBoxStep ==
  ASSUME StockInv, NEW b \in Boxes, NEW d \in Distributors, ShipBox(b, d)
  PROVE  StockInv'
<1> USE DEF StockInv, BoxesSound
<1> DEFINE sent == [box |-> b, item |-> Null, distributor |-> d]
<1>0. b # Null /\ d # Null /\ b \in StockCodes /\ Within(b) \in SUBSET Items /\ StockTypeOK
  BY WithinFinite, StockAssumption DEF StockCodes
<1>1. /\ BoxesBut(b) /\ boxes'[b].status = "shipped" /\ boxes'[b].distributor = d
      /\ boxes'[b].count = boxes[b].count /\ boxes'[b].factory = boxes[b].factory
      /\ boxes'[b].product = boxes[b].product /\ boxes'[b].batch = boxes[b].batch
      /\ boxes'[b].size = boxes[b].size /\ boxes'[b].confirmed = boxes[b].confirmed
  <2>1. boxes' = [boxes EXCEPT ![b].status = "shipped", ![b].distributor = d]
    BY DEF ShipBox
  <2> QED BY <1>0, <2>1, StatusRow
<1>2. /\ ItemsBut(Within(b))
      /\ \A i \in Within(b) :
           /\ items'[i].status = "shipped" /\ items'[i].distributor = d
           /\ items'[i].box = items[i].box /\ items'[i].boxed = items[i].boxed
           /\ items'[i].product = items[i].product /\ items'[i].batch = items[i].batch
           /\ items'[i].factory = items[i].factory
  <2> DEFINE st == [i \in Within(b) |-> "shipped"]
             to == [i \in Within(b) |-> d]
  <2>1. /\ st \in [Within(b) -> {"in_stock", "scanned", "shipped", "invalid", "deleted"}]
        /\ to \in [Within(b) -> Distributors \cup {Null}]
    OBVIOUS
  <2>2. Written(Within(b), st, to)
    BY DEF ShipBox, Written
  <2>3. \A i \in Within(b) : st[i] = "shipped" /\ to[i] = d
    OBVIOUS
  <2> HIDE DEF st, to
  <2> QED BY <1>0, <2>1, <2>2, <2>3, StatusRows
<1>3. /\ shipments' = shipments \cup {sent} /\ UNCHANGED <<packRecords, queried>>
      /\ boxes[b].confirmed /\ Exists(b)
      /\ \A row \in shipments : row.box # b
      /\ \A i \in Within(b) : ~itemHasShipment(i)
  BY DEF ShipBox, Exists
<1>4. /\ sent \in Shipment /\ sent.box = b /\ sent.item = Null /\ sent.distributor = d
  BY DEF Shipment
<1> HIDE DEF sent
<1>5. BoxesSound' /\ OneReceipt' /\ BoxedByReceipt'
  <2>1. shipments' \subseteq Shipment
    BY <1>3, <1>4 DEF StockTypeOK
  <2>2. \A row \in shipments' \ shipments : /\ row.box # Null => Exists(row.box)
                                            /\ row.item # Null => Exists(row.item)
    BY <1>3, <1>4
  <2>3. boxes' \in [Boxes -> Box] /\ \A c \in Boxes \ {b} : boxes'[c] = boxes[c]
    BY <1>1 DEF BoxesBut
  <2> QED BY <1>0, <1>1, <1>2, <1>3, <2>1, <2>2, <2>3, ShippingKeeps
<1>6. \A i \in Items : items'[i].box = items[i].box
  BY <1>2 DEF ItemsBut
<1>7. Where'
  <2>1. ASSUME NEW i \in Within(b) PROVE ItemWhere(i)'
    <3>1. \A row \in shipments : ~Names(row, i)
      BY <1>0, <1>3, Nowhere
    <3>2. items'[i].box = b /\ i \in Items
      BY <1>6 DEF Within
    <3>3. \A row \in shipments : ~Names(row, i)'
      BY <1>6, <3>1, <3>2 DEF Names
    <3>4. Names(sent, i)'
      BY <1>4, <3>2 DEF Names
    <3> QED BY <1>0, <1>2, <1>3, <1>4, <3>3, <3>4 DEF ItemWhere
  <2>2. ASSUME NEW i \in Items \ Within(b) PROVE ItemWhere(i)'
    <3>1. items'[i] = items[i] /\ items[i].box # b
      BY <1>2 DEF ItemsBut, Within
    <3>2. ~Names(sent, i)'
      BY <1>0, <1>4, <3>1, StockAssumption DEF Names, StockCodes
    <3> QED BY <1>3, <3>1, <3>2 DEF Where, ItemWhere, Names
  <2>3. BoxWhere(b)'
    BY <1>0, <1>1, <1>3, <1>4 DEF BoxWhere
  <2>4. ASSUME NEW c \in Boxes \ {b} PROVE BoxWhere(c)'
    BY <1>1, <1>3, <1>4 DEF Where, BoxWhere, BoxesBut
  <2> QED BY <2>1, <2>2, <2>3, <2>4 DEF Where
<1>8. RowsTell'
  <2>1. \A row \in shipments : row.item \in Items \cup {Null}
    BY DEF StockTypeOK, Shipment
  <2> QED BY <1>0, <1>3, <1>4, <1>6, <2>1 DEF RowsTell
<1>9. ShippedIsConfirmed'
  BY <1>1, <1>3 DEF ShippedIsConfirmed, BoxesBut
<1> QED BY <1>5, <1>7, <1>8, <1>9

\* One item is shipped, out of its box or alone.
LEMMA ShipItemStep ==
  ASSUME StockInv, NEW i \in Items, NEW d \in Distributors, ShipItem(i, d)
  PROVE  StockInv'
<1> USE DEF StockInv, BoxesSound
<1>0. i # Null /\ d # Null /\ StockTypeOK
  BY StockAssumption DEF StockCodes
<1>1. /\ ItemsBut({i})
      /\ items'[i].status = "shipped" /\ items'[i].distributor = d
      /\ items'[i].box = items[i].box /\ items'[i].boxed = items[i].boxed
      /\ items'[i].product = items[i].product /\ items'[i].batch = items[i].batch
      /\ items'[i].factory = items[i].factory
  <2>1. items' = [items EXCEPT ![i].status = "shipped", ![i].distributor = d]
    BY DEF ShipItem
  <2> QED BY <1>0, <2>1, StatusOfItem
<1>2. /\ UNCHANGED <<boxes, packRecords, queried>>
      /\ ~itemHasShipment(i) /\ items[i].status # "deleted"
      /\ shipments' = shipments \cup {[box |-> items[i].box, item |-> i, distributor |-> d]}
  BY DEF ShipItem
<1>3. PICK sent \in Shipment :
        /\ sent.item = i /\ sent.distributor = d
        /\ sent.box = items[i].box /\ items[i].box \in Boxes \cup {Null}
        /\ shipments' = shipments \cup {sent}
  BY <1>2 DEF Shipment, StockTypeOK, Item
<1>4. Exists(i) /\ (items[i].box # Null => Exists(items[i].box))
  BY <1>2, StockAssumption DEF NoOrphans, Exists
<1>5. BoxesSound' /\ OneReceipt' /\ BoxedByReceipt'
  <2>1. shipments' \subseteq Shipment
    BY <1>2, <1>3 DEF StockTypeOK
  <2>2. \A row \in shipments' \ shipments : /\ row.box # Null => Exists(row.box)
                                            /\ row.item # Null => Exists(row.item)
    BY <1>2, <1>3, <1>4
  <2>3. boxes' \in [Boxes -> Box]
    BY <1>2 DEF StockTypeOK
  <2> QED BY <1>1, <1>2, <2>1, <2>2, <2>3, ShippingKeeps
<1>6. \A j \in Items : items'[j].box = items[j].box
  BY <1>1 DEF ItemsBut
<1>7. Where'
  <2>1. ItemWhere(i)'
    <3>1. \A row \in shipments : ~Names(row, i)'
      <4>1. \A row \in shipments : ~Names(row, i)
        BY <1>2, Nowhere
      <4> QED BY <1>6, <4>1 DEF Names
    <3>2. Names(sent, i)'
      BY <1>3 DEF Names
    <3> QED BY <1>0, <1>1, <1>2, <1>3, <3>1, <3>2 DEF ItemWhere
  <2>2. ASSUME NEW j \in Items \ {i} PROVE ItemWhere(j)'
    <3>1. items'[j] = items[j] /\ ~Names(sent, j)'
      BY <1>0, <1>1, <1>3 DEF ItemsBut, Names
    <3> QED BY <1>3, <3>1 DEF Where, ItemWhere, Names
  <2>3. ASSUME NEW c \in Boxes PROVE BoxWhere(c)'
    BY <1>0, <1>2, <1>3 DEF Where, BoxWhere
  <2> QED BY <2>1, <2>2, <2>3 DEF Where
<1>8. RowsTell' /\ ShippedIsConfirmed'
  <2>1. \A row \in shipments : row.item \in Items \cup {Null}
    BY DEF StockTypeOK, Shipment
  <2> QED BY <1>0, <1>2, <1>3, <1>6, <2>1 DEF RowsTell, ShippedIsConfirmed
<1> QED BY <1>5, <1>7, <1>8

\* A box comes back, and the items that went with it.
LEMMA CancelBoxShipmentStep ==
  ASSUME StockInv, NEW b \in Boxes, CancelBoxShipment(b)
  PROVE  StockInv'
<1> USE DEF StockInv, BoxesSound
<1>0. StockTypeOK /\ Within(b) \in SUBSET Items
  BY WithinFinite
<1>1. /\ BoxesBut(b) /\ boxes'[b].status = "in_stock" /\ boxes'[b].distributor = Null
      /\ boxes'[b].count = boxes[b].count /\ boxes'[b].factory = boxes[b].factory
      /\ boxes'[b].product = boxes[b].product /\ boxes'[b].batch = boxes[b].batch
      /\ boxes'[b].size = boxes[b].size /\ boxes'[b].confirmed = boxes[b].confirmed
  <2>1. boxes' = [boxes EXCEPT ![b].status = "in_stock", ![b].distributor = Null]
    BY DEF CancelBoxShipment
  <2> QED BY <1>0, <2>1, StatusRow
<1>2. /\ ItemsBut(Within(b))
      /\ \A i \in Within(b) :
           /\ items'[i].status \in {"invalid", "scanned"} /\ items'[i].distributor = Null
           /\ items'[i].box = items[i].box /\ items'[i].boxed = items[i].boxed
           /\ items'[i].product = items[i].product /\ items'[i].batch = items[i].batch
           /\ items'[i].factory = items[i].factory
  <2> DEFINE st == [i \in Within(b) |-> IF items[i].status = "invalid" THEN "invalid"
                                                                      ELSE "scanned"]
             to == [i \in Within(b) |-> Null]
  <2>1. /\ st \in [Within(b) -> {"in_stock", "scanned", "shipped", "invalid", "deleted"}]
        /\ to \in [Within(b) -> Distributors \cup {Null}]
    OBVIOUS
  <2>2. Written(Within(b), st, to)
    BY DEF CancelBoxShipment, Written
  <2>3. \A i \in Within(b) : st[i] \in {"invalid", "scanned"} /\ to[i] = Null
    OBVIOUS
  <2> HIDE DEF st, to
  <2> QED BY <1>0, <2>1, <2>2, <2>3, StatusRows
<1>3. /\ shipments' = {row \in shipments : row.box # b}
      /\ UNCHANGED <<packRecords, queried>>
  BY DEF CancelBoxShipment
<1>4. BoxesSound' /\ OneReceipt' /\ BoxedByReceipt'
  <2>1. shipments' \subseteq Shipment /\ shipments' \ shipments = {}
    BY <1>3 DEF StockTypeOK
  <2>2. boxes' \in [Boxes -> Box] /\ \A c \in Boxes \ {b} : boxes'[c] = boxes[c]
    BY <1>1 DEF BoxesBut
  <2> QED BY <1>0, <1>1, <1>2, <1>3, <2>1, <2>2, ShippingKeeps
<1>5. \A i \in Items : items'[i].box = items[i].box
  BY <1>2 DEF ItemsBut
<1>6. Where'
  <2>1. ASSUME NEW i \in Within(b) PROVE ItemWhere(i)'
    <3>1. i \in Items /\ items[i].box = b /\ i # Null
      BY StockAssumption DEF Within, StockCodes
    <3>2. \A row \in shipments' : ~Names(row, i)'
      BY <1>3, <1>5, <3>1 DEF Names, RowsTell
    <3> QED BY <1>2, <3>2 DEF ItemWhere
  <2>2. ASSUME NEW i \in Items \ Within(b) PROVE ItemWhere(i)'
    <3>1. items'[i] = items[i] /\ items[i].box # b /\ i # Null
      BY <1>2, StockAssumption DEF ItemsBut, Within, StockCodes
    <3>2. \A row \in shipments : Names(row, i) => row \in shipments'
      BY <1>3, <3>1 DEF Names, RowsTell
    <3> QED BY <1>3, <3>1, <3>2 DEF Where, ItemWhere, Names
  <2>3. BoxWhere(b)'
    BY <1>1, <1>3 DEF BoxWhere
  <2>4. ASSUME NEW c \in Boxes \ {b} PROVE BoxWhere(c)'
    BY <1>1, <1>3 DEF Where, BoxWhere, BoxesBut
  <2> QED BY <2>1, <2>2, <2>3, <2>4 DEF Where
<1>7. RowsTell'
  <2>1. \A row \in shipments : row.item \in Items \cup {Null}
    BY DEF StockTypeOK, Shipment
  <2> QED BY <1>3, <1>5, <2>1 DEF RowsTell
<1>8. ShippedIsConfirmed'
  BY <1>1 DEF ShippedIsConfirmed, BoxesBut
<1> QED BY <1>4, <1>6, <1>7, <1>8

\* An item comes back.
LEMMA CancelItemShipmentStep ==
  ASSUME StockInv, NEW i \in Items, CancelItemShipment(i)
  PROVE  StockInv'
<1> USE DEF StockInv, BoxesSound
<1>0. i # Null /\ StockTypeOK
  BY StockAssumption DEF StockCodes
<1>1. /\ ItemsBut({i})
      /\ items'[i].status \in {"scanned", "in_stock"} /\ items'[i].distributor = Null
      /\ items'[i].box = items[i].box /\ items'[i].boxed = items[i].boxed
      /\ items'[i].product = items[i].product /\ items'[i].batch = items[i].batch
      /\ items'[i].factory = items[i].factory
  <2>1. \/ items' = [items EXCEPT ![i].status = "scanned", ![i].distributor = Null]
        \/ items' = [items EXCEPT ![i].status = "in_stock", ![i].distributor = Null]
    BY DEF CancelItemShipment
  <2>2. CASE items' = [items EXCEPT ![i].status = "scanned", ![i].distributor = Null]
    BY <1>0, <2>2, StatusOfItem
  <2>3. CASE items' = [items EXCEPT ![i].status = "in_stock", ![i].distributor = Null]
    BY <1>0, <2>3, StatusOfItem
  <2> QED BY <2>1, <2>2, <2>3
<1>2. /\ shipments' = {row \in shipments : row.item # i}
      /\ UNCHANGED <<boxes, packRecords, queried>>
      /\ \/ items[i].box = Null
         \/ \A row \in shipments : ~(row.box = items[i].box /\ row.item = Null)
  BY DEF CancelItemShipment
<1>3. BoxesSound' /\ OneReceipt' /\ BoxedByReceipt'
  <2>1. shipments' \subseteq Shipment /\ shipments' \ shipments = {}
    BY <1>2 DEF StockTypeOK
  <2>2. boxes' \in [Boxes -> Box]
    BY <1>2 DEF StockTypeOK
  <2> QED BY <1>1, <1>2, <2>1, <2>2, ShippingKeeps
<1>4. \A j \in Items : items'[j].box = items[j].box
  BY <1>1 DEF ItemsBut
<1>5. Where'
  <2>1. ItemWhere(i)'
    <3>1. \A row \in shipments' : ~Names(row, i)'
      BY <1>2, <1>4 DEF Names, RowsTell
    <3> QED BY <1>1, <3>1 DEF ItemWhere
  <2>2. ASSUME NEW j \in Items \ {i} PROVE ItemWhere(j)'
    <3>1. items'[j] = items[j] /\ \A row \in shipments : Names(row, j) => row \in shipments'
      BY <1>0, <1>1, <1>2 DEF ItemsBut, Names
    <3> QED BY <1>2, <3>1 DEF Where, ItemWhere, Names
  <2>3. ASSUME NEW c \in Boxes PROVE BoxWhere(c)'
    BY <1>0, <1>2 DEF Where, BoxWhere
  <2> QED BY <2>1, <2>2, <2>3 DEF Where
<1>6. RowsTell' /\ ShippedIsConfirmed'
  <2>1. \A row \in shipments : row.item \in Items \cup {Null}
    BY DEF StockTypeOK, Shipment
  <2> QED BY <1>2, <1>4, <2>1 DEF RowsTell, ShippedIsConfirmed
<1> QED BY <1>3, <1>5, <1>6

-----------------------------------------------------------------------------
(* Codes *)

\* A box that is declared invalid keeps what is in it.
LEMMA InvalidateBoxStep ==
  ASSUME StockInv, NEW b \in Boxes, InvalidateBox(b)
  PROVE  StockInv'
<1> USE DEF StockInv, BoxesSound
<1>1. /\ BoxesBut(b) /\ boxes'[b].status = "invalid"
      /\ boxes'[b].distributor = boxes[b].distributor
      /\ boxes'[b].count = boxes[b].count /\ boxes'[b].factory = boxes[b].factory
      /\ boxes'[b].product = boxes[b].product /\ boxes'[b].batch = boxes[b].batch
      /\ boxes'[b].size = boxes[b].size /\ boxes'[b].confirmed = boxes[b].confirmed
  <2>1. StockTypeOK /\ boxes[b].distributor \in Distributors \cup {Null}
    BY DEF StockTypeOK, Box
  <2>2. boxes' = [boxes EXCEPT ![b].status = "invalid"]
    BY DEF InvalidateBox
  <2> QED BY <2>1, <2>2, StatusRow
<1>2. UNCHANGED <<items, shipments, packRecords, queried>>
  BY DEF InvalidateBox
<1>3. BoxesSound' /\ OneReceipt' /\ BoxedByReceipt'
  <2>1. shipments' \subseteq Shipment /\ shipments' \ shipments = {} /\ ItemsBut({})
    BY <1>2 DEF StockTypeOK, ItemsBut
  <2>2. boxes' \in [Boxes -> Box] /\ \A c \in Boxes \ {b} : boxes'[c] = boxes[c]
    BY <1>1 DEF BoxesBut
  <2> QED BY <1>1, <1>2, <2>1, <2>2, ShippingKeeps
<1>4. Where' /\ RowsTell' /\ ShippedIsConfirmed'
  BY <1>1, <1>2 DEF Where, ItemWhere, BoxWhere, Names, RowsTell, ShippedIsConfirmed, BoxesBut
<1> QED BY <1>3, <1>4

\* An item that is declared invalid stays where it is.
LEMMA InvalidateItemStep ==
  ASSUME StockInv, NEW i \in Items, InvalidateItem(i)
  PROVE  StockInv'
<1> USE DEF StockInv, BoxesSound
<1>1. /\ ItemsBut({i})
      /\ items'[i].status = "invalid" /\ items'[i].distributor = items[i].distributor
      /\ items'[i].box = items[i].box /\ items'[i].boxed = items[i].boxed
      /\ items'[i].product = items[i].product /\ items'[i].batch = items[i].batch
      /\ items'[i].factory = items[i].factory
  <2>1. StockTypeOK /\ items[i].distributor \in Distributors \cup {Null}
    BY DEF StockTypeOK, Item
  <2>2. items' = [items EXCEPT ![i].status = "invalid"]
    BY DEF InvalidateItem
  <2> QED BY <2>1, <2>2, StatusOfItem
<1>2. UNCHANGED <<boxes, shipments, packRecords, queried>>
  BY DEF InvalidateItem
<1>3. BoxesSound' /\ OneReceipt' /\ BoxedByReceipt'
  <2>1. shipments' \subseteq Shipment /\ shipments' \ shipments = {} /\ boxes' \in [Boxes -> Box]
    BY <1>2 DEF StockTypeOK
  <2> QED BY <1>1, <1>2, <2>1, ShippingKeeps
<1>4. \A j \in Items : /\ items'[j].box = items[j].box
                       /\ items'[j].distributor = items[j].distributor
                       /\ items'[j].status = "shipped" => items[j].status = "shipped"
  BY <1>1 DEF ItemsBut
<1>5. Where'
  BY <1>2, <1>4 DEF Where, ItemWhere, BoxWhere, Names
<1>6. RowsTell' /\ ShippedIsConfirmed'
  <2>1. \A row \in shipments : row.item \in Items \cup {Null}
    BY DEF StockTypeOK, Shipment
  <2> QED BY <1>2, <1>4, <2>1 DEF RowsTell, ShippedIsConfirmed
<1> QED BY <1>3, <1>5, <1>6

\* Nothing refers to a box that is deleted.
LEMMA DeleteBoxStep ==
  ASSUME StockInv, NEW b \in Boxes, DeleteBox(b)
  PROVE  StockInv'
<1> USE DEF StockInv, BoxesSound
<1>1. /\ BoxesBut(b) /\ boxes'[b].status = "deleted"
      /\ boxes'[b].distributor = boxes[b].distributor
      /\ boxes'[b].count = boxes[b].count /\ boxes'[b].factory = boxes[b].factory
      /\ boxes'[b].product = boxes[b].product /\ boxes'[b].batch = boxes[b].batch
      /\ boxes'[b].size = boxes[b].size /\ boxes'[b].confirmed = boxes[b].confirmed
  <2>1. StockTypeOK /\ boxes[b].distributor \in Distributors \cup {Null}
    BY DEF StockTypeOK, Box
  <2>2. boxes' = [boxes EXCEPT ![b].status = "deleted"]
    BY DEF DeleteBox
  <2> QED BY <2>1, <2>2, StatusRow
<1>2. /\ UNCHANGED <<items, shipments, packRecords, queried>>
      /\ b \notin packRecords /\ Within(b) = {} /\ \A row \in shipments : row.box # b
  BY DEF DeleteBox
<1>3. StockTypeOK'
  BY <1>1, <1>2 DEF StockTypeOK, BoxesBut
<1>4. \A c \in Boxes : Within(c)' = Within(c)
  BY <1>2 DEF Within
<1>5. ConfirmedIsFull'
  BY <1>1, <1>4, CountsKept DEF BoxesBut
<1>6. OneReceipt' /\ BoxedByReceipt'
  <2>1. \A i \in Items : items[i].box # Null => items[i].box \in Boxes \ {b}
    BY <1>2 DEF StockTypeOK, Item, Within
  <2> QED BY <1>1, <1>2, <2>1, ReceiptsKept DEF BoxesBut
<1>7. NoOrphans'
  <2>1. \A c \in StockCodes \ {b} : Exists(c) => Exists(c)'
    BY <1>1, <1>2 DEF Exists, BoxesBut, StockCodes
  <2>2. \A i \in Items : i # b /\ i \in StockCodes /\ (items[i].box # Null => items[i].box \in StockCodes \ {b})
    BY <1>2, StockAssumption DEF StockTypeOK, Item, Within, StockCodes
  <2>3. \A row \in shipments : /\ row.box # Null => row.box \in StockCodes \ {b}
                               /\ row.item # Null => row.item \in StockCodes \ {b}
    BY <1>2, StockAssumption DEF StockTypeOK, Shipment, StockCodes
  <2>4. \A c \in packRecords : c \in StockCodes \ {b}
    BY <1>2 DEF StockTypeOK
  <2> QED BY <1>2, <2>1, <2>2, <2>3, <2>4 DEF NoOrphans
<1>8. Where' /\ RowsTell' /\ ShippedIsConfirmed'
  BY <1>1, <1>2 DEF Where, ItemWhere, BoxWhere, Names, RowsTell, ShippedIsConfirmed, BoxesBut
<1> QED BY <1>3, <1>5, <1>6, <1>7, <1>8

\* Nothing refers to an item that is deleted.
LEMMA DeleteItemStep ==
  ASSUME StockInv, NEW i \in Items, DeleteItem(i)
  PROVE  StockInv'
<1> USE DEF StockInv, BoxesSound
<1>1. /\ ItemsBut({i})
      /\ items'[i].status = "deleted" /\ items'[i].distributor = items[i].distributor
      /\ items'[i].box = items[i].box /\ items'[i].boxed = items[i].boxed
      /\ \A c \in Boxes : Within(c)' = Within(c)
  <2>1. StockTypeOK /\ items[i].distributor \in Distributors \cup {Null}
    BY DEF StockTypeOK, Item
  <2>2. items' = [items EXCEPT ![i].status = "deleted"]
    BY DEF DeleteItem
  <2> QED BY <2>1, <2>2, StatusOfItem
<1>2. /\ UNCHANGED <<boxes, shipments, packRecords, queried>>
      /\ i \notin packRecords /\ ~items[i].boxed /\ items[i].box = Null
      /\ \A row \in shipments : row.item # i
  BY DEF DeleteItem, BoxedByReceipt
<1>3. StockTypeOK'
  BY <1>1, <1>2 DEF StockTypeOK, ItemsBut
<1>4. ConfirmedIsFull'
  BY <1>1, <1>2, CountsKept
<1>5. OneReceipt' /\ BoxedByReceipt'
  BY <1>1, <1>2, ReceiptsKept DEF ItemsBut
<1>6. NoOrphans'
  <2>1. \A c \in StockCodes \ {i} : Exists(c) => Exists(c)'
    BY <1>1, <1>2 DEF Exists, ItemsBut, StockCodes
  <2>2. \A j \in Items \ {i} : j \in StockCodes \ {i} /\ items'[j] = items[j]
                              /\ (items[j].box # Null => items[j].box \in StockCodes \ {i})
    BY <1>1, StockAssumption DEF StockTypeOK, Item, ItemsBut, StockCodes
  <2>3. \A row \in shipments : /\ row.box # Null => row.box \in StockCodes \ {i}
                               /\ row.item # Null => row.item \in StockCodes \ {i}
    BY <1>2, StockAssumption DEF StockTypeOK, Shipment, StockCodes
  <2>4. \A c \in packRecords : c \in StockCodes \ {i}
    BY <1>2 DEF StockTypeOK
  <2> QED BY <1>1, <1>2, <2>1, <2>2, <2>3, <2>4 DEF NoOrphans
<1>7. \A j \in Items : /\ items'[j].box = items[j].box
                       /\ items'[j].distributor = items[j].distributor
                       /\ items'[j].status = "shipped" => items[j].status = "shipped"
  BY <1>1 DEF ItemsBut
<1>8. Where'
  BY <1>2, <1>7 DEF Where, ItemWhere, BoxWhere, Names
<1>9. RowsTell' /\ ShippedIsConfirmed'
  <2>1. \A row \in shipments : row.item \in Items \cup {Null}
    BY DEF StockTypeOK, Shipment
  <2> QED BY <1>2, <1>7, <2>1 DEF RowsTell, ShippedIsConfirmed
<1> QED BY <1>3, <1>4, <1>5, <1>6, <1>8, <1>9

\* A query, or no request.
LEMMA SameTables ==
  ASSUME StockInv, queried' \subseteq Items, UNCHANGED <<boxes, items, shipments, packRecords>>
  PROVE  StockInv'
BY DEF StockInv, BoxesSound, StockTypeOK, ConfirmedIsFull, NoOrphans, BoxedByReceipt, OneReceipt,
       Where, RowsTell, ShippedIsConfirmed, Within, SizeOf, Exists, Alike, ItemWhere, BoxWhere,
       Names

\* Every request of the server.
LEMMA StockStep ==
  ASSUME StockInv, [StockNext]_boxVars
  PROVE  StockInv'
<1>1. CASE Pack
  BY <1>1, SetProductStep, ScanStep, BindStep, ConfirmStep DEF Pack
<1>2. CASE \E i \in Items, lot \in Lot, f \in StockFactories : ScanNoBox(i, lot, f)
  BY <1>2, ScanNoBoxStep
<1>3. CASE \E i \in Items : Unbind(i) \/ CancelItem(i) \/ CancelItemShipment(i)
                              \/ InvalidateItem(i) \/ DeleteItem(i)
  BY <1>3, TakeOutStep, CancelItemShipmentStep, InvalidateItemStep, DeleteItemStep
     DEF Unbind, CancelItem
<1>4. CASE (\E i \in Items : LookUp(i)) \/ UNCHANGED boxVars
  BY <1>4, SameTables DEF LookUp, boxVars, StockInv, BoxesSound, StockTypeOK
<1>5. CASE \E b \in Boxes : CancelBox(b) \/ CancelBoxShipment(b)
                              \/ InvalidateBox(b) \/ DeleteBox(b)
  BY <1>5, CancelBoxStep, CancelBoxShipmentStep, InvalidateBoxStep, DeleteBoxStep
<1>6. CASE \E d \in Distributors : \/ \E b \in Boxes : ShipBox(b, d)
                                   \/ \E i \in Items : ShipItem(i, d)
  BY <1>6, ShipBoxStep, ShipItemStep
<1> QED BY <1>1, <1>2, <1>3, <1>4, <1>5, <1>6 DEF StockNext

\* Blank tables, whatever was deleted from them and looked up before.
LEMMA StockStart ==
  ASSUME NEW deleted \in SUBSET StockCodes, NEW seen \in SUBSET Items, StockInitWith(deleted, seen)
  PROVE  StockInv
<1> USE StockAssumption DEF StockInitWith
<1>1. StockTypeOK
  BY DEF StockTypeOK, Box, Item, StockCodes
<1>2. \A b \in Boxes : Within(b) = {} /\ boxes[b].count = 0 /\ ~boxes[b].confirmed
                       /\ boxes[b].distributor = Null /\ boxes[b].status # "shipped"
  BY DEF Within, StockCodes
<1>3. \A i \in Items : items[i].box = Null /\ ~items[i].boxed /\ items[i].distributor = Null
                       /\ items[i].status # "shipped"
  OBVIOUS
<1>4. shipments = {} /\ packRecords = {}
  OBVIOUS
<1>5. ConfirmedIsFull
  BY <1>2, FS_EmptySet DEF ConfirmedIsFull
<1> QED BY <1>1, <1>2, <1>3, <1>4, <1>5
        DEF StockInv, BoxesSound, NoOrphans, BoxedByReceipt, OneReceipt, Where, ItemWhere,
            BoxWhere, RowsTell, ShippedIsConfirmed

\* Row by row, or all of them at once: the same.
LEMMA WhereTells ==
  ASSUME StockInv
  PROVE  ShipmentsTellWhere
<1> USE DEF StockInv
<1>1. \A row \in shipments : row.distributor \in Distributors /\ row.distributor # Null
  BY StockAssumption DEF BoxesSound, StockTypeOK, Shipment
<1>2. ASSUME NEW i \in Items
      PROVE  LET rows == {row \in shipments : \/ row.item = i
                                              \/ row.item = Null /\ row.box = items[i].box}
             IN {row.distributor : row \in rows} = {items[i].distributor} \ {Null}
  <2> DEFINE rows == {row \in shipments : \/ row.item = i
                                          \/ row.item = Null /\ row.box = items[i].box}
  <2>1. /\ \A row \in rows : row.distributor = items[i].distributor
        /\ items[i].distributor # Null => \E row \in rows : TRUE
    BY DEF Where, ItemWhere, Names
  <2>2. \A row \in rows : row.distributor # Null
    BY <1>1
  <2> HIDE DEF rows
  <2>3. {row.distributor : row \in rows} = {items[i].distributor} \ {Null}
    BY <2>1, <2>2
  <2> QED BY <2>3 DEF rows
<1>3. ASSUME NEW b \in Boxes
      PROVE  LET rows == {row \in shipments : row.item = Null /\ row.box = b}
             IN {row.distributor : row \in rows} = {boxes[b].distributor} \ {Null}
  <2> DEFINE rows == {row \in shipments : row.item = Null /\ row.box = b}
  <2>1. /\ \A row \in rows : row.distributor = boxes[b].distributor
        /\ boxes[b].distributor # Null => \E row \in rows : TRUE
    BY DEF Where, BoxWhere
  <2>2. \A row \in rows : row.distributor # Null
    BY <1>1
  <2> HIDE DEF rows
  <2>3. {row.distributor : row \in rows} = {boxes[b].distributor} \ {Null}
    BY <2>1, <2>2
  <2> QED BY <2>3 DEF rows
<1>4. /\ \A i \in Items : items[i].status = "shipped" => items[i].distributor # Null
      /\ \A b \in Boxes : boxes[b].status = "shipped" => boxes[b].distributor # Null
  BY DEF Where, ItemWhere, BoxWhere
<1> QED BY <1>2, <1>3, <1>4 DEF ShipmentsTellWhere

-----------------------------------------------------------------------------

\* The invariant holds from any codes that were deleted and items that were looked up
\* before, and so from new tables.
LEMMA StockHolds ==
  ASSUME NEW deleted \in SUBSET StockCodes, NEW seen \in SUBSET Items
  PROVE  StockInitWith(deleted, seen) /\ [][StockNext]_boxVars => []StockInv
<1>1. StockInitWith(deleted, seen) => StockInv
  BY StockStart
<1>2. StockInv /\ [StockNext]_boxVars => StockInv'
  BY StockStep
<1> QED BY <1>1, <1>2, PTL

LEMMA StockInvariant == StockSpec => []StockInv
BY StockHolds DEF StockSpec, StockInit

\* A box counts what is in it, one whose receipt is confirmed is full, and what a receipt
\* or a shipment refers to is there, however items are packed, taken out, shipped,
\* cancelled and deleted.
THEOREM BoxesCorrect == StockSpec => []BoxesSound
<1>1. StockInv => BoxesSound
  BY DEF StockInv
<1> QED BY <1>1, StockInvariant, PTL

\* Batches are never mixed in a box, and no receipt is booked to two factories.
THEOREM ReceiptsCorrect == StockSpec => []OneReceipt
<1>1. StockInv => OneReceipt
  BY DEF StockInv
<1> QED BY <1>1, StockInvariant, PTL

\* Where items and boxes are and what the shipments say is the same, over partial
\* shipments of a box and their cancellation.
THEOREM ShipmentsCorrect == StockSpec => []ShipmentsTellWhere
<1>1. StockInv => ShipmentsTellWhere
  BY WhereTells
<1> QED BY <1>1, StockInvariant, PTL

\* All of this is so in a database that was in use before.
THEOREM UsedDatabaseCorrect ==
  ASSUME NEW deleted \in SUBSET StockCodes, NEW seen \in SUBSET Items
  PROVE  StockInitWith(deleted, seen) /\ [][StockNext]_boxVars =>
           [](BoxesSound /\ OneReceipt /\ ShipmentsTellWhere)
<1>1. StockInv => BoxesSound /\ OneReceipt /\ ShipmentsTellWhere
  BY WhereTells DEF StockInv
<1> QED BY <1>1, StockHolds, PTL

\* No request brings an invalid item back into stock or ships it, not even the
\* cancellation of the shipment of its box.
LEMMA InvalidItemStep ==
  ASSUME StockTypeOK, [StockNext]_boxVars, NEW i \in Items, items[i].status = "invalid"
  PROVE  /\ items[i].status' = "invalid"
         /\ items[i].distributor' \in {items[i].distributor, Null}
<1> DEFINE Same == items'[i] = items[i]
<1>1. ASSUME NEW S \in SUBSET Items, NEW b, NEW lot, NEW f, Receive(S, b, lot, f), i \notin S
      PROVE  Same
  BY <1>1 DEF Receive
<1>2. CASE Pack
  <2>1. ASSUME NEW b \in Boxes, NEW f \in StockFactories, NEW j \in Items, NEW size \in Sizes,
               Scan(b, j, size, f)
        PROVE  Same
    <3>1. Receive({j}, b, LotOf(b), f) /\ j # i
      BY <2>1 DEF Scan, Free
    <3> QED BY <1>1, <3>1
  <2>2. ASSUME NEW b \in Boxes, NEW f \in StockFactories, NEW S \in SUBSET Items, Bind(b, S, f)
        PROVE  Same
    <3>1. Receive(S \ Within(b), b, LotOf(b), f) /\ i \notin S \ Within(b)
      BY <2>2 DEF Bind, Free
    <3> QED BY <1>1, <3>1
  <2>3. ASSUME NEW b \in Boxes, NEW f \in StockFactories, Confirm(b, f)
        PROVE  items'[i].status = items[i].status /\ items'[i].distributor = items[i].distributor
    BY <2>3, ConfirmRows, WithinFinite DEF ItemsBut
  <2>4. ASSUME NEW b \in Boxes, NEW f \in StockFactories, NEW lot \in Lot, NEW size \in Sizes,
               SetProduct(b, lot, size, f)
        PROVE  Same
    BY <2>4 DEF SetProduct
  <2>5. Same => /\ items'[i].status = items[i].status
                /\ items'[i].distributor = items[i].distributor
    OBVIOUS
  <2> HIDE DEF Same
  <2>6. items'[i].status = items[i].status /\ items'[i].distributor = items[i].distributor
    BY <1>2, <2>1, <2>2, <2>3, <2>4, <2>5 DEF Pack
  <2> QED BY <2>6
<1>3. ASSUME NEW j \in Items, NEW lot \in Lot, NEW f \in StockFactories, ScanNoBox(j, lot, f)
      PROVE  Same
  <2>1. Receive({j}, Null, lot, f) /\ j # i
    BY <1>3 DEF ScanNoBox, Free
  <2> QED BY <1>1, <2>1
<1>4. ASSUME NEW j \in Items, TakeOut(j) PROVE Same
  BY <1>4 DEF TakeOut, clearItemReceipt
<1>5. ASSUME NEW b \in Boxes, CancelBox(b) PROVE Same
  BY <1>5 DEF CancelBox, clearItemReceipt
<1>6. ASSUME NEW b \in Boxes, NEW d \in Distributors, ShipBox(b, d) PROVE Same
  BY <1>6 DEF ShipBox
<1>7. ASSUME NEW j \in Items, NEW d \in Distributors, ShipItem(j, d) PROVE Same
  <2>1. j # i /\ items' = [items EXCEPT ![j].status = "shipped", ![j].distributor = d]
    BY <1>7 DEF ShipItem
  <2> QED BY <2>1 DEF StockTypeOK
<1>8. ASSUME NEW b \in Boxes, CancelBoxShipment(b)
      PROVE  items'[i].status = "invalid" /\ items'[i].distributor \in {items[i].distributor, Null}
  <2>1. items[i] \in Item
    BY DEF StockTypeOK
  <2>2. items'[i] = IF i \in Within(b) THEN [items[i] EXCEPT
           !.status = IF items[i].status = "invalid" THEN "invalid" ELSE "scanned",
           !.distributor = Null] ELSE items[i]
    BY <1>8 DEF CancelBoxShipment
  <2> QED BY <2>1, <2>2 DEF Item
<1>9. ASSUME NEW j \in Items, CancelItemShipment(j) PROVE Same
  <2>1. j # i
    BY <1>9 DEF CancelItemShipment
  <2> QED BY <1>9, <2>1 DEF CancelItemShipment, StockTypeOK
<1>10. ASSUME NEW j \in Items, InvalidateItem(j) \/ DeleteItem(j) PROVE Same
  <2>1. j # i
    BY <1>10 DEF InvalidateItem, DeleteItem
  <2> QED BY <1>10, <2>1 DEF InvalidateItem, DeleteItem, StockTypeOK
<1>11. ASSUME UNCHANGED items PROVE Same
  BY <1>11
<1> HIDE DEF Same
<1>12. Same => items[i].status' = "invalid"
               /\ items[i].distributor' \in {items[i].distributor, Null}
  BY DEF Same
<1>13. \/ Pack \/ Same
       \/ items'[i].status = "invalid" /\ items'[i].distributor \in {items[i].distributor, Null}
  BY <1>3, <1>4, <1>5, <1>6, <1>7, <1>8, <1>9, <1>10, <1>11
     DEF StockNext, Unbind, CancelItem, LookUp, InvalidateBox, DeleteBox, boxVars
<1> QED BY <1>2, <1>12, <1>13

\* An invalid item stays invalid, and goes to no other distributor, whatever is cancelled.
THEOREM InvalidItemsCorrect == StockSpec => InvalidItemsStay
<1>1. StockInv /\ [StockNext]_boxVars =>
        [\A i \in Items : items[i].status = "invalid" =>
           /\ items[i].status' = "invalid"
           /\ items[i].distributor' \in {items[i].distributor, Null}]_boxVars
  BY InvalidItemStep DEF StockInv, BoxesSound
<1> QED BY <1>1, StockInvariant, PTL DEF StockSpec, InvalidItemsStay
=============================================================================
