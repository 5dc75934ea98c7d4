------------------------ MODULE MCTraceTransactions ------------------------
(***************************************************************************)
(* Concurrent requests for TLC: item i1 lies in case c1, item i2 is loose. *)
(* The repacking locks i1 before c1 and the shipping c1 before i1, so they *)
(* can deadlock; the packing changes the tree the shipping is about to     *)
(* find; and an approver may cancel a document under any of them.          *)
(***************************************************************************)
EXTENDS MCTraceEvents, TraceTransactions

MCIdOf == [o \in Objects |-> CASE o = i1 -> 3 [] o = i2 -> 1 [] o = c1 -> 4 [] o = c2 -> 2]

Body(type, object, target, document) ==
  [type |-> type, object |-> object, target |-> target, document |-> document,
   organization |-> brand]

\* i1 is repacked from c1 to c2 and i2 packed into c1 while c1 is shipped.
MCRequests ==
  {Body("REPACKING", i1, c2, "pack1"), Body("PACKING", i2, c1, "pack2"),
   Body("SHIPPING", c1, None, "ship")}

PackedDocuments == {"pack1", "pack2", "ship"}
PackedType == [d \in Documents |-> IF d = "ship" THEN "SHIPMENT" ELSE "PACKING_ORDER"]
PackedTo == [d \in Documents |-> IF d = "ship" THEN dealer ELSE None]
PackedLines == [d \in Documents |->
  CASE d = "pack1" -> Action({i1}) \cup Context({c1, c2})
    [] d = "pack2" -> Action({i2}) \cup Context({c1})
    [] d = "ship" -> Action({c1})]

\* The state after i1 has been packed into c1 under an older document: the
\* history before it is not in log.
PackedInit ==
  /\ docStatus = [d \in Documents |-> "APPROVED"]
  /\ docVersion = [d \in Documents |-> 1]
  /\ lines = [d \in Documents |-> LinesOf(LineRequests[d])]
  /\ status = [o \in Objects |-> IF o = i1 THEN "PACKED" ELSE "COMMISSIONED"]
  /\ custodian = [o \in Objects |-> brand]
  /\ parent = [o \in Objects |-> IF o = i1 THEN c1 ELSE None]
  /\ log = <<>>
  /\ risk = [i \in 1 .. MaxEvents |-> "NONE"]
  /\ claims = {}
  /\ TransactionInit

PackedSpec ==
  PackedInit /\ [][TransactionNext]_<<vars, transactionVars>> /\ Fairness
=============================================================================
