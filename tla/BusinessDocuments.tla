------------------------- MODULE BusinessDocuments -------------------------
(***************************************************************************)
(* Business documents: packing orders, shipments, receipts, returns, sales *)
(* and destructions.  A document is created as a draft, its lines name the *)
(* serialized objects it covers, it is approved with its lines frozen, and *)
(* trace events then fulfil its ACTION lines one by one.                   *)
(*                                                                         *)
(* Every handler runs in one database transaction that begins by locking   *)
(* the document row, so each is one action.  A request the handler refuses *)
(* changes nothing and is not an action.                                   *)
(***************************************************************************)
EXTENDS Naturals

CONSTANTS
  Documents,        \* documents that may be created
  Objects,          \* serialized objects
  Organizations,
  None,             \* SQL NULL
  DocumentType,     \* [Documents -> DocumentTypes], the body of the create request
  FromOrganization, \* [Documents -> Organizations \cup {None}], likewise
  ToOrganization,   \* [Documents -> Organizations \cup {None}], likewise
  LineRequests      \* [Documents -> SUBSET LineRequest], the lines clerks enter

DocumentTypes == {"PACKING_ORDER", "SHIPMENT", "RECEIPT", "SALE", "RETURN",
                  "DESTRUCTION"}
LineRequest == [object : Objects, expected : BOOLEAN, role : {"ACTION", "CONTEXT"}]

\* The request schema: a source organization for every type but RECEIPT, a
\* destination for SHIPMENT and RECEIPT.
ASSUME DocumentAssumption ==
  /\ None \notin Organizations \cup Objects \cup Documents
  /\ DocumentType \in [Documents -> DocumentTypes]
  /\ FromOrganization \in [Documents -> Organizations \cup {None}]
  /\ ToOrganization \in [Documents -> Organizations \cup {None}]
  /\ \A d \in Documents :
       /\ DocumentType[d] # "RECEIPT" => FromOrganization[d] # None
       /\ DocumentType[d] \in {"SHIPMENT", "RECEIPT"} => ToOrganization[d] # None
  /\ LineRequests \in [Documents -> SUBSET LineRequest]

VARIABLES
  docStatus,   \* business_documents.status, "ABSENT" before the row exists
  docVersion,  \* business_documents.version
  lines        \* business_document_objects, role "NONE" where there is no row

docVars == <<docStatus, docVersion, lines>>

DocumentStatus == {"ABSENT", "DRAFT", "APPROVED", "IN_PROGRESS", "COMPLETED",
                   "CANCELLED"}
Line == [role : {"NONE", "ACTION", "CONTEXT"}, expected : BOOLEAN,
         fulfilledBy : Nat]

\* Trace events are numbered from 1; 0 is a NULL fulfilled_event_id.
Unfulfilled == 0
NoLine == [role |-> "NONE", expected |-> FALSE, fulfilledBy |-> Unfulfilled]

DocInit ==
  /\ docStatus = [d \in Documents |-> "ABSENT"]
  /\ docVersion = [d \in Documents |-> 0]
  /\ lines = [d \in Documents |-> [o \in Objects |-> NoLine]]

ExpectedLine(d, o) == lines[d][o].role # "NONE" /\ lines[d][o].expected
ExpectedAction(d, o) == lines[d][o].role = "ACTION" /\ lines[d][o].expected
Pending(d) ==
  {o \in Objects : ExpectedAction(d, o) /\ lines[d][o].fulfilledBy = Unfulfilled}

CreateDocument(d) ==
  /\ docStatus[d] = "ABSENT"
  /\ docStatus' = [docStatus EXCEPT ![d] = "DRAFT"]
  /\ UNCHANGED <<docVersion, lines>>

\* Mutant: the draft check of AddObject is lost.
AddObjectAnytime(d, r) ==
  /\ docStatus[d] # "ABSENT"
  /\ lines' = [lines EXCEPT ![d][r.object] =
       [role |-> r.role, expected |-> r.expected, fulfilledBy |-> Unfulfilled]]
  /\ UNCHANGED <<docStatus, docVersion>>

\* Inserts the line or overwrites it, and clears its fulfilment.
AddObject(d, r) ==
  /\ docStatus[d] = "DRAFT"
  /\ lines' = [lines EXCEPT ![d][r.object] =
       [role |-> r.role, expected |-> r.expected, fulfilledBy |-> Unfulfilled]]
  /\ UNCHANGED <<docStatus, docVersion>>

RemoveObject(d, o) ==
  /\ docStatus[d] = "DRAFT"
  /\ lines[d][o].role # "NONE"
  /\ lines' = [lines EXCEPT ![d][o] = NoLine]
  /\ UNCHANGED <<docStatus, docVersion>>

AllowedTransitions ==
  {<<"DRAFT", "APPROVED">>, <<"DRAFT", "CANCELLED">>,
   <<"APPROVED", "IN_PROGRESS">>, <<"APPROVED", "CANCELLED">>,
   <<"IN_PROGRESS", "COMPLETED">>, <<"IN_PROGRESS", "CANCELLED">>}

\* Mutant: completion does not look at the pending lines.
TransitionUnfulfilled(d, expectedVersion, to) ==
  /\ docVersion[d] = expectedVersion
  /\ <<docStatus[d], to>> \in AllowedTransitions
  /\ to = "APPROVED" => \E o \in Objects : ExpectedAction(d, o)
  /\ docStatus' = [docStatus EXCEPT ![d] = to]
  /\ docVersion' = [docVersion EXCEPT ![d] = @ + 1]
  /\ UNCHANGED lines

\* An approver moves the document on, naming the version it has seen.
TransitionDocument(d, expectedVersion, to) ==
  /\ docVersion[d] = expectedVersion
  /\ <<docStatus[d], to>> \in AllowedTransitions
  /\ to = "APPROVED" => \E o \in Objects : ExpectedAction(d, o)
  /\ to = "COMPLETED" => Pending(d) = {}
  /\ docStatus' = [docStatus EXCEPT ![d] = to]
  /\ docVersion' = [docVersion EXCEPT ![d] = @ + 1]
  /\ UNCHANGED lines

\* A document's version is never larger than 3: it is approved, started, closed.
DocumentRequest(d) ==
  \/ CreateDocument(d)
  \/ \E r \in LineRequests[d] : AddObject(d, r)
  \/ \E o \in Objects : RemoveObject(d, o)
  \/ \E v \in 0 .. 3, to \in DocumentStatus : TransitionDocument(d, v, to)

DocNext == \E d \in Documents : DocumentRequest(d)

\* What a trace event does to its document: it fulfils the line of its root
\* object, and the first one starts the execution of an approved document.
Fulfil(d, o, event) ==
  /\ lines' = [lines EXCEPT ![d][o].fulfilledBy = event]
  /\ docStatus' = [docStatus EXCEPT ![d] = "IN_PROGRESS"]
  /\ docVersion' = [docVersion EXCEPT
       ![d] = IF docStatus[d] = "APPROVED" THEN @ + 1 ELSE @]

DocTypeOK ==
  /\ docStatus \in [Documents -> DocumentStatus]
  /\ docVersion \in [Documents -> Nat]
  /\ lines \in [Documents -> [Objects -> Line]]
=============================================================================
