---------------------------- MODULE TraceEvents ----------------------------
(***************************************************************************)
(* POST /api/v1/trace-events: a business event scanned on one serialized   *)
(* object under one business document, together with the document handlers *)
(* and the risk decisions it interacts with.                               *)
(*                                                                         *)
(* The handler is one PostgreSQL transaction that locks, in this order, the*)
(* idempotency key, the scanned object, the document, and the objects it   *)
(* packs into, unpacks from or carries along; two requests that share any  *)
(* of them are serialized by those locks, so an accepted request is one    *)
(* action and a refused one (rolled back) is none.  Replaying a key returns*)
(* the stored response and changes nothing, so each accepted request is    *)
(* taken to carry a fresh key.                                             *)
(*                                                                         *)
(* An entry of log stands for all the append-only rows one request writes: *)
(* trace_events, trace_event_object_snapshots, package_relationship_events *)
(* and the event_outbox row with the same aggregations.                    *)
(***************************************************************************)
EXTENDS ObjectLifecycle, BusinessDocuments, Sequences

CONSTANTS
  LevelOf,          \* [Objects -> Level]
  InitialCustodian, \* [Objects -> Organizations \cup {None}]
  Shipments,        \* rows of shipments, which no handler writes
  ShipmentTo,       \* [Shipments -> Organizations]
  ShipmentObjects,  \* [Shipments -> SUBSET Objects], the expected ones
  Capability,       \* [Organizations -> SUBSET EventType], of their members' roles
  Matching,         \* [Receiving -> 0 .. 2], active campaigns that match: 2 is "several"
  MaxEvents         \* bound on accepted events

ASSUME TraceAssumption ==
  /\ LevelOf \in [Objects -> Level]
  /\ InitialCustodian \in [Objects -> Organizations \cup {None}]
  /\ None \notin Shipments
  /\ ShipmentTo \in [Shipments -> Organizations]
  /\ ShipmentObjects \in [Shipments -> SUBSET Objects]
  /\ Capability \in [Organizations -> SUBSET EventType]
  /\ Matching \in [Receiving -> 0 .. 2]
  /\ MaxEvents \in Nat

VARIABLES
  status,     \* serialized_objects.status
  custodian,  \* serialized_objects.current_organization_id
  parent,     \* serialized_objects.parent_id
  log,        \* the accepted events, in commit order
  risk,       \* risk_cases.status of each event, "NONE" where there is no case
  claims      \* reward_claims, each with its ACCRUAL ledger entry

objectVars == <<status, custodian, parent>>
vars == <<docVars, objectVars, log, risk, claims>>

RiskStatus == {"NONE", "OPEN", "HELD", "APPROVED", "REJECTED"}
Link == [parent : Objects, action : {"ADD", "DELETE"}]
Snapshot == [object : Objects, previous : Status, resulting : Status,
             parent : Objects \cup {None}, resultingParent : Objects \cup {None}]
Event == [type : EventType, object : Objects, document : Documents \cup {None},
          organization : Organizations, verification : {"VERIFIED", "PENDING_REVIEW"},
          snapshots : SUBSET Snapshot, links : SUBSET Link]
Claim == [event : 1 .. MaxEvents, beneficiary : Organizations]

Init ==
  /\ DocInit
  /\ status = [o \in Objects |-> "COMMISSIONED"]
  /\ custodian = InitialCustodian
  /\ parent = [o \in Objects |-> None]
  /\ log = <<>>
  /\ risk = [i \in 1 .. MaxEvents |-> "NONE"]
  /\ claims = {}

-----------------------------------------------------------------------------
(* Conditions of the handler *)

DocumentTypeFor(e) ==
  CASE e \in PackagingEvent -> "PACKING_ORDER"
    [] e = "SHIPPING"       -> "SHIPMENT"
    [] e \in Receiving      -> "RECEIPT"
    [] e = "RETURNING"      -> "RETURN"
    [] e = "SELLING"        -> "SALE"
    [] e = "DESTROYING"     -> "DESTRUCTION"

AuthorizedOrganization(d, e) ==
  IF e \in Receiving THEN ToOrganization[d] ELSE FromOrganization[d]

\* Mutant: a fulfilled line is admitted again.
DocumentAdmitsAgain(d, e, o, org) ==
  /\ docStatus[d] \in {"APPROVED", "IN_PROGRESS"}
  /\ DocumentType[d] = DocumentTypeFor(e)
  /\ AuthorizedOrganization(d, e) \in {None, org}
  /\ ExpectedAction(d, o)

DocumentAdmits(d, e, o, org) ==
  /\ docStatus[d] \in {"APPROVED", "IN_PROGRESS"}
  /\ DocumentType[d] = DocumentTypeFor(e)
  /\ AuthorizedOrganization(d, e) \in {None, org}
  /\ ExpectedAction(d, o)
  /\ lines[d][o].fulfilledBy = Unfulfilled

\* Who a receipt must come from: the consignee of the shipment it names, or of
\* its document when it names none.
Consignee(d, s) == IF s = None THEN ToOrganization[d] ELSE ShipmentTo[s]

verificationForEvent(e, o, d, s, org) ==
  IF \/ e \in Receiving /\ Consignee(d, s) # org
     \/ e \in {"PACKING", "REPACKING"} /\ custodian[o] \notin {None, org}
  THEN "REJECTED"
  ELSE IF e \in Receiving /\ s # None /\ o \notin ShipmentObjects[s]
  THEN "PENDING_REVIEW"
  ELSE "VERIFIED"

\* The recursive query for the packaging tree under an object.  A parent
\* outranks its child, so two generations are the whole tree.
ChildrenOf(S) == {x \in Objects : parent[x] \in S}
Contents(o) == ChildrenOf({o}) \cup ChildrenOf(ChildrenOf({o}))

\* Mutants: the rank or the destroyed check of PackagingParent is lost.
PackagingParentAnyLevel(o, p, org) ==
  p # o /\ status[p] # "DESTROYED" /\ custodian[p] \in {None, org}
PackagingParentDestroyed(o, p, org) ==
  ranks[LevelOf[p]] > ranks[LevelOf[o]] /\ custodian[p] \in {None, org}

PackagingParent(o, p, org) ==
  /\ ranks[LevelOf[p]] > ranks[LevelOf[o]]
  /\ status[p] # "DESTROYED"
  /\ custodian[p] \in {None, org}

-----------------------------------------------------------------------------
(* Effects of the handler *)

\* Mutants: only the root object is snapshotted, or objects are read after
\* their update.
SnapshotsOfRoot(e, o, affected, newParent) ==
  {[object |-> o,
    previous |-> status[o], resulting |-> nextObjectStatus(e, status[o]),
    parent |-> parent[o], resultingParent |-> newParent]}
SnapshotsAfterUpdate(e, o, affected, newParent) ==
  {[object |-> x,
    previous |-> nextObjectStatus(e, status[x]),
    resulting |-> nextObjectStatus(e, status[x]), parent |-> parent[x],
    resultingParent |-> IF x = o THEN newParent ELSE parent[x]] : x \in affected}

Snapshots(e, o, affected, newParent) ==
  {[object |-> x,
    previous |-> status[x], resulting |-> nextObjectStatus(e, status[x]),
    parent |-> parent[x],
    resultingParent |-> IF x = o THEN newParent ELSE parent[x]] : x \in affected}

\* A verified event is applied: the affected objects move, the root object's
\* parent changes, the document line is fulfilled.
Apply(e, o, d, org, affected, newParent, links) ==
  /\ Len(log) < MaxEvents
  /\ status' = [x \in Objects |->
       IF x \in affected THEN nextObjectStatus(e, status[x]) ELSE status[x]]
  /\ custodian' = [x \in Objects |-> IF x \in affected THEN org ELSE custodian[x]]
  /\ parent' = [parent EXCEPT ![o] = newParent]
  /\ log' = Append(log,
       [type |-> e, object |-> o, document |-> d, organization |-> org,
        verification |-> "VERIFIED",
        snapshots |-> Snapshots(e, o, affected, newParent), links |-> links])
  /\ Fulfil(d, o, Len(log) + 1)

\* An event that is only recorded: its snapshot shows no change.
Record(e, o, d, org, verification) ==
  /\ Len(log) < MaxEvents
  /\ log' = Append(log,
       [type |-> e, object |-> o, document |-> d, organization |-> org,
        verification |-> verification,
        snapshots |-> Snapshots("VERIFY", o, {o}, parent[o]), links |-> {}])
  /\ UNCHANGED <<docVars, objectVars, claims>>

\* createRewardForEvent: with one matching campaign a claim is accrued unless
\* the budget or the monthly cap is exhausted; several open a risk case.
Reward(e, org) ==
  \/ /\ e \in Receiving => Matching[e] < 2
     /\ UNCHANGED <<risk, claims>>
  \/ /\ e \in Receiving /\ Matching[e] = 1
     /\ claims' = claims \cup {[event |-> Len(log) + 1, beneficiary |-> org]}
     /\ UNCHANGED risk
  \/ /\ e \in Receiving /\ Matching[e] = 2
     /\ risk' = [risk EXCEPT ![Len(log) + 1] = "OPEN"]
     /\ UNCHANGED claims

-----------------------------------------------------------------------------
(* The requests *)

\* Mutant: the contents of a container stay behind.
MoveRootOnly(e, o, d, s, org) ==
  /\ DocumentAdmits(d, e, o, org)
  /\ verificationForEvent(e, o, d, s, org) = "VERIFIED"
  /\ ValidTransition(e, LevelOf[o], status[o])
  /\ Apply(e, o, d, org, {o}, parent[o], {})
  /\ Reward(e, org)

Move(e, o, d, s, org) ==
  LET affected == {o} \cup (IF LevelOf[o] # "ITEM" THEN Contents(o) ELSE {})
  IN
  /\ DocumentAdmits(d, e, o, org)
  /\ verificationForEvent(e, o, d, s, org) = "VERIFIED"
  /\ \A x \in affected : ValidTransition(e, LevelOf[x], status[x])
  /\ Apply(e, o, d, org, affected, parent[o], {})
  /\ Reward(e, org)

\* Mutant: a receipt is rewarded whatever its verification said.
ReceiveForReviewRewarded(e, o, d, s, org) ==
  /\ DocumentAdmits(d, e, o, org)
  /\ verificationForEvent(e, o, d, s, org) = "PENDING_REVIEW"
  /\ ValidTransition(e, LevelOf[o], status[o])
  /\ Len(log) < MaxEvents
  /\ log' = Append(log,
       [type |-> e, object |-> o, document |-> d, organization |-> org,
        verification |-> "PENDING_REVIEW",
        snapshots |-> Snapshots("VERIFY", o, {o}, parent[o]), links |-> {}])
  /\ Reward(e, org)
  /\ UNCHANGED <<docVars, objectVars>>

\* A receipt of an object its shipment does not announce waits for review.
ReceiveForReview(e, o, d, s, org) ==
  /\ DocumentAdmits(d, e, o, org)
  /\ verificationForEvent(e, o, d, s, org) = "PENDING_REVIEW"
  /\ ValidTransition(e, LevelOf[o], status[o])
  /\ Record(e, o, d, org, "PENDING_REVIEW")
  /\ risk' = [risk EXCEPT ![Len(log) + 1] = "OPEN"]

Pack(o, p, d, org) ==
  /\ DocumentAdmits(d, "PACKING", o, org)
  /\ verificationForEvent("PACKING", o, d, None, org) = "VERIFIED"
  /\ ValidTransition("PACKING", LevelOf[o], status[o])
  /\ PackagingParent(o, p, org)
  /\ parent[o] = None
  /\ ExpectedLine(d, p)
  /\ Apply("PACKING", o, d, org, {o}, p, {[parent |-> p, action |-> "ADD"]})
  /\ UNCHANGED <<risk, claims>>

\* Mutant: an object that is in no container can be unpacked.
UnpackLoose(o, d, org) ==
  /\ DocumentAdmits(d, "UNPACKING", o, org)
  /\ parent[o] # None => ExpectedLine(d, parent[o])
  /\ Apply("UNPACKING", o, d, org, {o}, None,
           {[parent |-> parent[o], action |-> "DELETE"]})
  /\ UNCHANGED <<risk, claims>>

Unpack(o, d, org) ==
  /\ DocumentAdmits(d, "UNPACKING", o, org)
  /\ parent[o] # None
  /\ ExpectedLine(d, parent[o])
  /\ Apply("UNPACKING", o, d, org, {o}, None,
           {[parent |-> parent[o], action |-> "DELETE"]})
  /\ UNCHANGED <<risk, claims>>

\* Mutant: repacking logs only the new relationship.
RepackAddOnly(o, p, d, org) ==
  /\ DocumentAdmits(d, "REPACKING", o, org)
  /\ verificationForEvent("REPACKING", o, d, None, org) = "VERIFIED"
  /\ parent[o] \notin {None, p}
  /\ PackagingParent(o, p, org)
  /\ ExpectedLine(d, parent[o]) /\ ExpectedLine(d, p)
  /\ Apply("REPACKING", o, d, org, {o}, p, {[parent |-> p, action |-> "ADD"]})
  /\ UNCHANGED <<risk, claims>>

Repack(o, p, d, org) ==
  /\ DocumentAdmits(d, "REPACKING", o, org)
  /\ verificationForEvent("REPACKING", o, d, None, org) = "VERIFIED"
  /\ parent[o] \notin {None, p}
  /\ PackagingParent(o, p, org)
  /\ ExpectedLine(d, parent[o]) /\ ExpectedLine(d, p)
  /\ Apply("REPACKING", o, d, org, {o}, p,
           {[parent |-> parent[o], action |-> "DELETE"],
            [parent |-> p, action |-> "ADD"]})
  /\ UNCHANGED <<risk, claims>>

Verify(o, org) == Record("VERIFY", o, None, org, "VERIFIED") /\ UNCHANGED risk

\* POST /api/v1/risk-cases/:id/decisions, on the case of event i.
DecideRisk(i, decision) ==
  /\ risk[i] \in {"OPEN", "HELD"}
  /\ risk' = [risk EXCEPT ![i] = decision]
  /\ UNCHANGED <<docVars, objectVars, log, claims>>

TraceNext ==
  \E org \in Organizations, o \in Objects :
    \/ /\ "VERIFY" \in Capability[org]
       /\ Verify(o, org)
    \/ \E d \in Documents, e \in MovingEvent \cap Capability[org],
          s \in Shipments \cup {None} :
         Move(e, o, d, s, org) \/ ReceiveForReview(e, o, d, s, org)
    \/ \E d \in Documents, p \in Objects :
         \/ "PACKING" \in Capability[org] /\ Pack(o, p, d, org)
         \/ "PACKING" \in Capability[org] /\ Repack(o, p, d, org)
    \/ \E d \in Documents :
         "UNPACKING" \in Capability[org] /\ Unpack(o, d, org)

RiskNext ==
  \E i \in DOMAIN log, decision \in {"APPROVED", "REJECTED", "HELD"} :
    DecideRisk(i, decision)

Next ==
  \/ TraceNext
  \/ RiskNext
  \/ DocNext /\ UNCHANGED <<objectVars, log, risk, claims>>

Spec == Init /\ [][Next]_vars

-----------------------------------------------------------------------------
(* Properties *)

\* Every variable keeps its type.
TypeOK ==
  /\ DocTypeOK
  /\ status \in [Objects -> Status]
  /\ custodian \in [Objects -> Organizations \cup {None}]
  /\ parent \in [Objects -> Objects \cup {None}]
  /\ log \in Seq(Event)
  /\ Len(log) <= MaxEvents
  /\ risk \in [1 .. MaxEvents -> RiskStatus]
  /\ claims \subseteq Claim

\* The packaging relation is a forest of at most three ranks: whatever order
\* packing, unpacking and repacking come in, a parent outranks its child, so no
\* chain of relationships can close into a cycle and the recursive query over
\* contents always terminates with the whole tree.
PackagingRanked ==
  \A o \in Objects :
    parent[o] # None => ranks[LevelOf[parent[o]]] > ranks[LevelOf[o]]

\* Destroying a container destroys what is in it, and nothing can be put into it
\* afterwards: no later packing, repacking or movement leaves a live object
\* inside a destroyed one.
DestroyedWithContents ==
  \A o \in Objects :
    parent[o] # None /\ status[parent[o]] = "DESTROYED" => status[o] = "DESTROYED"

\* What packing and destroying promise of every hierarchy: it is ranked, and a
\* destroyed container holds nothing that lives.
PackagingSound == TypeOK /\ PackagingRanked /\ DestroyedWithContents

\* A document line is fulfilled by exactly the verified event that consumed it,
\* and every verified event consumed its line: no line is used twice, none is
\* marked without an event, and an event held for review or a verification
\* query consumes nothing.
LinesFulfilledOnce ==
  /\ \A d \in Documents, o \in Objects :
       lines[d][o].fulfilledBy # Unfulfilled =>
         /\ lines[d][o].fulfilledBy \in DOMAIN log
         /\ LET e == log[lines[d][o].fulfilledBy] IN
              e.document = d /\ e.object = o /\ e.verification = "VERIFIED"
  /\ \A i \in DOMAIN log :
       log[i].document # None /\ log[i].verification = "VERIFIED" =>
         lines[log[i].document][log[i].object].fulfilledBy = i

\* A completed document has no expected action left to do, although lines are
\* fulfilled by one handler and completion is decided by another.
CompletedIsFulfilled ==
  \A d \in Documents : docStatus[d] = "COMPLETED" =>
    Pending(d) = {} /\ \E o \in Objects : ExpectedAction(d, o)

\* What events and approvers promise of every document, between them: its lines
\* tell the events that used them, and it is only closed when they are done.
DocumentsSound == LinesFulfilledOnce /\ CompletedIsFulfilled

RowsOf(i, o) == {r \in log[i].snapshots : r.object = o}

\* The append-only snapshots tell the present: the last one that mentions an
\* object, as root or as content of a container, shows its status and parent.
SnapshotsTellThePresent ==
  \A o \in Objects :
    \/ /\ \A i \in DOMAIN log : RowsOf(i, o) = {}
       /\ status[o] = "COMMISSIONED" /\ parent[o] = None
    \/ \E i \in DOMAIN log :
         /\ \A j \in DOMAIN log : j > i => RowsOf(j, o) = {}
         /\ \E r \in RowsOf(i, o) :
              r.resulting = status[o] /\ r.resultingParent = parent[o]

\* The snapshots of an object form one unbroken history: each begins with the
\* status and parent the previous one ended with.
SnapshotsUnbroken ==
  \A o \in Objects : \A i, j \in DOMAIN log :
    i < j /\ (\A k \in i + 1 .. j - 1 : RowsOf(k, o) = {}) =>
      \A r \in RowsOf(i, o), q \in RowsOf(j, o) :
        r.resulting = q.previous /\ r.resultingParent = q.parent

\* The snapshots alone tell the life of every object, to its present.
SnapshotsSound == SnapshotsTellThePresent /\ SnapshotsUnbroken

\* Whoever replays the ADD and DELETE aggregations of the log (the EPCIS
\* repository, the package_relationship_events table) arrives at the parents
\* the database holds: a child is in p exactly when p's last ADD for it was not
\* followed by a DELETE.
Joined(o, p) ==
  \E i \in DOMAIN log :
    /\ log[i].object = o /\ [parent |-> p, action |-> "ADD"] \in log[i].links
    /\ \A j \in DOMAIN log : j > i /\ log[j].object = o =>
         [parent |-> p, action |-> "DELETE"] \notin log[j].links
AggregationsTellTheParents ==
  \A o, p \in Objects : parent[o] = p <=> Joined(o, p)

\* Only a verified receipt by the organization that made it is ever rewarded, and
\* a case under review pays nothing.
ClaimsAreVerifiedReceipts ==
  \A c \in claims :
    /\ c.event \in DOMAIN log
    /\ log[c.event].type \in Receiving
    /\ log[c.event].verification = "VERIFIED"
    /\ log[c.event].organization = c.beneficiary
    /\ risk[c.event] = "NONE"

\* The verified events of some types that moved an object, as root or as content.
Moved(i, o, types) ==
  log[i].type \in types /\ log[i].verification = "VERIFIED" /\ RowsOf(i, o) # {}

\* Before event i object o was shipped and has not been received since.
ShippedBefore(i, o) ==
  \E k \in DOMAIN log :
    /\ k < i /\ Moved(k, o, {"SHIPPING"})
    /\ \A j \in DOMAIN log : k < j /\ j < i => ~Moved(j, o, Receiving)

\* Scans before shipment and repeated scans are never rewarded: each claim
\* answers a shipment of its object that no other receipt has answered, alone or
\* in the container that it was in, so that what is received with its carton
\* earns nothing by a receipt of its own until it is shipped again.
ClaimsAnswerShipments ==
  \A c \in claims : ShippedBefore(c.event, log[c.event].object)

\* What rewards promise, whatever was reviewed, packed, shipped and received.
ClaimsSound == ClaimsAreVerifiedReceipts /\ ClaimsAnswerShipments

\* A container moves as a whole: when its status changes, everything in it ends
\* in the same status and with the same organization, or nothing moves at all.
ContainersMoveWhole ==
  [][\A c, o \in Objects :
       status'[c] # status[c] /\ o \in Contents(c) /\ LevelOf[c] # "ITEM" =>
         status'[o] = status'[c] /\ custodian'[o] = custodian'[c]]_vars

\* Once a document leaves the draft state its lines are frozen but for their
\* fulfilment, which is never withdrawn or given to another event; a closed
\* document never changes again.
ApprovedLinesFrozen ==
  [][\A d \in Documents :
       /\ docStatus[d] \notin {"ABSENT", "DRAFT"} =>
            \A o \in Objects :
              /\ lines'[d][o].role = lines[d][o].role
              /\ lines'[d][o].expected = lines[d][o].expected
              /\ lines[d][o].fulfilledBy # Unfulfilled =>
                   lines'[d][o] = lines[d][o]
       /\ docStatus[d] \in {"COMPLETED", "CANCELLED"} =>
            docStatus'[d] = docStatus[d] /\ lines'[d] = lines[d]]_vars

-----------------------------------------------------------------------------
(* What documents say and the code does not do *)

\* docs/role-event-model.md: a receipt must match the shipping document and the
\* destination organization.  So what was shipped under a document is received
\* by the organization that document is addressed to.
ReceivedByConsignee ==
  \A i, j \in DOMAIN log :
    /\ i < j
    /\ log[i].type = "SHIPPING" /\ log[j].type \in Receiving
    /\ log[i].object = log[j].object /\ log[j].verification = "VERIFIED"
    /\ \A k \in i + 1 .. j - 1 : log[k].object # log[i].object
    => log[j].organization = ToOrganization[log[i].document]

\* docs/domain/scan-incentive.md rewards the first receipt only: a claim is
\* unique by campaign, activity, object and beneficiary.  A type of receipt has
\* one matching campaign here, so the event's type tells campaign and activity.
FirstReceiptsOnly ==
  \A b, c \in claims :
    /\ b.beneficiary = c.beneficiary
    /\ log[b.event].type = log[c.event].type
    /\ log[b.event].object = log[c.event].object
    => b = c
=============================================================================
