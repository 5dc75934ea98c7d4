------------------------- MODULE TraceEventsProofs -------------------------
(***************************************************************************)
(* Proofs about TraceEvents for every set of objects, documents and        *)
(* organizations, every request and every bound on events.                 *)
(***************************************************************************)
EXTENDS TraceEvents, SequenceTheorems, TLAPS

-----------------------------------------------------------------------------
(* Type correctness *)

\* domain.mjs: whatever event is applied, the next status is a status.
LEMMA NextStatusType ==
  ASSUME NEW e \in EventType, NEW s \in Status
  PROVE  nextObjectStatus(e, s) \in Status
  BY DEF nextObjectStatus, EventType, MovingEvent, PackagingEvent, StatusKept,
         LeadsTo, Status

\* Fulfilling a line keeps the types of the document tables.
LEMMA FulfilType ==
  ASSUME DocTypeOK, NEW d \in Documents, NEW o \in Objects, NEW i \in Nat,
         Fulfil(d, o, i)
  PROVE  DocTypeOK'
<1>1. lines' \in [Documents -> [Objects -> Line]]
  <2>1. [lines[d][o] EXCEPT !.fulfilledBy = i] \in Line
    BY DEF DocTypeOK, Line
  <2>2. [lines[d] EXCEPT ![o] = [lines[d][o] EXCEPT !.fulfilledBy = i]]
          \in [Objects -> Line]
    BY <2>1 DEF DocTypeOK
  <2>3. lines' = [lines EXCEPT ![d] = [lines[d] EXCEPT
                    ![o] = [lines[d][o] EXCEPT !.fulfilledBy = i]]]
    BY DEF Fulfil, DocTypeOK
  <2> QED BY <2>2, <2>3 DEF DocTypeOK
<1>2. docVersion' \in [Documents -> Nat]
  BY DEF DocTypeOK, Fulfil
<1>3. docStatus' \in [Documents -> DocumentStatus]
  BY DEF DocTypeOK, Fulfil, DocumentStatus
<1> QED BY <1>1, <1>2, <1>3 DEF DocTypeOK

\* Every document handler keeps the types of the document tables.
LEMMA DocNextType ==
  ASSUME DocTypeOK, DocNext
  PROVE  DocTypeOK'
<1>1. PICK d \in Documents :
        \/ CreateDocument(d)
        \/ \E r \in LineRequests[d] : AddObject(d, r)
        \/ \E o \in Objects : RemoveObject(d, o)
        \/ \E v \in 0 .. 3, to \in DocumentStatus : TransitionDocument(d, v, to)
  BY DEF DocNext, DocumentRequest
<1>2. CASE CreateDocument(d)
  BY <1>2 DEF CreateDocument, DocTypeOK, DocumentStatus
<1>3. CASE \E r \in LineRequests[d] : AddObject(d, r)
  <2>1. PICK r \in LineRequests[d] : AddObject(d, r)
    BY <1>3
  <2>2. r \in LineRequest
    BY DocumentAssumption
  <2>3. [role |-> r.role, expected |-> r.expected,
         fulfilledBy |-> Unfulfilled] \in Line
    BY <2>2 DEF LineRequest, Line, Unfulfilled
  <2> QED BY <2>1, <2>2, <2>3 DEF AddObject, DocTypeOK, LineRequest
<1>4. CASE \E o \in Objects : RemoveObject(d, o)
  <2>1. NoLine \in Line
    BY DEF NoLine, Line, Unfulfilled
  <2> QED BY <1>4, <2>1 DEF RemoveObject, DocTypeOK
<1>5. CASE \E v \in 0 .. 3, to \in DocumentStatus : TransitionDocument(d, v, to)
  BY <1>5 DEF TransitionDocument, DocTypeOK
<1> QED BY <1>1, <1>2, <1>3, <1>4, <1>5

\* The snapshot rows of an event are snapshots of objects.
LEMMA SnapshotsType ==
  ASSUME TypeOK, NEW e \in EventType, NEW o \in Objects,
         NEW affected \in SUBSET Objects, NEW p \in Objects \cup {None}
  PROVE  Snapshots(e, o, affected, p) \in SUBSET Snapshot
<1>1. ASSUME NEW x \in affected
      PROVE  [object |-> x, previous |-> status[x],
              resulting |-> nextObjectStatus(e, status[x]), parent |-> parent[x],
              resultingParent |-> IF x = o THEN p ELSE parent[x]] \in Snapshot
  BY NextStatusType DEF TypeOK, Snapshot
<1> QED BY <1>1 DEF Snapshots

\* Applying an event keeps the types of all it touches.
LEMMA ApplyType ==
  ASSUME TypeOK, NEW e \in EventType, NEW o \in Objects, NEW d \in Documents,
         NEW org \in Organizations, NEW affected \in SUBSET Objects,
         NEW p \in Objects \cup {None}, NEW links \in SUBSET Link,
         Apply(e, o, d, org, affected, p, links)
  PROVE  /\ DocTypeOK'
         /\ status' \in [Objects -> Status]
         /\ custodian' \in [Objects -> Organizations \cup {None}]
         /\ parent' \in [Objects -> Objects \cup {None}]
         /\ log' \in Seq(Event) /\ Len(log') <= MaxEvents
<1>1. DocTypeOK'
  <2>1. Len(log) + 1 \in Nat
    BY DEF TypeOK
  <2> QED BY <2>1, FulfilType DEF Apply, TypeOK
<1>2. status' \in [Objects -> Status]
  BY NextStatusType DEF Apply, TypeOK
<1>3. custodian' \in [Objects -> Organizations \cup {None}]
  BY DEF Apply, TypeOK
<1>4. parent' \in [Objects -> Objects \cup {None}]
  BY DEF Apply, TypeOK
<1>5. log' \in Seq(Event) /\ Len(log') <= MaxEvents
  <2>1. [type |-> e, object |-> o, document |-> d, organization |-> org,
         verification |-> "VERIFIED",
         snapshots |-> Snapshots(e, o, affected, p), links |-> links] \in Event
    BY SnapshotsType DEF Event
  <2>2. log \in Seq(Event) /\ Len(log) < MaxEvents
    BY DEF TypeOK, Apply
  <2> QED BY <2>1, <2>2, AppendProperties, TraceAssumption DEF Apply
<1> QED BY <1>1, <1>2, <1>3, <1>4, <1>5

\* An event that is only recorded keeps the types of the log.
LEMMA RecordType ==
  ASSUME TypeOK, NEW e \in EventType, NEW o \in Objects,
         NEW d \in Documents \cup {None}, NEW org \in Organizations,
         NEW v \in {"VERIFIED", "PENDING_REVIEW"}, Record(e, o, d, org, v)
  PROVE  log' \in Seq(Event) /\ Len(log') <= MaxEvents
<1>1. Snapshots("VERIFY", o, {o}, parent[o]) \in SUBSET Snapshot
  BY SnapshotsType DEF TypeOK, EventType
<1>2. [type |-> e, object |-> o, document |-> d, organization |-> org,
       verification |-> v,
       snapshots |-> Snapshots("VERIFY", o, {o}, parent[o]),
       links |-> {}] \in Event
  BY <1>1 DEF Event
<1>3. log \in Seq(Event) /\ Len(log) < MaxEvents
  BY DEF TypeOK, Record
<1> QED BY <1>2, <1>3, AppendProperties, TraceAssumption DEF Record

\* Rewarding a receipt keeps the types of the claims and the risk cases.
LEMMA RewardType ==
  ASSUME TypeOK, Len(log) < MaxEvents, NEW e \in EventType,
         NEW org \in Organizations, Reward(e, org)
  PROVE  risk' \in [1 .. MaxEvents -> RiskStatus] /\ claims' \subseteq Claim
<1>1. Len(log) + 1 \in 1 .. MaxEvents
  BY TraceAssumption DEF TypeOK
<1>2. [event |-> Len(log) + 1, beneficiary |-> org] \in Claim
  BY <1>1 DEF Claim
<1> QED BY <1>1, <1>2 DEF Reward, TypeOK, RiskStatus

\* The steps of Next, each with its parameters.
SomeMove == \E e \in MovingEvent, o \in Objects, d \in Documents,
               s \in Shipments \cup {None}, org \in Organizations :
              Move(e, o, d, s, org)
SomeReview == \E e \in MovingEvent, o \in Objects, d \in Documents,
                 s \in Shipments \cup {None}, org \in Organizations :
                ReceiveForReview(e, o, d, s, org)
SomePack == \E o, p \in Objects, d \in Documents, org \in Organizations :
              Pack(o, p, d, org)
SomeRepack == \E o, p \in Objects, d \in Documents, org \in Organizations :
                Repack(o, p, d, org)
SomeUnpack == \E o \in Objects, d \in Documents, org \in Organizations :
                Unpack(o, d, org)
SomeVerify == \E o \in Objects, org \in Organizations : Verify(o, org)
SomePaper == DocNext /\ UNCHANGED <<objectVars, log, risk, claims>>

LEMMA StepCases ==
  ASSUME Next
  PROVE  \/ SomeMove \/ SomeReview \/ SomePack \/ SomeRepack \/ SomeUnpack
         \/ SomeVerify \/ RiskNext \/ SomePaper
<1>1. CASE TraceNext
  BY <1>1 DEF TraceNext, SomeMove, SomeReview, SomePack, SomeRepack, SomeUnpack,
              SomeVerify
<1> QED BY <1>1 DEF Next, SomePaper

\* The object tables, the log, the risk cases and the claims, next to DocTypeOK.
ObjectTypeOK ==
  /\ status \in [Objects -> Status]
  /\ custodian \in [Objects -> Organizations \cup {None}]
  /\ parent \in [Objects -> Objects \cup {None}]
  /\ log \in Seq(Event) /\ Len(log) <= MaxEvents
RewardTypeOK == risk \in [1 .. MaxEvents -> RiskStatus] /\ claims \subseteq Claim

\* Every step keeps every type.
LEMMA TypeStep ==
  ASSUME TypeOK, [Next]_vars
  PROVE  TypeOK'
<1> USE DEF ObjectTypeOK, RewardTypeOK
<1>0. SUFFICES DocTypeOK' /\ ObjectTypeOK' /\ RewardTypeOK'
  BY DEF TypeOK
<1>1. DocTypeOK /\ ObjectTypeOK /\ RewardTypeOK
  BY DEF TypeOK
<1>2. CASE UNCHANGED vars
  BY <1>1, <1>2 DEF vars, docVars, objectVars, DocTypeOK
<1>3. CASE SomeMove
  <2>1. PICK e \in MovingEvent, o \in Objects, d \in Documents,
             s \in Shipments \cup {None}, org \in Organizations :
               Move(e, o, d, s, org)
    BY <1>3 DEF SomeMove
  <2> DEFINE affected == {o} \cup (IF LevelOf[o] # "ITEM" THEN Contents(o) ELSE {})
  <2>2. Apply(e, o, d, org, affected, parent[o], {}) /\ Reward(e, org)
    BY <2>1 DEF Move
  <2>3. affected \in SUBSET Objects
    BY DEF Contents, ChildrenOf
  <2>4. e \in EventType /\ parent[o] \in Objects \cup {None} /\ {} \in SUBSET Link
    BY <1>1 DEF EventType
  <2> HIDE DEF affected
  <2>5. DocTypeOK' /\ ObjectTypeOK'
    BY <2>2, <2>3, <2>4, ApplyType
  <2>6. RewardTypeOK'
    BY <2>2, <2>4, RewardType DEF Apply
  <2> QED BY <2>5, <2>6
<1>4. CASE SomeReview
  <2>1. PICK e \in MovingEvent, o \in Objects, d \in Documents,
             s \in Shipments \cup {None}, org \in Organizations :
               ReceiveForReview(e, o, d, s, org)
    BY <1>4 DEF SomeReview
  <2>2. ObjectTypeOK' /\ DocTypeOK' /\ claims' \subseteq Claim
    BY <1>1, <2>1, RecordType
       DEF ReceiveForReview, Record, objectVars, docVars, DocTypeOK, EventType
  <2>3. risk' \in [1 .. MaxEvents -> RiskStatus]
    BY <1>1, <2>1 DEF ReceiveForReview, RiskStatus
  <2> QED BY <2>2, <2>3
<1>5. CASE SomePack
  <2>1. PICK o \in Objects, p \in Objects, d \in Documents, org \in Organizations :
               Pack(o, p, d, org)
    BY <1>5 DEF SomePack
  <2>2. {[parent |-> p, action |-> "ADD"]} \in SUBSET Link
    BY DEF Link
  <2>3. DocTypeOK' /\ ObjectTypeOK'
    BY <1>1, <2>1, <2>2, ApplyType DEF Pack, EventType, PackagingEvent
  <2>4. RewardTypeOK'
    BY <1>1, <2>1 DEF Pack
  <2> QED BY <2>3, <2>4
<1>6. CASE SomeRepack
  <2>1. PICK o \in Objects, p \in Objects, d \in Documents, org \in Organizations :
               Repack(o, p, d, org)
    BY <1>6 DEF SomeRepack
  <2>2. {[parent |-> parent[o], action |-> "DELETE"],
         [parent |-> p, action |-> "ADD"]} \in SUBSET Link
    BY <1>1, <2>1 DEF Link, Repack
  <2>3. DocTypeOK' /\ ObjectTypeOK'
    BY <1>1, <2>1, <2>2, ApplyType DEF Repack, EventType, PackagingEvent
  <2>4. RewardTypeOK'
    BY <1>1, <2>1 DEF Repack
  <2> QED BY <2>3, <2>4
<1>7. CASE SomeUnpack
  <2>1. PICK o \in Objects, d \in Documents, org \in Organizations :
               Unpack(o, d, org)
    BY <1>7 DEF SomeUnpack
  <2>2. {[parent |-> parent[o], action |-> "DELETE"]} \in SUBSET Link
    BY <1>1, <2>1 DEF Link, Unpack
  <2>3. DocTypeOK' /\ ObjectTypeOK'
    BY <1>1, <2>1, <2>2, ApplyType DEF Unpack, EventType, PackagingEvent
  <2>4. RewardTypeOK'
    BY <1>1, <2>1 DEF Unpack
  <2> QED BY <2>3, <2>4
<1>8. CASE SomeVerify
  <2>1. PICK o \in Objects, org \in Organizations : Verify(o, org)
    BY <1>8 DEF SomeVerify
  <2>2. log' \in Seq(Event) /\ Len(log') <= MaxEvents
    BY <2>1, RecordType DEF Verify, EventType
  <2> QED
    BY <1>1, <2>1, <2>2 DEF Verify, Record, objectVars, docVars, DocTypeOK
<1>9. CASE RiskNext
  BY <1>1, <1>9
     DEF RiskNext, DecideRisk, objectVars, docVars, DocTypeOK, RiskStatus
<1>10. CASE SomePaper
  BY <1>1, <1>10, DocNextType DEF SomePaper, objectVars
<1> QED BY <1>2, <1>3, <1>4, <1>5, <1>6, <1>7, <1>8, <1>9, <1>10, StepCases

\* Every variable keeps its type, in every execution and for every instance.
THEOREM TypeCorrect == Spec => []TypeOK
<1>1. Init => TypeOK
  BY TraceAssumption
     DEF Init, DocInit, TypeOK, DocTypeOK, DocumentStatus, Line, NoLine, Unfulfilled,
         Status, RiskStatus
<1>2. TypeOK /\ [Next]_vars => TypeOK'
  BY TypeStep
<1> QED BY <1>1, <1>2, PTL DEF Spec

-----------------------------------------------------------------------------
(* Packaging *)

\* Contents is the whole tree under an object: a child of a member is a member,
\* because ranks leave room for no third generation, and an item has none.
LEMMA ContentsClosed ==
  ASSUME TypeOK, PackagingRanked, NEW o \in Objects, NEW x \in Objects,
         parent[x] \in {o} \cup Contents(o)
  PROVE  x \in Contents(o) /\ LevelOf[o] # "ITEM"
<1> USE DEF Contents, ChildrenOf
<1>1. parent[x] # None /\ \A y \in Objects : y # None
  BY DocumentAssumption
<1>2. \A y \in Objects : LevelOf[y] \in Level /\ ranks[LevelOf[y]] \in 1 .. 3
  BY TraceAssumption DEF Level, ranks
<1>3. \A y \in Objects :
        parent[y] \in Objects => ranks[LevelOf[parent[y]]] > ranks[LevelOf[y]]
  BY <1>1 DEF PackagingRanked
<1>4. parent[x] = o \/ parent[x] \in ChildrenOf({o})
        \/ parent[x] \in ChildrenOf(ChildrenOf({o}))
  OBVIOUS
<1>5. CASE parent[x] = o
  <2>1. ranks[LevelOf[o]] > 1
    BY <1>2, <1>3, <1>5
  <2>2. LevelOf[o] # "ITEM"
    BY <2>1 DEF ranks, Level
  <2> QED BY <1>5, <2>2
<1>6. CASE parent[x] \in ChildrenOf({o})
  <2>1. ranks[LevelOf[o]] > 1
    BY <1>2, <1>3, <1>6
  <2>2. LevelOf[o] # "ITEM"
    BY <2>1 DEF ranks, Level
  <2> QED BY <1>6, <2>2
<1>7. CASE parent[x] \in ChildrenOf(ChildrenOf({o}))
  <2>1. PICK y \in Objects : parent[parent[x]] = y /\ parent[y] = o
    BY <1>7
  <2>2. /\ ranks[LevelOf[o]] > ranks[LevelOf[y]]
        /\ ranks[LevelOf[y]] > ranks[LevelOf[parent[x]]]
        /\ ranks[LevelOf[parent[x]]] > ranks[LevelOf[x]]
    BY <1>3, <1>7, <2>1
  <2> QED BY <1>2, <1>7, <2>1, <2>2
<1> QED BY <1>4, <1>5, <1>6, <1>7

\* Applying a packaging event to o under a new parent that outranks it, or to
\* take it out of its parent, keeps both packaging invariants.
LEMMA RelationshipStep ==
  ASSUME PackagingSound, NEW e \in PackagingEvent, NEW o \in Objects,
         NEW d \in Documents, NEW org \in Organizations,
         NEW p \in Objects \cup {None}, NEW links,
         p # None => PackagingParent(o, p, org),
         e = "PACKING" => status[o] = "COMMISSIONED" /\ parent[o] = None,
         Apply(e, o, d, org, {o}, p, links)
  PROVE  PackagingRanked' /\ DestroyedWithContents'
<1> USE DEF PackagingSound
<1>1. /\ status \in [Objects -> Status] /\ parent \in [Objects -> Objects \cup {None}]
      /\ \A x \in Objects : parent'[x] = IF x = o THEN p ELSE parent[x]
      /\ \A x \in Objects : x # o => status'[x] = status[x]
      /\ status'[o] = status[o] \/ (status[o] = "COMMISSIONED" /\ status'[o] = "PACKED")
  BY DEF TypeOK, Apply, nextObjectStatus, PackagingEvent, StatusKept, LeadsTo
<1>2. p # None => p \in Objects /\ ranks[LevelOf[p]] > ranks[LevelOf[o]]
                  /\ status[p] # "DESTROYED"
  BY DEF PackagingParent
<1>3. PackagingRanked'
  BY <1>1, <1>2 DEF PackagingRanked
<1>4. DestroyedWithContents'
  <2> SUFFICES ASSUME NEW x \in Objects, parent'[x] # None,
                      status'[parent'[x]] = "DESTROYED"
               PROVE  status'[x] = "DESTROYED"
    BY DEF DestroyedWithContents
  <2>1. x # o
    BY <1>1, <1>2
  <2>2. parent'[x] = parent[x] /\ parent[x] \in Objects /\ status'[x] = status[x]
    BY <1>1, <2>1
  <2>3. status[parent[x]] = "DESTROYED"
    BY <1>1, <2>2
  <2> QED BY <2>2, <2>3 DEF DestroyedWithContents
<1> QED BY <1>3, <1>4

\* A movement changes no relationship and destroys a container only with all
\* that is in it.
LEMMA MoveKeepsPackaging ==
  ASSUME PackagingSound, NEW e \in MovingEvent, NEW o \in Objects,
         NEW d \in Documents, NEW s \in Shipments \cup {None},
         NEW org \in Organizations, Move(e, o, d, s, org)
  PROVE  PackagingRanked' /\ DestroyedWithContents'
<1> USE DEF PackagingSound
<1> DEFINE affected == {o} \cup (IF LevelOf[o] # "ITEM" THEN Contents(o) ELSE {})
<1>1. /\ \A x \in affected : ValidTransition(e, LevelOf[x], status[x])
      /\ Apply(e, o, d, org, affected, parent[o], {})
  BY DEF Move
<1>2. parent' = parent
  BY <1>1 DEF Apply, TypeOK
<1>3. affected \subseteq Objects
  BY DEF Contents, ChildrenOf
<1>4. \A x \in Objects : parent[x] \in affected => x \in affected
  BY ContentsClosed
<1> HIDE DEF affected
<1>5. \A x \in Objects : status'[x] = IF x \in affected THEN LeadsTo[e] ELSE status[x]
  BY <1>1 DEF Apply, nextObjectStatus, MovingEvent, StatusKept
<1>6. \A x \in affected : status[x] # "DESTROYED"
  <2> SUFFICES ASSUME NEW x \in affected PROVE status[x] # "DESTROYED"
    OBVIOUS
  <2>1. LevelOf[x] \in Level /\ status[x] \in ValidFrom[e][LevelOf[x]]
    BY <1>1, <1>3, TraceAssumption DEF ValidTransition, MovingEvent, StatusKept
  <2> QED BY <2>1 DEF ValidFrom, MovingEvent, ItemOnly, EveryLevel, Level
<1>7. PackagingRanked'
  BY <1>2 DEF PackagingRanked
<1>8. DestroyedWithContents'
  <2> SUFFICES ASSUME NEW x \in Objects, parent[x] # None,
                      status'[parent[x]] = "DESTROYED"
               PROVE  status'[x] = "DESTROYED"
    BY <1>2 DEF DestroyedWithContents
  <2>1. parent[x] \in Objects
    BY DEF TypeOK
  <2>2. CASE parent[x] \in affected
    BY <1>4, <1>5, <2>1, <2>2
  <2>3. CASE parent[x] \notin affected
    BY <1>5, <1>6, <2>1, <2>3 DEF DestroyedWithContents
  <2> QED BY <2>2, <2>3
<1> QED BY <1>7, <1>8

\* Every step keeps packaging sound.
LEMMA PackagingStep ==
  ASSUME PackagingSound, [Next]_vars
  PROVE  PackagingSound'
<1> SUFFICES PackagingRanked' /\ DestroyedWithContents'
  BY TypeStep DEF PackagingSound
<1>1. CASE UNCHANGED objectVars
  BY <1>1 DEF PackagingSound, objectVars, PackagingRanked, DestroyedWithContents
<1>2. CASE SomeMove
  BY <1>2, MoveKeepsPackaging DEF SomeMove
<1>3. CASE SomePack
  <2>1. PICK o \in Objects, p \in Objects, d \in Documents, org \in Organizations :
               Pack(o, p, d, org)
    BY <1>3 DEF SomePack
  <2>2. status[o] = "COMMISSIONED"
    <3>1. LevelOf[o] \in Level /\ status[o] \in ValidFrom["PACKING"][LevelOf[o]]
      BY <2>1, TraceAssumption DEF Pack, ValidTransition, StatusKept
    <3> QED BY <3>1 DEF ValidFrom, ItemOnly, Level
  <2> QED BY <2>1, <2>2, RelationshipStep DEF Pack, PackagingEvent
<1>4. CASE SomeRepack
  <2>1. PICK o \in Objects, p \in Objects, d \in Documents, org \in Organizations :
               Repack(o, p, d, org)
    BY <1>4 DEF SomeRepack
  <2> QED BY <2>1, RelationshipStep DEF Repack, PackagingEvent
<1>5. CASE SomeUnpack
  <2>1. PICK o \in Objects, d \in Documents, org \in Organizations :
               Unpack(o, d, org)
    BY <1>5 DEF SomeUnpack
  <2> QED BY <2>1, RelationshipStep DEF Unpack, PackagingEvent
<1>6. CASE SomeReview \/ SomeVerify \/ RiskNext \/ SomePaper
  BY <1>1, <1>6 DEF SomeReview, SomeVerify, RiskNext, SomePaper,
                    ReceiveForReview, Verify, Record, DecideRisk
<1>7. CASE UNCHANGED vars
  BY <1>1, <1>7 DEF vars
<1> QED BY <1>2, <1>3, <1>4, <1>5, <1>6, <1>7, StepCases

\* At the start nothing is packed.
LEMMA PackagingStart ==
  ASSUME Init
  PROVE  PackagingSound
<1>1. PackagingRanked /\ DestroyedWithContents
  BY DEF Init, PackagingRanked, DestroyedWithContents
<1> QED BY <1>1, TraceAssumption
   DEF Init, DocInit, TypeOK, DocTypeOK, DocumentStatus, Line, NoLine, Unfulfilled,
       Status, RiskStatus, PackagingSound

\* Packaging stays a ranked forest in which destroyed containers hold nothing
\* live, whatever requests are accepted in whatever order.
THEOREM PackagingCorrect == Spec => []PackagingSound
<1>1. Init => PackagingSound
  BY PackagingStart
<1>2. PackagingSound /\ [Next]_vars => PackagingSound'
  BY PackagingStep
<1> QED BY <1>1, <1>2, PTL DEF Spec

-----------------------------------------------------------------------------
(* Documents and the events that fulfil them *)

\* What makes the document invariants inductive: a draft's lines can still be
\* rewritten, so none of them may be fulfilled, and a document that has left the
\* draft state has an action to do.
DraftUnfulfilled ==
  \A d \in Documents : docStatus[d] \in {"ABSENT", "DRAFT"} =>
    \A o \in Objects : lines[d][o].fulfilledBy = Unfulfilled
ApprovedHasAction ==
  \A d \in Documents : docStatus[d] \in {"APPROVED", "IN_PROGRESS", "COMPLETED"} =>
    \E o \in Objects : ExpectedAction(d, o)
DocumentInv ==
  /\ TypeOK
  /\ DraftUnfulfilled
  /\ ApprovedHasAction
  /\ LinesFulfilledOnce
  /\ CompletedIsFulfilled

\* Fulfilling a line changes that line's event and nothing else of any line.
LEMMA FulfilEffect ==
  ASSUME DocTypeOK, NEW d \in Documents, NEW o \in Objects, NEW i \in Nat,
         Fulfil(d, o, i)
  PROVE  /\ \A x \in Documents, y \in Objects :
              /\ lines'[x][y].role = lines[x][y].role
              /\ lines'[x][y].expected = lines[x][y].expected
              /\ lines'[x][y].fulfilledBy =
                   IF x = d /\ y = o THEN i ELSE lines[x][y].fulfilledBy
         /\ \A x \in Documents :
              docStatus'[x] = IF x = d THEN "IN_PROGRESS" ELSE docStatus[x]
<1>1. lines' = [lines EXCEPT ![d] = [lines[d] EXCEPT
                  ![o] = [lines[d][o] EXCEPT !.fulfilledBy = i]]]
  BY DEF Fulfil, DocTypeOK
<1>2. \A x \in Documents, y \in Objects :
        lines'[x][y] = IF x = d /\ y = o
                       THEN [lines[d][o] EXCEPT !.fulfilledBy = i] ELSE lines[x][y]
  BY <1>1 DEF DocTypeOK
<1>3. lines[d][o] \in Line
  BY DEF DocTypeOK
<1> QED BY <1>2, <1>3 DEF Line, Fulfil, DocTypeOK

\* An accepted event consumes the open line of its root object and closes none.
LEMMA ApplyKeepsDocuments ==
  ASSUME DocumentInv, NEW e \in EventType, NEW o \in Objects, NEW d \in Documents,
         NEW org \in Organizations, NEW affected, NEW p, NEW links,
         DocumentAdmits(d, e, o, org), Apply(e, o, d, org, affected, p, links)
  PROVE  DraftUnfulfilled' /\ ApprovedHasAction' /\ LinesFulfilledOnce'
           /\ CompletedIsFulfilled'
<1> DEFINE n == Len(log) + 1
<1>1. /\ docStatus[d] \in {"APPROVED", "IN_PROGRESS"}
      /\ lines[d][o].fulfilledBy = Unfulfilled
  BY DEF DocumentAdmits
<1>2. n \in Nat /\ DocTypeOK /\ log \in Seq(Event) /\ DOMAIN log = 1 .. Len(log)
  BY LenProperties DEF DocumentInv, TypeOK
<1>3. /\ \A x \in Documents, y \in Objects :
           /\ lines'[x][y].role = lines[x][y].role
           /\ lines'[x][y].expected = lines[x][y].expected
           /\ lines'[x][y].fulfilledBy =
                IF x = d /\ y = o THEN n ELSE lines[x][y].fulfilledBy
      /\ \A x \in Documents :
           docStatus'[x] = IF x = d THEN "IN_PROGRESS" ELSE docStatus[x]
  BY <1>2, FulfilEffect DEF Apply
<1>4. /\ DOMAIN log' = 1 .. n
      /\ \A i \in DOMAIN log : log'[i] = log[i]
      /\ log'[n].document = d /\ log'[n].object = o /\ log'[n].verification = "VERIFIED"
  BY <1>2 DEF Apply
<1>5. DraftUnfulfilled'
  BY <1>3 DEF DocumentInv, DraftUnfulfilled
<1>6. ApprovedHasAction'
  BY <1>1, <1>3 DEF DocumentInv, ApprovedHasAction, ExpectedAction
<1>7. CompletedIsFulfilled'
  BY <1>3 DEF DocumentInv, CompletedIsFulfilled, ExpectedAction, Pending
<1>8. LinesFulfilledOnce'
  <2>1. ASSUME NEW x \in Documents, NEW y \in Objects,
               lines'[x][y].fulfilledBy # Unfulfilled
        PROVE  /\ lines'[x][y].fulfilledBy \in DOMAIN log'
               /\ log'[lines'[x][y].fulfilledBy].document = x
               /\ log'[lines'[x][y].fulfilledBy].object = y
               /\ log'[lines'[x][y].fulfilledBy].verification = "VERIFIED"
    <3>1. CASE x = d /\ y = o
      BY <1>2, <1>3, <1>4, <3>1
    <3>2. CASE ~(x = d /\ y = o)
      BY <1>2, <1>3, <1>4, <2>1, <3>2 DEF DocumentInv, LinesFulfilledOnce
    <3> QED BY <3>1, <3>2
  <2>2. ASSUME NEW i \in DOMAIN log', log'[i].document # None,
               log'[i].verification = "VERIFIED"
        PROVE  lines'[log'[i].document][log'[i].object].fulfilledBy = i
    <3>1. CASE i = n
      BY <1>3, <1>4, <3>1
    <3>2. CASE i # n
      <4>1. i \in DOMAIN log /\ log'[i] = log[i]
        BY <1>2, <1>4, <3>2
      <4>2. log[i] \in Event
        BY <1>2, <4>1
      <4>3. lines[log[i].document][log[i].object].fulfilledBy = i
        BY <2>2, <4>1 DEF DocumentInv, LinesFulfilledOnce
      <4>4. ~(log[i].document = d /\ log[i].object = o)
        BY <1>1, <1>2, <4>1, <4>3 DEF Unfulfilled
      <4> QED BY <1>3, <2>2, <4>1, <4>2, <4>3, <4>4 DEF Event
    <3> QED BY <3>1, <3>2
  <2> QED BY <2>1, <2>2 DEF LinesFulfilledOnce
<1> QED BY <1>5, <1>6, <1>7, <1>8

\* Recording an event that consumes nothing keeps the bookkeeping.
LEMMA RecordKeepsDocuments ==
  ASSUME DocumentInv, NEW e, NEW o \in Objects, NEW d, NEW org, NEW v,
         d = None \/ v # "VERIFIED", Record(e, o, d, org, v)
  PROVE  DraftUnfulfilled' /\ ApprovedHasAction' /\ LinesFulfilledOnce'
           /\ CompletedIsFulfilled'
<1>1. UNCHANGED docVars
  BY DEF Record
<1>2. log \in Seq(Event) /\ DOMAIN log = 1 .. Len(log) /\ Len(log) \in Nat
  BY LenProperties DEF DocumentInv, TypeOK
<1>3. /\ DOMAIN log' = 1 .. Len(log) + 1
      /\ \A i \in DOMAIN log : i \in DOMAIN log' /\ log'[i] = log[i]
      /\ log'[Len(log) + 1].document = d /\ log'[Len(log) + 1].verification = v
  BY <1>2 DEF Record
<1>4. DraftUnfulfilled' /\ ApprovedHasAction' /\ CompletedIsFulfilled'
  BY <1>1 DEF DocumentInv, docVars, DraftUnfulfilled, ApprovedHasAction,
              CompletedIsFulfilled, ExpectedAction, Pending
<1>5. LinesFulfilledOnce'
  BY <1>1, <1>2, <1>3 DEF DocumentInv, docVars, LinesFulfilledOnce
<1> QED BY <1>4, <1>5

\* Clerks and approvers keep the bookkeeping: lines change only in drafts, and a
\* document is completed only when nothing is pending.
LEMMA DocNextKeepsDocuments ==
  ASSUME DocumentInv, DocNext, UNCHANGED log
  PROVE  DraftUnfulfilled' /\ ApprovedHasAction' /\ LinesFulfilledOnce'
           /\ CompletedIsFulfilled'
<1> USE DEF DocumentInv
<1>1. PICK d \in Documents :
        \/ CreateDocument(d)
        \/ \E r \in LineRequests[d] : AddObject(d, r)
        \/ \E o \in Objects : RemoveObject(d, o)
        \/ \E v \in 0 .. 3, to \in DocumentStatus : TransitionDocument(d, v, to)
  BY DEF DocNext, DocumentRequest
<1>2. DocTypeOK /\ DocTypeOK'
  BY DocNextType DEF TypeOK
<1>3. CASE CreateDocument(d)
  <2>1. UNCHANGED lines /\ docStatus[d] = "ABSENT" /\ docStatus'[d] = "DRAFT"
        /\ \A x \in Documents : x # d => docStatus'[x] = docStatus[x]
    BY <1>2, <1>3 DEF CreateDocument, DocTypeOK
  <2> QED BY <2>1 DEF DraftUnfulfilled, ApprovedHasAction, LinesFulfilledOnce,
                      CompletedIsFulfilled, ExpectedAction, Pending
<1>4. CASE \/ \E r \in LineRequests[d] : AddObject(d, r)
           \/ \E o \in Objects : RemoveObject(d, o)
  <2>1. /\ UNCHANGED docStatus /\ docStatus[d] = "DRAFT"
        /\ \A x \in Documents : x # d => lines'[x] = lines[x]
        /\ \A o \in Objects :
             lines'[d][o].fulfilledBy = Unfulfilled
    <3>1. CASE \E r \in LineRequests[d] : AddObject(d, r)
      <4>1. PICK r \in LineRequests[d] : AddObject(d, r)
        BY <3>1
      <4>2. r.object \in Objects
        BY DocumentAssumption DEF LineRequest
      <4> QED BY <1>2, <4>1, <4>2 DEF AddObject, DocTypeOK, DraftUnfulfilled
    <3>2. CASE \E o \in Objects : RemoveObject(d, o)
      BY <1>2, <3>2 DEF RemoveObject, NoLine, DocTypeOK, DraftUnfulfilled
    <3> QED BY <1>4, <3>1, <3>2
  <2>2. \A i \in DOMAIN log : log[i].document # None /\ log[i].verification = "VERIFIED"
          => log[i].document # d
    <3> SUFFICES ASSUME NEW i \in DOMAIN log, log[i].document = d,
                        log[i].verification = "VERIFIED"
                 PROVE  FALSE
      OBVIOUS
    <3>1. log \in Seq(Event) /\ DOMAIN log = 1 .. Len(log)
      BY LenProperties DEF TypeOK
    <3>2. log[i] \in Event /\ i # Unfulfilled
      BY <3>1 DEF Unfulfilled
    <3>3. lines[d][log[i].object].fulfilledBy = i
      BY DocumentAssumption DEF LinesFulfilledOnce
    <3>4. log[i].object \in Objects
      BY <3>2 DEF Event
    <3> QED BY <2>1, <3>2, <3>3, <3>4 DEF DraftUnfulfilled
  <2>3. log \in Seq(Event)
    BY DEF TypeOK
  <2>4. \A i \in DOMAIN log : log[i] \in Event
    BY <2>3
  <2>5. DraftUnfulfilled' /\ ApprovedHasAction' /\ CompletedIsFulfilled'
    BY <2>1 DEF DraftUnfulfilled, ApprovedHasAction, CompletedIsFulfilled,
                ExpectedAction, Pending
  <2>6. \A x \in Documents, o \in Objects :
          lines'[x][o].fulfilledBy # Unfulfilled => x # d /\ lines'[x] = lines[x]
    BY <2>1
  <2>7. LinesFulfilledOnce'
    BY <2>2, <2>1, <2>4, <2>6 DEF LinesFulfilledOnce, Event
  <2> QED BY <2>5, <2>7
<1>5. CASE \E v \in 0 .. 3, to \in DocumentStatus : TransitionDocument(d, v, to)
  <2>1. PICK v \in 0 .. 3, to \in DocumentStatus : TransitionDocument(d, v, to)
    BY <1>5
  <2>2. /\ UNCHANGED lines
        /\ docStatus'[d] = to
        /\ \A x \in Documents : x # d => docStatus'[x] = docStatus[x]
        /\ to \notin {"ABSENT", "DRAFT"}
        /\ to = "APPROVED" => \E o \in Objects : ExpectedAction(d, o)
        /\ to \in {"IN_PROGRESS", "COMPLETED"} =>
             docStatus[d] \in {"APPROVED", "IN_PROGRESS"}
        /\ to = "COMPLETED" => Pending(d) = {}
    BY <1>2, <2>1 DEF TransitionDocument, AllowedTransitions, DocTypeOK
  <2>3. DraftUnfulfilled' /\ LinesFulfilledOnce'
    BY <2>2 DEF DraftUnfulfilled, LinesFulfilledOnce
  <2>4. ApprovedHasAction' /\ CompletedIsFulfilled'
    BY <2>2 DEF ApprovedHasAction, CompletedIsFulfilled, ExpectedAction, Pending
  <2> QED BY <2>3, <2>4
<1> QED BY <1>1, <1>3, <1>4, <1>5

\* Every step of the specification keeps the document bookkeeping.
LEMMA DocumentStep ==
  ASSUME DocumentInv, [Next]_vars
  PROVE  DocumentInv'
<1> DEFINE Kept == DraftUnfulfilled' /\ ApprovedHasAction' /\ LinesFulfilledOnce'
                     /\ CompletedIsFulfilled'
<1>0. SUFFICES Kept
  BY TypeStep DEF DocumentInv
<1>1. CASE SomeMove
  <2>1. PICK e \in MovingEvent, o \in Objects, d \in Documents,
             s \in Shipments \cup {None}, org \in Organizations :
               Move(e, o, d, s, org)
    BY <1>1 DEF SomeMove
  <2>2. e \in EventType
    BY DEF EventType
  <2> QED BY <2>1, <2>2, ApplyKeepsDocuments DEF Move
<1>2. CASE SomeReview
  <2>1. PICK e \in MovingEvent, o \in Objects, d \in Documents,
             s \in Shipments \cup {None}, org \in Organizations :
               ReceiveForReview(e, o, d, s, org)
    BY <1>2 DEF SomeReview
  <2> QED BY <2>1, RecordKeepsDocuments DEF ReceiveForReview
<1>3. CASE SomePack
  BY <1>3, ApplyKeepsDocuments DEF SomePack, Pack, EventType, PackagingEvent
<1>4. CASE SomeRepack
  BY <1>4, ApplyKeepsDocuments DEF SomeRepack, Repack, EventType, PackagingEvent
<1>5. CASE SomeUnpack
  BY <1>5, ApplyKeepsDocuments DEF SomeUnpack, Unpack, EventType, PackagingEvent
<1>6. CASE SomeVerify
  BY <1>6, RecordKeepsDocuments DEF SomeVerify, Verify
<1>7. CASE RiskNext \/ UNCHANGED vars
  <2>1. UNCHANGED docVars /\ UNCHANGED log
    BY <1>7 DEF RiskNext, DecideRisk, vars
  <2> QED BY <2>1 DEF DocumentInv, docVars, DraftUnfulfilled, ApprovedHasAction,
       LinesFulfilledOnce, CompletedIsFulfilled, ExpectedAction, Pending
<1>8. CASE SomePaper
  BY <1>8, DocNextKeepsDocuments DEF SomePaper
<1> QED BY <1>1, <1>2, <1>3, <1>4, <1>5, <1>6, <1>7, <1>8, StepCases

\* No line is fulfilled twice or without its event, and a completed document has
\* nothing pending, in every execution and for every instance.
THEOREM DocumentsCorrect == Spec => []DocumentsSound
<1>1. Init => DocumentInv
  <2> SUFFICES ASSUME Init PROVE DocumentInv
    OBVIOUS
  <2>1. TypeOK
    BY TraceAssumption
       DEF Init, DocInit, TypeOK, DocTypeOK, DocumentStatus, Line, NoLine,
           Unfulfilled, Status, RiskStatus
  <2>2. /\ \A d \in Documents : docStatus[d] = "ABSENT"
        /\ \A d \in Documents, o \in Objects : lines[d][o].fulfilledBy = Unfulfilled
        /\ DOMAIN log = {}
    BY DEF Init, DocInit, NoLine
  <2> QED BY <2>1, <2>2 DEF DocumentInv, DraftUnfulfilled, ApprovedHasAction,
                            LinesFulfilledOnce, CompletedIsFulfilled
<1>2. DocumentInv /\ [Next]_vars => DocumentInv'
  BY DocumentStep
<1>3. DocumentInv => DocumentsSound
  BY DEF DocumentInv, DocumentsSound
<1> QED BY <1>1, <1>2, <1>3, PTL DEF Spec

-----------------------------------------------------------------------------
(* Containers *)

\* What is in something that is in a container is in the container.
LEMMA ContentsOfContents ==
  ASSUME TypeOK, PackagingRanked, NEW o \in Objects, NEW c \in {o} \cup Contents(o),
         NEW x \in Contents(c)
  PROVE  x \in Contents(o)
<1>1. x \in Objects /\ (parent[x] = c \/ (parent[x] \in Objects /\ parent[parent[x]] = c))
  BY DEF Contents, ChildrenOf
<1>2. CASE parent[x] = c
  BY <1>1, <1>2, ContentsClosed
<1>3. CASE parent[x] \in Objects /\ parent[parent[x]] = c
  <2>1. parent[x] \in Contents(o)
    BY <1>3, ContentsClosed
  <2> QED BY <1>1, <2>1, ContentsClosed
<1> QED BY <1>1, <1>2, <1>3

\* Only movements change the status of a container.
LEMMA MoveWholeStep ==
  ASSUME PackagingSound, [Next]_vars, NEW c \in Objects, NEW x \in Objects,
         status'[c] # status[c], x \in Contents(c), LevelOf[c] # "ITEM"
  PROVE  status'[x] = status'[c] /\ custodian'[x] = custodian'[c]
<1> USE DEF PackagingSound
<1>1. CASE SomeMove
  <2>1. PICK e \in MovingEvent, o \in Objects, d \in Documents, s \in Shipments \cup {None},
             org \in Organizations : Move(e, o, d, s, org)
    BY <1>1 DEF SomeMove
  <2> DEFINE affected == {o} \cup (IF LevelOf[o] # "ITEM" THEN Contents(o) ELSE {})
  <2>2. /\ \A y \in Objects : status'[y] = IF y \in affected THEN LeadsTo[e] ELSE status[y]
        /\ \A y \in Objects : custodian'[y] = IF y \in affected THEN org ELSE custodian[y]
    BY <2>1 DEF Move, Apply, nextObjectStatus, MovingEvent, StatusKept
  <2>3. c \in affected
    <3> HIDE DEF affected
    <3> QED BY <2>2
  <2>4. x \in affected
    <3>1. CASE c = o
      BY <3>1
    <3>2. CASE c # o
      BY <2>3, <3>2, ContentsOfContents
    <3> QED BY <3>1, <3>2
  <2> HIDE DEF affected
  <2> QED BY <2>2, <2>3, <2>4
<1>2. CASE SomePack
  <2>1. PICK o \in Objects, p \in Objects, d \in Documents, org \in Organizations :
               Pack(o, p, d, org)
    BY <1>2 DEF SomePack
  <2>2. LevelOf[o] \in Level /\ status[o] \in ValidFrom["PACKING"][LevelOf[o]]
    BY <2>1, TraceAssumption DEF Pack, ValidTransition, StatusKept
  <2>3. LevelOf[o] = "ITEM"
    BY <2>2 DEF ValidFrom, ItemOnly, Level
  <2>4. c = o
    BY <2>1 DEF Pack, Apply
  <2> QED BY <2>3, <2>4
<1>3. CASE SomeRepack \/ SomeUnpack
  <2>1. PICK e \in {"REPACKING", "UNPACKING"}, o \in Objects, d \in Documents,
             org \in Organizations, p \in Objects \cup {None} :
               \E links : Apply(e, o, d, org, {o}, p, links)
    BY <1>3 DEF SomeRepack, SomeUnpack, Repack, Unpack
  <2>2. status'[c] = IF c \in {o} THEN nextObjectStatus(e, status[c]) ELSE status[c]
    BY <2>1 DEF Apply
  <2> QED BY <2>2 DEF nextObjectStatus, StatusKept
<1>4. CASE SomeReview \/ SomeVerify \/ RiskNext \/ SomePaper \/ UNCHANGED vars
  <2>1. UNCHANGED objectVars
    BY <1>4 DEF SomeReview, SomeVerify, RiskNext, SomePaper, ReceiveForReview, Verify, Record,
                DecideRisk, vars
  <2> QED BY <2>1 DEF objectVars
<1> QED BY <1>1, <1>2, <1>3, <1>4, StepCases

\* A container and all that is in it move together, however it was packed before.
THEOREM ContainersCorrect == Spec => ContainersMoveWhole
<1>1. PackagingSound /\ [Next]_vars =>
        [\A c, o \in Objects :
           status'[c] # status[c] /\ o \in Contents(c) /\ LevelOf[c] # "ITEM" =>
             status'[o] = status'[c] /\ custodian'[o] = custodian'[c]]_vars
  BY MoveWholeStep
<1> QED BY <1>1, PackagingCorrect, PTL DEF Spec, ContainersMoveWhole

-----------------------------------------------------------------------------
(* Frozen lines *)

Frozen(d) ==
  /\ docStatus[d] \notin {"ABSENT", "DRAFT"} =>
       \A o \in Objects :
         /\ lines'[d][o].role = lines[d][o].role
         /\ lines'[d][o].expected = lines[d][o].expected
         /\ lines[d][o].fulfilledBy # Unfulfilled => lines'[d][o] = lines[d][o]
  /\ docStatus[d] \in {"COMPLETED", "CANCELLED"} =>
       docStatus'[d] = docStatus[d] /\ lines'[d] = lines[d]

\* An event fulfils a line that was not, of a document that is not closed.
LEMMA ApplyKeepsFrozen ==
  ASSUME TypeOK, NEW e, NEW o \in Objects, NEW d \in Documents, NEW org, NEW affected,
         NEW p, NEW links, DocumentAdmits(d, e, o, org),
         Apply(e, o, d, org, affected, p, links), NEW x \in Documents
  PROVE  Frozen(x)
<1>1. DocTypeOK /\ Fulfil(d, o, Len(log) + 1) /\ Len(log) + 1 \in Nat
  BY LenProperties DEF Apply, TypeOK
<1>2. /\ docStatus[d] \notin {"COMPLETED", "CANCELLED"}
      /\ lines[d][o].fulfilledBy = Unfulfilled
  BY DEF DocumentAdmits
<1>3. /\ \A y \in Documents : y # d => lines'[y] = lines[y] /\ docStatus'[y] = docStatus[y]
      /\ \A y \in Objects : y # o => lines'[d][y] = lines[d][y]
  BY <1>1 DEF Fulfil, DocTypeOK
<1>4. \A y \in Objects : lines'[d][y].role = lines[d][y].role
                         /\ lines'[d][y].expected = lines[d][y].expected
  BY <1>1, FulfilEffect
<1> QED BY <1>2, <1>3, <1>4 DEF Frozen

\* A clerk edits drafts, an approver no lines, and nobody opens a closed document.
LEMMA PaperKeepsFrozen ==
  ASSUME TypeOK, DocNext, NEW x \in Documents
  PROVE  Frozen(x)
<1>1. PICK d \in Documents :
        \/ CreateDocument(d)
        \/ \E r \in LineRequests[d] : AddObject(d, r)
        \/ \E o \in Objects : RemoveObject(d, o)
        \/ \E v \in 0 .. 3, to \in DocumentStatus : TransitionDocument(d, v, to)
  BY DEF DocNext, DocumentRequest
<1>2. DocTypeOK
  BY DEF TypeOK
<1>3. CASE CreateDocument(d)
  BY <1>2, <1>3 DEF CreateDocument, DocTypeOK, Frozen
<1>4. CASE \/ \E r \in LineRequests[d] : AddObject(d, r)
           \/ \E o \in Objects : RemoveObject(d, o)
  <2>1. /\ UNCHANGED docStatus /\ docStatus[d] = "DRAFT"
        /\ \A y \in Documents : y # d => lines'[y] = lines[y]
    BY <1>2, <1>4 DEF AddObject, RemoveObject, DocTypeOK
  <2> QED BY <2>1 DEF Frozen
<1>5. CASE \E v \in 0 .. 3, to \in DocumentStatus : TransitionDocument(d, v, to)
  <2>1. /\ UNCHANGED lines /\ docStatus[d] \notin {"COMPLETED", "CANCELLED"}
        /\ \A y \in Documents : y # d => docStatus'[y] = docStatus[y]
    BY <1>2, <1>5 DEF TransitionDocument, AllowedTransitions, DocTypeOK
  <2> QED BY <2>1 DEF Frozen
<1> QED BY <1>1, <1>3, <1>4, <1>5

LEMMA FrozenStep ==
  ASSUME TypeOK, [Next]_vars, NEW x \in Documents
  PROVE  Frozen(x)
<1>1. CASE SomeMove \/ SomePack \/ SomeRepack \/ SomeUnpack
  BY <1>1, ApplyKeepsFrozen DEF SomeMove, SomePack, SomeRepack, SomeUnpack, Move, Pack,
                                Repack, Unpack
<1>2. CASE SomeReview \/ SomeVerify \/ RiskNext \/ UNCHANGED vars
  <2>1. UNCHANGED docVars
    BY <1>2 DEF SomeReview, SomeVerify, RiskNext, ReceiveForReview, Verify, Record,
                DecideRisk, vars
  <2> QED BY <2>1 DEF docVars, Frozen
<1>3. CASE SomePaper
  BY <1>3, PaperKeepsFrozen DEF SomePaper
<1> QED BY <1>1, <1>2, <1>3, StepCases

\* What an approver has approved is what is carried out: lines change by their fulfilment
\* only, once each, and a closed document not at all.
THEOREM LinesFrozen == Spec => ApprovedLinesFrozen
<1>1. TypeOK /\ [Next]_vars => [\A d \in Documents : Frozen(d)]_vars
  BY FrozenStep
<1>2. ApprovedLinesFrozen <=> [][\A d \in Documents : Frozen(d)]_vars
  BY PTL DEF ApprovedLinesFrozen, Frozen
<1> QED BY <1>1, <1>2, TypeCorrect, PTL DEF Spec

-----------------------------------------------------------------------------
(* Histories *)

\* An event appended to the log leaves the earlier ones in their places.
LEMMA Appended ==
  ASSUME TypeOK, NEW x, log' = Append(log, x)
  PROVE  /\ Len(log) \in Nat /\ DOMAIN log = 1 .. Len(log)
         /\ DOMAIN log' = 1 .. (Len(log) + 1)
         /\ log'[Len(log) + 1] = x
         /\ \A i \in DOMAIN log : i # Len(log) + 1 /\ log'[i] = log[i]
<1> DEFINE T == Event \cup {x}
<1>1. log \in Seq(T) /\ x \in T
  <2>1. log \in Seq(Event)
    BY DEF TypeOK
  <2> QED BY <2>1
<1> HIDE DEF T
<1> QED BY <1>1, AppendProperties, LenProperties

\* An event e of o under links, and what it does: the objects it touches and o's new parent.
Happens(e, o, affected, p, links) ==
  /\ o \in affected /\ affected \subseteq Objects
  /\ \A y \in Objects : status'[y] =
       IF y \in affected THEN nextObjectStatus(e, status[y]) ELSE status[y]
  /\ \A y \in Objects : parent'[y] = IF y = o THEN p ELSE parent[y]
  /\ \E x : /\ log' = Append(log, x) /\ x.object = o /\ x.links = links
            /\ x.snapshots = Snapshots(e, o, affected, p)

\* How links and parents go together: nothing changes, or something is put in a container,
\* taken out of one, or both.
Linked(o, p, links) ==
  \/ p = parent[o] /\ links = {}
  \/ parent[o] = None /\ p \in Objects /\ links = {[parent |-> p, action |-> "ADD"]}
  \/ parent[o] \in Objects /\ p = None
       /\ links = {[parent |-> parent[o], action |-> "DELETE"]}
  \/ parent[o] \in Objects /\ p \in Objects /\ p # parent[o]
       /\ links = {[parent |-> parent[o], action |-> "DELETE"], [parent |-> p, action |-> "ADD"]}

LEMMA ApplyHappens ==
  ASSUME TypeOK, NEW e, NEW o \in Objects, NEW d, NEW org, NEW affected \in SUBSET Objects,
         o \in affected, NEW p, NEW links, Apply(e, o, d, org, affected, p, links)
  PROVE  Happens(e, o, affected, p, links)
<1>1. parent \in [Objects -> Objects \cup {None}]
  BY DEF TypeOK
<1>2. \A y \in Objects : parent'[y] = IF y = o THEN p ELSE parent[y]
  BY <1>1 DEF Apply
<1>3. \A y \in Objects : status'[y] =
        IF y \in affected THEN nextObjectStatus(e, status[y]) ELSE status[y]
  BY DEF Apply
<1>4. \E x : /\ log' = Append(log, x) /\ x.object = o /\ x.links = links
             /\ x.snapshots = Snapshots(e, o, affected, p)
  <2> DEFINE x == [type |-> e, object |-> o, document |-> d, organization |-> org,
                   verification |-> "VERIFIED",
                   snapshots |-> Snapshots(e, o, affected, p), links |-> links]
  <2>1. log' = Append(log, x) /\ x.object = o /\ x.links = links
        /\ x.snapshots = Snapshots(e, o, affected, p)
    BY DEF Apply
  <2> QED BY <2>1
<1> QED BY <1>2, <1>3, <1>4 DEF Happens

LEMMA RecordHappens ==
  ASSUME TypeOK, NEW e, NEW o \in Objects, NEW d, NEW org, NEW v, Record(e, o, d, org, v)
  PROVE  Happens("VERIFY", o, {o}, parent[o], {})
<1>1. UNCHANGED <<status, parent>>
  BY DEF Record, objectVars
<1>2. \E x : /\ log' = Append(log, x) /\ x.object = o /\ x.links = {}
             /\ x.snapshots = Snapshots("VERIFY", o, {o}, parent[o])
  <2> DEFINE x == [type |-> e, object |-> o, document |-> d, organization |-> org,
                   verification |-> v,
                   snapshots |-> Snapshots("VERIFY", o, {o}, parent[o]), links |-> {}]
  <2>1. log' = Append(log, x) /\ x.object = o /\ x.links = {}
        /\ x.snapshots = Snapshots("VERIFY", o, {o}, parent[o])
    BY DEF Record
  <2> QED BY <2>1
<1> QED BY <1>1, <1>2 DEF Happens, nextObjectStatus, StatusKept

\* Every step is such an event, or no event and no change of an object.
LEMMA StepHappens ==
  ASSUME TypeOK, [Next]_vars
  PROVE  \/ UNCHANGED <<log, status, parent>>
         \/ \E e, affected, p, links : \E o \in Objects :
              Happens(e, o, affected, p, links) /\ Linked(o, p, links)
<1>0. \A o \in Objects : o # None
  BY DocumentAssumption
<1>1. CASE SomeMove
  <2>1. PICK e \in MovingEvent, o \in Objects, d \in Documents, s \in Shipments \cup {None},
             org \in Organizations : Move(e, o, d, s, org)
    BY <1>1 DEF SomeMove
  <2> DEFINE affected == {o} \cup (IF LevelOf[o] # "ITEM" THEN Contents(o) ELSE {})
  <2>2. affected \in SUBSET Objects /\ o \in affected
    BY DEF Contents, ChildrenOf
  <2>3. Apply(e, o, d, org, affected, parent[o], {})
    BY <2>1 DEF Move
  <2> HIDE DEF affected
  <2> QED BY <2>2, <2>3, ApplyHappens DEF Linked
<1>2. CASE SomeReview \/ SomeVerify
  <2>1. PICK o \in Objects : Happens("VERIFY", o, {o}, parent[o], {})
    BY <1>2, RecordHappens DEF SomeReview, SomeVerify, ReceiveForReview, Verify
  <2> QED BY <2>1 DEF Linked
<1>3. CASE SomePack
  <2>1. PICK o \in Objects, p \in Objects, d \in Documents, org \in Organizations :
               Pack(o, p, d, org)
    BY <1>3 DEF SomePack
  <2>2. Happens("PACKING", o, {o}, p, {[parent |-> p, action |-> "ADD"]})
    BY <2>1, ApplyHappens DEF Pack
  <2> QED BY <2>1, <2>2 DEF Pack, Linked
<1>4. CASE SomeRepack
  <2>1. PICK o \in Objects, p \in Objects, d \in Documents, org \in Organizations :
               Repack(o, p, d, org)
    BY <1>4 DEF SomeRepack
  <2>2. Happens("REPACKING", o, {o}, p, {[parent |-> parent[o], action |-> "DELETE"],
                                         [parent |-> p, action |-> "ADD"]})
    BY <2>1, ApplyHappens DEF Repack
  <2>3. parent[o] \in Objects /\ p # parent[o]
    BY <2>1 DEF Repack, TypeOK
  <2> QED BY <2>2, <2>3 DEF Linked
<1>5. CASE SomeUnpack
  <2>1. PICK o \in Objects, d \in Documents, org \in Organizations : Unpack(o, d, org)
    BY <1>5 DEF SomeUnpack
  <2>2. Happens("UNPACKING", o, {o}, None, {[parent |-> parent[o], action |-> "DELETE"]})
    BY <2>1, ApplyHappens DEF Unpack
  <2>3. parent[o] \in Objects
    BY <2>1 DEF Unpack, TypeOK
  <2> QED BY <2>2, <2>3 DEF Linked
<1>6. CASE RiskNext \/ SomePaper \/ UNCHANGED vars
  BY <1>6 DEF RiskNext, SomePaper, DecideRisk, vars, objectVars
<1> QED BY <1>1, <1>2, <1>3, <1>4, <1>5, <1>6, StepCases

NextRows(i, o) == {r \in log'[i].snapshots : r.object = o}

\* Of every object the rows of its last event, all of them, are its present.
LastRowsTrue ==
  \A o \in Objects : \A i \in DOMAIN log :
    (\A j \in DOMAIN log : j > i => RowsOf(j, o) = {}) =>
      \A r \in RowsOf(i, o) : r.resulting = status[o] /\ r.resultingParent = parent[o]
HistoryInv == TypeOK /\ LastRowsTrue /\ SnapshotsTellThePresent /\ SnapshotsUnbroken

\* The rows of a new event begin with the present and end with the next, and an object
\* without a row stays as it is.
LEMMA NewRows ==
  ASSUME TypeOK, NEW e, NEW o \in Objects, NEW affected, NEW p, NEW links,
         Happens(e, o, affected, p, links), NEW y \in Objects
  PROVE  LET n == Len(log) + 1 IN
         /\ \A r \in NextRows(n, y) : /\ r.previous = status[y] /\ r.resulting = status'[y]
                                     /\ r.parent = parent[y] /\ r.resultingParent = parent'[y]
         /\ NextRows(n, y) = {} => status'[y] = status[y] /\ parent'[y] = parent[y]
         /\ NextRows(n, y) # {} <=> y \in affected
         /\ \A i \in DOMAIN log : NextRows(i, y) = RowsOf(i, y)
<1> DEFINE n == Len(log) + 1
           row(x) == [object |-> x, previous |-> status[x],
                      resulting |-> nextObjectStatus(e, status[x]), parent |-> parent[x],
                      resultingParent |-> IF x = o THEN p ELSE parent[x]]
<1>1. PICK z : log' = Append(log, z) /\ z.snapshots = Snapshots(e, o, affected, p)
  BY DEF Happens
<1>2. log'[n] = z /\ \A i \in DOMAIN log : log'[i] = log[i]
  BY <1>1, Appended
<1>3. Snapshots(e, o, affected, p) = {row(x) : x \in affected}
  BY DEF Snapshots
<1>4. NextRows(n, y) = {r \in {row(x) : x \in affected} : r.object = y}
  BY <1>1, <1>2, <1>3 DEF NextRows
<1>5. \A r \in NextRows(n, y) : r = row(y) /\ y \in affected
  BY <1>4
<1>6. y \in affected => row(y) \in NextRows(n, y)
  BY <1>4
<1>7. \A i \in DOMAIN log : NextRows(i, y) = RowsOf(i, y)
  BY <1>2 DEF RowsOf, NextRows
<1>8. y \in affected => row(y).resulting = status'[y] /\ row(y).resultingParent = parent'[y]
  BY DEF Happens
<1>9. y \notin affected => status'[y] = status[y] /\ parent'[y] = parent[y]
  BY DEF Happens
<1> QED BY <1>5, <1>6, <1>7, <1>8, <1>9

LEMMA HistoryStep ==
  ASSUME HistoryInv, [Next]_vars
  PROVE  HistoryInv'
<1> USE DEF HistoryInv
<1>0. TypeOK'
  BY TypeStep
<1>1. CASE UNCHANGED <<log, status, parent>>
  BY <1>0, <1>1 DEF LastRowsTrue, SnapshotsTellThePresent, SnapshotsUnbroken, RowsOf
<1>2. ASSUME NEW e, NEW affected, NEW p, NEW links, NEW o \in Objects,
             Happens(e, o, affected, p, links)
      PROVE  HistoryInv'
  <2> DEFINE n == Len(log) + 1
  <2>1. /\ Len(log) \in Nat /\ DOMAIN log = 1 .. Len(log) /\ DOMAIN log' = 1 .. n
        /\ n \in DOMAIN log' /\ n \notin DOMAIN log
        /\ \A i \in DOMAIN log' : i = n \/ (i \in DOMAIN log /\ n > i)
        /\ \A i \in DOMAIN log : i \in DOMAIN log' /\ n > i
    <3>1. PICK z : log' = Append(log, z)
      BY <1>2 DEF Happens
    <3>2. Len(log) \in Nat /\ DOMAIN log = 1 .. Len(log) /\ DOMAIN log' = 1 .. n
      BY <3>1, Appended
    <3> QED BY <3>2
  <2>2. ASSUME NEW y \in Objects
        PROVE  /\ \A r \in NextRows(n, y) : /\ r.previous = status[y] /\ r.resulting = status'[y]
                                           /\ r.parent = parent[y] /\ r.resultingParent = parent'[y]
               /\ NextRows(n, y) = {} => status'[y] = status[y] /\ parent'[y] = parent[y]
               /\ \A i \in DOMAIN log : NextRows(i, y) = RowsOf(i, y)
    BY <1>2, NewRows
  <2> HIDE DEF n
  <2>3. LastRowsTrue'
    <3> SUFFICES ASSUME NEW y \in Objects, NEW i \in DOMAIN log',
                        \A j \in DOMAIN log' : j > i => NextRows(j, y) = {},
                        NEW r \in NextRows(i, y)
                 PROVE  r.resulting = status'[y] /\ r.resultingParent = parent'[y]
      BY DEF LastRowsTrue, RowsOf, NextRows
    <3>1. CASE i = n
      BY <2>2, <3>1
    <3>2. CASE i \in DOMAIN log
      <4>1. NextRows(n, y) = {} /\ \A j \in DOMAIN log : j > i => RowsOf(j, y) = {}
        BY <2>1, <2>2, <3>2
      <4> QED BY <2>2, <3>2, <4>1 DEF LastRowsTrue
    <3> QED BY <2>1, <3>1, <3>2
  <2>4. SnapshotsTellThePresent'
    <3> SUFFICES ASSUME NEW y \in Objects
                 PROVE  \/ /\ \A i \in DOMAIN log' : NextRows(i, y) = {}
                           /\ status'[y] = "COMMISSIONED" /\ parent'[y] = None
                        \/ \E i \in DOMAIN log' :
                             /\ \A j \in DOMAIN log' : j > i => NextRows(j, y) = {}
                             /\ \E r \in NextRows(i, y) :
                                  r.resulting = status'[y] /\ r.resultingParent = parent'[y]
      BY DEF SnapshotsTellThePresent, RowsOf, NextRows
    <3>1. CASE NextRows(n, y) # {}
      <4>1. \A j \in DOMAIN log' : ~(j > n)
        BY <2>1 DEF n
      <4> QED BY <2>1, <2>2, <3>1, <4>1
    <3>2. CASE NextRows(n, y) = {}
      <4>1. status'[y] = status[y] /\ parent'[y] = parent[y]
        BY <2>2, <3>2
      <4>2. CASE /\ \A i \in DOMAIN log : RowsOf(i, y) = {}
                 /\ status[y] = "COMMISSIONED" /\ parent[y] = None
        BY <2>1, <2>2, <3>2, <4>1, <4>2
      <4>3. ASSUME NEW i \in DOMAIN log,
                   \A j \in DOMAIN log : j > i => RowsOf(j, y) = {},
                   \E r \in RowsOf(i, y) : r.resulting = status[y] /\ r.resultingParent = parent[y]
            PROVE  /\ i \in DOMAIN log' /\ \A j \in DOMAIN log' : j > i => NextRows(j, y) = {}
                   /\ \E r \in NextRows(i, y) :
                        r.resulting = status'[y] /\ r.resultingParent = parent'[y]
        BY <2>1, <2>2, <3>2, <4>1, <4>3
      <4> QED BY <4>2, <4>3 DEF SnapshotsTellThePresent
    <3> QED BY <3>1, <3>2
  <2>5. SnapshotsUnbroken'
    <3> SUFFICES ASSUME NEW y \in Objects, NEW i \in DOMAIN log', NEW j \in DOMAIN log', i < j,
                        \A k \in i + 1 .. j - 1 : NextRows(k, y) = {},
                        NEW r \in NextRows(i, y), NEW q \in NextRows(j, y)
                 PROVE  r.resulting = q.previous /\ r.resultingParent = q.parent
      BY DEF SnapshotsUnbroken, RowsOf, NextRows
    <3>1. i \in DOMAIN log /\ i \in Int /\ j \in Int
      BY <2>1 DEF n
    <3>2. CASE j = n
      <4>1. \A k \in DOMAIN log : k > i => RowsOf(k, y) = {}
        BY <2>1, <2>2, <3>1, <3>2 DEF n
      <4>2. r.resulting = status[y] /\ r.resultingParent = parent[y]
        BY <2>2, <3>1, <4>1 DEF LastRowsTrue
      <4> QED BY <2>2, <3>2, <4>2
    <3>3. CASE j \in DOMAIN log
      <4>1. \A k \in i + 1 .. j - 1 : k \in DOMAIN log /\ RowsOf(k, y) = {}
        BY <2>1, <2>2, <3>1, <3>3
      <4> QED BY <2>2, <3>1, <3>3, <4>1 DEF SnapshotsUnbroken
    <3> QED BY <2>1, <3>2, <3>3
  <2> QED BY <1>0, <2>3, <2>4, <2>5
<1> QED BY <1>1, <1>2, StepHappens

\* The append-only snapshots tell the life of every object without a gap, up to the status
\* and parent that its row holds.
THEOREM SnapshotsCorrect == Spec => []SnapshotsSound
<1>1. Init => HistoryInv
  <2> SUFFICES ASSUME Init PROVE HistoryInv
    OBVIOUS
  <2>1. TypeOK
    BY TraceAssumption
       DEF Init, DocInit, TypeOK, DocTypeOK, DocumentStatus, Line, NoLine,
           Unfulfilled, Status, RiskStatus
  <2>2. DOMAIN log = {} /\ \A o \in Objects : status[o] = "COMMISSIONED" /\ parent[o] = None
    BY DEF Init
  <2> QED BY <2>1, <2>2
       DEF HistoryInv, LastRowsTrue, SnapshotsTellThePresent, SnapshotsUnbroken
<1>2. HistoryInv /\ [Next]_vars => HistoryInv'
  BY HistoryStep
<1>3. HistoryInv => SnapshotsSound
  BY DEF HistoryInv, SnapshotsSound
<1> QED BY <1>1, <1>2, <1>3, PTL DEF Spec

-----------------------------------------------------------------------------
(* Aggregations *)

Adds(i, o, p) == log[i].object = o /\ [parent |-> p, action |-> "ADD"] \in log[i].links
Deletes(i, o, p) == log[i].object = o /\ [parent |-> p, action |-> "DELETE"] \in log[i].links

LEMMA JoinedMeans ==
  ASSUME NEW o, NEW p
  PROVE  Joined(o, p) <=> \E i \in DOMAIN log :
           Adds(i, o, p) /\ \A j \in DOMAIN log : j > i => ~Deletes(j, o, p)
BY DEF Joined, Adds, Deletes

\* After an event that adds a child to p it is joined, after one that deletes it it is not,
\* and after any other it is if it was.
LEMMA JoinedStep ==
  ASSUME TypeOK, NEW e, NEW affected, NEW o \in Objects, NEW p, NEW links,
         Happens(e, o, affected, p, links), NEW y \in Objects, NEW q \in Objects
  PROVE  LET add == y = o /\ [parent |-> q, action |-> "ADD"] \in links
             delete == y = o /\ [parent |-> q, action |-> "DELETE"] \in links
         IN Joined(y, q)' <=> add \/ (Joined(y, q) /\ ~delete)
<1> DEFINE n == Len(log) + 1
           add == y = o /\ [parent |-> q, action |-> "ADD"] \in links
           delete == y = o /\ [parent |-> q, action |-> "DELETE"] \in links
           addsNext(i) == log'[i].object = y /\ [parent |-> q, action |-> "ADD"] \in log'[i].links
           deletesNext(i) ==
             log'[i].object = y /\ [parent |-> q, action |-> "DELETE"] \in log'[i].links
<1>1. PICK z : log' = Append(log, z) /\ z.object = o /\ z.links = links
  BY DEF Happens
<1>2. /\ DOMAIN log = 1 .. Len(log) /\ DOMAIN log' = 1 .. n /\ Len(log) \in Nat
      /\ log'[n] = z /\ \A i \in DOMAIN log : log'[i] = log[i]
  BY <1>1, Appended
<1>3. /\ n \in DOMAIN log' /\ n \notin DOMAIN log
      /\ \A i \in DOMAIN log' : i = n \/ (i \in DOMAIN log /\ n > i)
      /\ \A i \in DOMAIN log : i \in DOMAIN log' /\ n > i
      /\ \A i \in DOMAIN log' : ~(i > n)
  BY <1>2
<1>4. (addsNext(n) <=> add) /\ (deletesNext(n) <=> delete)
  BY <1>1, <1>2
<1>5. \A i \in DOMAIN log : (addsNext(i) <=> Adds(i, y, q)) /\ (deletesNext(i) <=> Deletes(i, y, q))
  BY <1>2 DEF Adds, Deletes
<1>6. Joined(y, q)' <=> \E i \in DOMAIN log' :
        addsNext(i) /\ \A j \in DOMAIN log' : j > i => ~deletesNext(j)
  BY DEF Joined
<1> HIDE DEF n, add, delete, addsNext, deletesNext
<1>7. ASSUME Joined(y, q)' PROVE add \/ (Joined(y, q) /\ ~delete)
  <2>1. PICK i \in DOMAIN log' : addsNext(i) /\ \A j \in DOMAIN log' : j > i => ~deletesNext(j)
    BY <1>6, <1>7
  <2>2. CASE i = n
    BY <1>4, <2>1, <2>2
  <2>3. CASE i \in DOMAIN log
    <3>1. ~delete
      BY <1>3, <1>4, <2>1, <2>3
    <3>2. Adds(i, y, q) /\ \A j \in DOMAIN log : j > i => ~Deletes(j, y, q)
      BY <1>3, <1>5, <2>1, <2>3
    <3> QED BY <2>3, <3>1, <3>2, JoinedMeans
  <2> QED BY <1>3, <2>2, <2>3
<1>8. ASSUME add PROVE Joined(y, q)'
  <2>1. addsNext(n) /\ \A j \in DOMAIN log' : j > n => ~deletesNext(j)
    BY <1>3, <1>4, <1>8
  <2> QED BY <1>3, <1>6, <2>1
<1>9. ASSUME Joined(y, q), ~delete PROVE Joined(y, q)'
  <2>1. PICK i \in DOMAIN log :
          Adds(i, y, q) /\ \A j \in DOMAIN log : j > i => ~Deletes(j, y, q)
    BY <1>9, JoinedMeans
  <2>2. addsNext(i) /\ \A j \in DOMAIN log' : j > i => ~deletesNext(j)
    BY <1>3, <1>4, <1>5, <1>9, <2>1
  <2> QED BY <1>3, <1>6, <2>2
<1> QED BY <1>7, <1>8, <1>9 DEF add, delete

LEMMA AggregationStep ==
  ASSUME TypeOK, AggregationsTellTheParents, [Next]_vars
  PROVE  AggregationsTellTheParents'
<1>1. CASE UNCHANGED <<log, status, parent>>
  BY <1>1 DEF AggregationsTellTheParents, Joined
<1>2. ASSUME NEW e, NEW affected, NEW p, NEW links, NEW o \in Objects,
             Happens(e, o, affected, p, links), Linked(o, p, links),
             NEW y \in Objects, NEW q \in Objects
      PROVE  parent'[y] = q <=> Joined(y, q)'
  <2> DEFINE add == y = o /\ [parent |-> q, action |-> "ADD"] \in links
             delete == y = o /\ [parent |-> q, action |-> "DELETE"] \in links
  <2>1. Joined(y, q)' <=> add \/ (Joined(y, q) /\ ~delete)
    BY <1>2, JoinedStep
  <2>2. Joined(y, q) <=> parent[y] = q
    BY DEF AggregationsTellTheParents
  <2>3. parent'[y] = IF y = o THEN p ELSE parent[y]
    BY <1>2 DEF Happens
  <2>4. CASE y # o
    BY <2>1, <2>2, <2>3, <2>4
  <2>5. CASE y = o
    <3>1. None # q /\ parent[o] \in Objects \cup {None}
      BY DocumentAssumption DEF TypeOK
    <3>2. [parent |-> q, action |-> "ADD"] \in links <=> p = q /\ parent[o] # q
      BY <1>2, <3>1 DEF Linked
    <3>3. [parent |-> q, action |-> "DELETE"] \in links <=> parent[o] = q /\ p # q
      BY <1>2, <3>1 DEF Linked
    <3> QED BY <2>1, <2>2, <2>3, <2>5, <3>2, <3>3
  <2> QED BY <2>4, <2>5
<1>3. ASSUME NEW e, NEW affected, NEW p, NEW links, NEW o \in Objects,
             Happens(e, o, affected, p, links), Linked(o, p, links)
      PROVE  AggregationsTellTheParents'
  BY <1>2, <1>3 DEF AggregationsTellTheParents
<1> QED BY <1>1, <1>3, StepHappens

\* Whoever replays the aggregations of the log has the packaging that the rows have.
THEOREM AggregationsCorrect == Spec => []AggregationsTellTheParents
<1>1. Init => AggregationsTellTheParents
  <2> SUFFICES ASSUME Init, NEW o \in Objects, NEW p \in Objects
               PROVE  parent[o] # p /\ ~Joined(o, p)
    BY DEF AggregationsTellTheParents
  <2>1. DOMAIN log = {} /\ parent[o] = None /\ None # p
    BY DocumentAssumption DEF Init
  <2> QED BY <2>1 DEF Joined
<1>2. TypeOK /\ AggregationsTellTheParents /\ [Next]_vars => AggregationsTellTheParents'
  BY AggregationStep
<1> QED BY <1>1, <1>2, TypeCorrect, PTL DEF Spec

-----------------------------------------------------------------------------
(* Claims *)

\* No case is open for an event that has not happened, so that a claim's event has none.
NoEarlyCase == \A i \in 1 .. MaxEvents : i > Len(log) => risk[i] = "NONE"
ClaimInv == TypeOK /\ ClaimsAreVerifiedReceipts /\ NoEarlyCase

\* An event of which nothing is paid, and a case of it at most.
LEMMA UnpaidKeepsClaims ==
  ASSUME ClaimInv, TypeOK', NEW x, log' = Append(log, x), UNCHANGED claims,
         UNCHANGED risk \/ risk' = [risk EXCEPT ![Len(log) + 1] = "OPEN"]
  PROVE  ClaimInv'
<1> USE DEF ClaimInv
<1>1. /\ Len(log) \in Nat /\ DOMAIN log = 1 .. Len(log) /\ DOMAIN log' = 1 .. (Len(log) + 1)
      /\ \A i \in DOMAIN log : i # Len(log) + 1 /\ log'[i] = log[i]
      /\ Len(log') = Len(log) + 1
  <2>1. DOMAIN log' = 1 .. Len(log')
    BY LenProperties DEF TypeOK
  <2>2. Len(log') \in Nat
    BY LenProperties DEF TypeOK
  <2>3. /\ Len(log) \in Nat /\ DOMAIN log = 1 .. Len(log) /\ DOMAIN log' = 1 .. (Len(log) + 1)
        /\ \A i \in DOMAIN log : i # Len(log) + 1 /\ log'[i] = log[i]
    BY Appended
  <2>4. Len(log') = Len(log) + 1
    BY <2>1, <2>2, <2>3
  <2> QED BY <2>3, <2>4
<1>2. risk \in [1 .. MaxEvents -> RiskStatus] /\ MaxEvents \in Nat /\ claims \subseteq Claim
  BY TraceAssumption DEF TypeOK
<1>3. \A i \in 1 .. MaxEvents : i # Len(log) + 1 => risk'[i] = risk[i]
  BY <1>2
<1>4. NoEarlyCase'
  BY <1>1, <1>2, <1>3 DEF NoEarlyCase
<1>5. ASSUME NEW c \in claims
      PROVE  /\ c.event \in DOMAIN log' /\ log'[c.event] = log[c.event]
             /\ risk'[c.event] = risk[c.event]
  BY <1>1, <1>2, <1>3 DEF ClaimsAreVerifiedReceipts, Claim
<1>6. ClaimsAreVerifiedReceipts'
  BY <1>5 DEF ClaimsAreVerifiedReceipts
<1> QED BY <1>4, <1>6

LEMMA MoveKeepsClaims ==
  ASSUME ClaimInv, TypeOK', NEW e \in MovingEvent, NEW o \in Objects, NEW d \in Documents,
         NEW s \in Shipments \cup {None}, NEW org \in Organizations, Move(e, o, d, s, org)
  PROVE  ClaimInv'
<1> USE DEF ClaimInv
<1>1. Reward(e, org) /\ Len(log) < MaxEvents
  BY DEF Move, Apply
<1>2. PICK x : /\ log' = Append(log, x) /\ x.type = e /\ x.organization = org
               /\ x.verification = "VERIFIED"
  <2> DEFINE affected == {o} \cup (IF LevelOf[o] # "ITEM" THEN Contents(o) ELSE {})
             x == [type |-> e, object |-> o, document |-> d, organization |-> org,
                   verification |-> "VERIFIED",
                   snapshots |-> Snapshots(e, o, affected, parent[o]), links |-> {}]
  <2>1. log' = Append(log, x) /\ x.type = e /\ x.organization = org
        /\ x.verification = "VERIFIED"
    BY DEF Move, Apply
  <2> QED BY <2>1
<1>3. CASE UNCHANGED claims
  BY <1>1, <1>2, <1>3, UnpaidKeepsClaims DEF Reward
<1>4. CASE /\ e \in Receiving /\ UNCHANGED risk
           /\ claims' = claims \cup {[event |-> Len(log) + 1, beneficiary |-> org]}
  <2> DEFINE n == Len(log) + 1
             claim == [event |-> n, beneficiary |-> org]
  <2>1. /\ Len(log) \in Nat /\ DOMAIN log = 1 .. Len(log) /\ DOMAIN log' = 1 .. n
        /\ log'[n] = x /\ \A i \in DOMAIN log : log'[i] = log[i]
    BY <1>2, Appended
  <2>2. n \in 1 .. MaxEvents /\ n > Len(log)
    BY <1>1, <2>1, TraceAssumption
  <2>3. risk[n] = "NONE"
    BY <2>2 DEF NoEarlyCase
  <2>4. Len(log') = n
    <3>1. DOMAIN log' = 1 .. Len(log') /\ Len(log') \in Nat
      BY LenProperties DEF TypeOK
    <3> QED BY <2>1, <3>1
  <2>5. NoEarlyCase'
    BY <1>4, <2>1, <2>4 DEF NoEarlyCase
  <2>6. ASSUME NEW c \in claims PROVE c.event \in DOMAIN log' /\ log'[c.event] = log[c.event]
    BY <2>1 DEF ClaimsAreVerifiedReceipts
  <2>7. claim.event = n /\ claim.beneficiary = org /\ n \in DOMAIN log'
    BY <2>1
  <2> HIDE DEF n, claim
  <2>8. claims' = claims \cup {claim}
    BY <1>4 DEF n, claim
  <2>9. ClaimsAreVerifiedReceipts'
    BY <1>2, <1>4, <2>1, <2>3, <2>6, <2>7, <2>8 DEF ClaimsAreVerifiedReceipts
  <2> QED BY <2>5, <2>9
<1> QED BY <1>1, <1>3, <1>4 DEF Reward

LEMMA ClaimStep ==
  ASSUME ClaimInv, [Next]_vars
  PROVE  ClaimInv'
<1> USE DEF ClaimInv
<1>0. TypeOK'
  BY TypeStep
<1>1. CASE SomeMove
  BY <1>0, <1>1, MoveKeepsClaims DEF SomeMove
<1>2. CASE SomeReview \/ SomeVerify
  <2>1. \E x : log' = Append(log, x)
    BY <1>2 DEF SomeReview, SomeVerify, ReceiveForReview, Verify, Record
  <2>2. UNCHANGED claims /\ (UNCHANGED risk \/ risk' = [risk EXCEPT ![Len(log) + 1] = "OPEN"])
    BY <1>2 DEF SomeReview, SomeVerify, ReceiveForReview, Verify, Record
  <2> QED BY <1>0, <2>1, <2>2, UnpaidKeepsClaims
<1>3. CASE SomePack \/ SomeRepack \/ SomeUnpack
  <2>1. \E e, o, d, org, affected, p, links : Apply(e, o, d, org, affected, p, links)
    BY <1>3 DEF SomePack, SomeRepack, SomeUnpack, Pack, Repack, Unpack
  <2>2. UNCHANGED <<claims, risk>>
    BY <1>3 DEF SomePack, SomeRepack, SomeUnpack, Pack, Repack, Unpack
  <2>3. \E x : log' = Append(log, x)
    BY <2>1 DEF Apply
  <2> QED BY <1>0, <2>2, <2>3, UnpaidKeepsClaims
<1>4. CASE RiskNext
  <2>1. PICK i \in DOMAIN log, decision \in {"APPROVED", "REJECTED", "HELD"} :
               DecideRisk(i, decision)
    BY <1>4 DEF RiskNext
  <2>2. /\ risk[i] # "NONE" /\ risk' = [risk EXCEPT ![i] = decision]
        /\ UNCHANGED <<log, claims>>
    BY <2>1 DEF DecideRisk
  <2>3. risk \in [1 .. MaxEvents -> RiskStatus]
    BY DEF TypeOK
  <2>4. DOMAIN log = 1 .. Len(log) /\ Len(log) \in Nat
    BY LenProperties DEF TypeOK
  <2>5. \A j \in 1 .. MaxEvents : risk[j] = "NONE" => risk'[j] = "NONE"
    BY <2>2, <2>3
  <2>6. NoEarlyCase'
    BY <2>2, <2>5 DEF NoEarlyCase
  <2>7. ClaimsAreVerifiedReceipts'
    <3>1. \A c \in claims : c.event \in 1 .. MaxEvents
      BY DEF TypeOK, Claim
    <3> QED BY <2>2, <2>5, <3>1 DEF ClaimsAreVerifiedReceipts
  <2> QED BY <1>0, <2>6, <2>7
<1>5. CASE SomePaper \/ UNCHANGED vars
  <2>1. UNCHANGED <<log, risk, claims>>
    BY <1>5 DEF SomePaper, vars
  <2> QED BY <1>0, <2>1 DEF ClaimsAreVerifiedReceipts, NoEarlyCase
<1> QED BY <1>1, <1>2, <1>3, <1>4, <1>5, StepCases

\* An object is on its way when it was shipped and not received since; what is in transit is.
OnItsWay(o) ==
  \E k \in DOMAIN log :
    Moved(k, o, {"SHIPPING"}) /\ \A j \in DOMAIN log : k < j => ~Moved(j, o, Receiving)
TransitIsShipped == \A o \in Objects : status[o] = "IN_TRANSIT" => OnItsWay(o)
AnswerInv == ClaimInv /\ TransitIsShipped /\ ClaimsAnswerShipments

\* Another event, number n, leaves the past as it was.
LEMMA PastKept ==
  ASSUME TypeOK, NEW n \in Nat, n = Len(log) + 1, NEW x, log' = Append(log, x)
  PROVE  /\ DOMAIN log = 1 .. (n - 1) /\ DOMAIN log' = 1 .. n
         /\ \A k \in DOMAIN log : \A y, types : Moved(k, y, types)' <=> Moved(k, y, types)
         /\ \A y, types : Moved(n, y, types)' <=>
              x.type \in types /\ x.verification = "VERIFIED" /\ NextRows(n, y) # {}
<1>1. /\ Len(log) \in Nat /\ DOMAIN log = 1 .. Len(log) /\ DOMAIN log' = 1 .. n
      /\ log'[n] = x /\ \A k \in DOMAIN log : log'[k] = log[k]
  BY Appended
<1>2. ASSUME NEW k \in DOMAIN log, NEW y, NEW types
      PROVE  Moved(k, y, types)' <=> Moved(k, y, types)
  BY <1>1 DEF Moved, RowsOf
<1>3. ASSUME NEW y, NEW types
      PROVE  Moved(n, y, types)' <=>
               x.type \in types /\ x.verification = "VERIFIED" /\ NextRows(n, y) # {}
  BY <1>1 DEF Moved, RowsOf, NextRows
<1>4. DOMAIN log = 1 .. (n - 1)
  BY <1>1
<1> QED BY <1>1, <1>2, <1>3, <1>4

\* What answered a shipment still does, and a receipt of what is on its way does.
LEMMA AnswersKept ==
  ASSUME TypeOK, NEW n \in Nat, n = Len(log) + 1, NEW x, log' = Append(log, x),
         NEW y, NEW i \in 1 .. n, ShippedBefore(i, y) \/ (i = n /\ OnItsWay(y))
  PROVE  ShippedBefore(i, y)'
<1>1. DOMAIN log = 1 .. (n - 1) /\ DOMAIN log' = 1 .. n
      /\ \A k \in DOMAIN log : \A z, types : Moved(k, z, types)' <=> Moved(k, z, types)
  BY PastKept
<1>2. PICK k \in DOMAIN log :
        /\ k < i /\ Moved(k, y, {"SHIPPING"})
        /\ \A j \in DOMAIN log : k < j /\ j < i => ~Moved(j, y, Receiving)
  BY <1>1 DEF ShippedBefore, OnItsWay
<1>3. k \in DOMAIN log' /\ Moved(k, y, {"SHIPPING"})'
  BY <1>1, <1>2
<1>4. ASSUME NEW j \in DOMAIN log', k < j, j < i
      PROVE  ~Moved(j, y, Receiving)'
  <2>1. j \in DOMAIN log
    BY <1>1, <1>4
  <2> QED BY <1>1, <1>2, <1>4, <2>1
<1> QED BY <1>2, <1>3, <1>4 DEF ShippedBefore

\* An event puts an object on its way, or leaves it there unless it is a verified receipt.
LEMMA WayStep ==
  ASSUME TypeOK, NEW n \in Nat, n = Len(log) + 1, NEW x, log' = Append(log, x), NEW y,
         Moved(n, y, {"SHIPPING"})' \/ (OnItsWay(y) /\ ~Moved(n, y, Receiving)')
  PROVE  OnItsWay(y)'
<1>1. DOMAIN log = 1 .. (n - 1) /\ DOMAIN log' = 1 .. n
      /\ \A k \in DOMAIN log : \A z, types : Moved(k, z, types)' <=> Moved(k, z, types)
  BY PastKept
<1>2. CASE Moved(n, y, {"SHIPPING"})'
  <2>1. n \in DOMAIN log' /\ \A j \in DOMAIN log' : ~(n < j)
    BY <1>1
  <2> QED BY <1>2, <2>1 DEF OnItsWay
<1>3. CASE OnItsWay(y) /\ ~Moved(n, y, Receiving)'
  <2>1. PICK k \in DOMAIN log :
          Moved(k, y, {"SHIPPING"}) /\ \A j \in DOMAIN log : k < j => ~Moved(j, y, Receiving)
    BY <1>3 DEF OnItsWay
  <2>2. k \in DOMAIN log' /\ Moved(k, y, {"SHIPPING"})'
    BY <1>1, <2>1
  <2>3. ASSUME NEW j \in DOMAIN log', k < j
        PROVE  ~Moved(j, y, Receiving)'
    <3>1. j = n \/ j \in DOMAIN log
      BY <1>1
    <3> QED BY <1>1, <1>3, <2>1, <2>3, <3>1
  <2> QED BY <2>2, <2>3 DEF OnItsWay
<1> QED BY <1>2, <1>3

\* An event x of which nothing is paid, that puts nothing into transit and receives nothing.
Passing(x) ==
  /\ log' = Append(log, x) /\ UNCHANGED claims
  /\ x.type \notin Receiving \/ x.verification # "VERIFIED"
  /\ \A y \in Objects : status'[y] = "IN_TRANSIT" => status[y] = "IN_TRANSIT"

\* A verified movement x, which is paid for if it is a receipt.
Moving(x, e, o, org, affected) ==
  /\ Happens(e, o, affected, parent[o], {})
  /\ log' = Append(log, x)
  /\ x.type = e /\ x.object = o /\ x.verification = "VERIFIED"
  /\ e \in Receiving => status[o] = "IN_TRANSIT"
  /\ \/ UNCHANGED claims
     \/ /\ e \in Receiving
        /\ claims' = claims \cup {[event |-> Len(log) + 1, beneficiary |-> org]}

\* Every step is one of the two, or changes neither objects nor claims.
LEMMA StepPasses ==
  ASSUME TypeOK, [Next]_vars
  PROVE  \/ UNCHANGED <<log, status, claims>>
         \/ \E x : Passing(x)
         \/ \E x, org, affected : \E e \in MovingEvent, o \in Objects :
              Moving(x, e, o, org, affected)
<1>1. CASE SomeMove
  <2>1. PICK e \in MovingEvent, o \in Objects, d \in Documents, s \in Shipments \cup {None},
             org \in Organizations : Move(e, o, d, s, org)
    BY <1>1 DEF SomeMove
  <2> DEFINE affected == {o} \cup (IF LevelOf[o] # "ITEM" THEN Contents(o) ELSE {})
             x == [type |-> e, object |-> o, document |-> d, organization |-> org,
                   verification |-> "VERIFIED",
                   snapshots |-> Snapshots(e, o, affected, parent[o]), links |-> {}]
  <2>2. affected \in SUBSET Objects /\ o \in affected
    BY DEF Contents, ChildrenOf
  <2>3. Apply(e, o, d, org, affected, parent[o], {}) /\ Reward(e, org)
        /\ ValidTransition(e, LevelOf[o], status[o])
    BY <2>1, <2>2 DEF Move
  <2>4. log' = Append(log, x) /\ x.type = e /\ x.object = o /\ x.verification = "VERIFIED"
    BY <2>3 DEF Apply
  <2> HIDE DEF affected, x
  <2>5. Happens(e, o, affected, parent[o], {})
    BY <2>2, <2>3, ApplyHappens
  <2>6. e \in Receiving => status[o] = "IN_TRANSIT"
    <3>1. LevelOf[o] \in Level
      BY TraceAssumption
    <3> QED BY <2>3, <3>1 DEF ValidTransition, ValidFrom, EveryLevel, Receiving, StatusKept
  <2>7. \/ UNCHANGED claims
        \/ /\ e \in Receiving
           /\ claims' = claims \cup {[event |-> Len(log) + 1, beneficiary |-> org]}
    BY <2>3 DEF Reward
  <2>8. Moving(x, e, o, org, affected)
    BY <2>4, <2>5, <2>6, <2>7 DEF Moving
  <2> QED BY <2>8
<1>2. CASE SomeReview
  <2>1. PICK e, o, d, org : Record(e, o, d, org, "PENDING_REVIEW")
    BY <1>2 DEF SomeReview, ReceiveForReview
  <2> DEFINE x == [type |-> e, object |-> o, document |-> d, organization |-> org,
                   verification |-> "PENDING_REVIEW",
                   snapshots |-> Snapshots("VERIFY", o, {o}, parent[o]), links |-> {}]
  <2>2. Passing(x)
    BY <2>1 DEF Record, objectVars, Passing
  <2> QED BY <2>2
<1>3. CASE SomeVerify
  <2>1. PICK o, org : Record("VERIFY", o, None, org, "VERIFIED")
    BY <1>3 DEF SomeVerify, Verify
  <2> DEFINE x == [type |-> "VERIFY", object |-> o, document |-> None, organization |-> org,
                   verification |-> "VERIFIED",
                   snapshots |-> Snapshots("VERIFY", o, {o}, parent[o]), links |-> {}]
  <2>2. Passing(x)
    BY <2>1 DEF Record, objectVars, Passing, Receiving
  <2> QED BY <2>2
<1>4. CASE SomePack \/ SomeRepack \/ SomeUnpack
  <2>1. PICK e, o, d, org, p, links :
          e \in PackagingEvent /\ Apply(e, o, d, org, {o}, p, links)
    <3>1. CASE SomePack
      <4>1. PICK o, p \in Objects, d \in Documents, org \in Organizations : Pack(o, p, d, org)
        BY <3>1 DEF SomePack
      <4>2. Apply("PACKING", o, d, org, {o}, p, {[parent |-> p, action |-> "ADD"]})
        BY <4>1 DEF Pack
      <4>3. "PACKING" \in PackagingEvent
        BY DEF PackagingEvent
      <4> QED BY <4>2, <4>3, Zenon
    <3>2. CASE SomeRepack
      <4>1. PICK o, p \in Objects, d \in Documents, org \in Organizations : Repack(o, p, d, org)
        BY <3>2 DEF SomeRepack
      <4>2. Apply("REPACKING", o, d, org, {o}, p,
                  {[parent |-> parent[o], action |-> "DELETE"], [parent |-> p, action |-> "ADD"]})
        BY <4>1 DEF Repack
      <4>3. "REPACKING" \in PackagingEvent
        BY DEF PackagingEvent
      <4> QED BY <4>2, <4>3, Zenon
    <3>3. CASE SomeUnpack
      <4>1. PICK o \in Objects, d \in Documents, org \in Organizations : Unpack(o, d, org)
        BY <3>3 DEF SomeUnpack
      <4>2. Apply("UNPACKING", o, d, org, {o}, None, {[parent |-> parent[o], action |-> "DELETE"]})
        BY <4>1 DEF Unpack
      <4>3. "UNPACKING" \in PackagingEvent
        BY DEF PackagingEvent
      <4> QED BY <4>2, <4>3, Zenon
    <3> QED BY <1>4, <3>1, <3>2, <3>3
  <2> DEFINE x == [type |-> e, object |-> o, document |-> d, organization |-> org,
                   verification |-> "VERIFIED",
                   snapshots |-> Snapshots(e, o, {o}, p), links |-> links]
  <2>2. UNCHANGED claims
    BY <1>4 DEF SomePack, SomeRepack, SomeUnpack, Pack, Repack, Unpack
  <2>3. log' = Append(log, x) /\ x.type \notin Receiving
    BY <2>1 DEF Apply, Receiving, PackagingEvent
  <2>4. \A y \in Objects : status'[y] = "IN_TRANSIT" => status[y] = "IN_TRANSIT"
    BY <2>1 DEF Apply, nextObjectStatus, StatusKept, LeadsTo, PackagingEvent
  <2> HIDE DEF x
  <2>5. Passing(x)
    BY <2>2, <2>3, <2>4 DEF Passing
  <2> QED BY <2>5
<1>5. CASE RiskNext \/ SomePaper \/ UNCHANGED vars
  BY <1>5 DEF RiskNext, SomePaper, DecideRisk, vars, objectVars
<1> QED BY <1>1, <1>2, <1>3, <1>4, <1>5, StepCases

\* Every event keeps what is in transit on its way.
LEMMA TransitStep ==
  ASSUME TypeOK, TransitIsShipped, [Next]_vars
  PROVE  TransitIsShipped'
<1>1. CASE UNCHANGED <<log, status>>
  BY <1>1 DEF TransitIsShipped, OnItsWay, Moved, RowsOf
<1>2. PICK n \in Nat : n = Len(log) + 1
  <2>1. Len(log) \in Nat
    BY LenProperties DEF TypeOK
  <2> QED BY <2>1
<1>3. ASSUME NEW x, Passing(x), NEW y \in Objects, status'[y] = "IN_TRANSIT"
      PROVE  OnItsWay(y)'
  <2>1. log' = Append(log, x) /\ OnItsWay(y)
    BY <1>3 DEF Passing, TransitIsShipped
  <2>2. ~Moved(n, y, Receiving)'
    BY <1>2, <1>3, <2>1, PastKept DEF Passing
  <2> QED BY <1>2, <2>1, <2>2, WayStep
<1>4. ASSUME NEW x, NEW org, NEW affected, NEW e \in MovingEvent, NEW o \in Objects,
             Moving(x, e, o, org, affected), NEW y \in Objects, status'[y] = "IN_TRANSIT"
      PROVE  OnItsWay(y)'
  <2>1. /\ Happens(e, o, affected, parent[o], {}) /\ log' = Append(log, x)
        /\ x.type = e /\ x.verification = "VERIFIED"
    BY <1>4 DEF Moving
  <2>2. NextRows(n, y) # {} <=> y \in affected
    BY <1>2, <2>1, NewRows
  <2>3. CASE y \in affected
    <3>1. status'[y] = nextObjectStatus(e, status[y])
      BY <2>1, <2>3 DEF Happens
    <3>2. e = "SHIPPING"
      BY <1>4, <3>1 DEF nextObjectStatus, StatusKept, LeadsTo, MovingEvent
    <3>3. Moved(n, y, {"SHIPPING"})'
      BY <1>2, <2>1, <2>2, <2>3, <3>2, PastKept
    <3> QED BY <1>2, <2>1, <3>3, WayStep
  <2>4. CASE y \notin affected
    <3>1. status[y] = "IN_TRANSIT"
      BY <1>4, <2>1, <2>4 DEF Happens
    <3>2. OnItsWay(y) /\ ~Moved(n, y, Receiving)'
      BY <1>2, <2>1, <2>2, <2>4, <3>1, PastKept DEF TransitIsShipped
    <3> QED BY <1>2, <2>1, <3>2, WayStep
  <2> QED BY <2>3, <2>4
<1> QED BY <1>1, <1>3, <1>4, StepPasses DEF TransitIsShipped

\* Every claim, of before or new, answers a shipment.
LEMMA AnswerStep ==
  ASSUME AnswerInv, [Next]_vars
  PROVE  ClaimsAnswerShipments'
<1>1. /\ TypeOK /\ TransitIsShipped
      /\ \A c \in claims : c.event \in DOMAIN log /\ ShippedBefore(c.event, log[c.event].object)
  BY DEF AnswerInv, ClaimInv, ClaimsAreVerifiedReceipts, ClaimsAnswerShipments
<1>2. PICK n \in Nat : n = Len(log) + 1 /\ DOMAIN log = 1 .. (n - 1)
  <2>1. Len(log) \in Nat /\ DOMAIN log = 1 .. Len(log)
    BY <1>1, LenProperties DEF TypeOK
  <2> QED BY <2>1
<1>3. ASSUME NEW x, log' = Append(log, x), NEW c \in claims
      PROVE  \E y : y = log'[c.event].object /\ ShippedBefore(c.event, y)'
  <2>1. PICK y : y = log[c.event].object
    OBVIOUS
  <2>2. c.event \in 1 .. n /\ ShippedBefore(c.event, y)
    BY <1>1, <1>2, <2>1
  <2>3. log'[c.event] = log[c.event]
    BY <1>1, <1>3, Appended
  <2>4. \A i \in 1 .. n : ShippedBefore(i, y) => ShippedBefore(i, y)'
    BY <1>1, <1>2, <1>3, AnswersKept
  <2>5. PICK i \in 1 .. n : i = c.event
    BY <2>2
  <2>6. ShippedBefore(i, y)'
    BY <2>2, <2>4, <2>5
  <2> QED BY <2>1, <2>3, <2>5, <2>6
<1>4. ASSUME NEW x, NEW org, NEW affected, NEW e \in MovingEvent, NEW o \in Objects,
             Moving(x, e, o, org, affected), e \in Receiving
      PROVE  log'[n].object = o /\ ShippedBefore(n, o)'
  <2>1. log' = Append(log, x) /\ x.object = o /\ OnItsWay(o)
    BY <1>1, <1>4 DEF Moving, TransitIsShipped
  <2>2. log'[n] = x /\ n \in 1 .. n
    BY <1>1, <1>2, <2>1, Appended
  <2>3. ShippedBefore(n, o)'
    BY <1>1, <1>2, <2>1, <2>2, AnswersKept
  <2> QED BY <2>1, <2>2, <2>3
<1>5. SUFFICES \A c \in claims' : \E y : y = log'[c.event].object /\ ShippedBefore(c.event, y)'
  BY DEF ClaimsAnswerShipments
<1>6. CASE UNCHANGED <<log, status, claims>>
  BY <1>1, <1>6 DEF ShippedBefore, Moved, RowsOf
<1>7. CASE \E x : Passing(x)
  BY <1>3, <1>7 DEF Passing
<1>8. CASE \E x, org, affected : \E e \in MovingEvent, o \in Objects :
             Moving(x, e, o, org, affected)
  <2>0. PICK x, org, affected :
          \E e \in MovingEvent, o \in Objects : Moving(x, e, o, org, affected)
    BY <1>8
  <2>1. PICK e \in MovingEvent, o \in Objects : Moving(x, e, o, org, affected)
    BY <2>0
  <2>2. CASE UNCHANGED claims
    BY <1>3, <2>1, <2>2 DEF Moving
  <2>3. CASE /\ e \in Receiving
             /\ claims' = claims \cup {[event |-> Len(log) + 1, beneficiary |-> org]}
    <3>1. \A c \in claims' : c \in claims \/ c.event = n
      BY <1>2, <2>3
    <3>2. log'[n].object = o /\ ShippedBefore(n, o)'
      BY <1>4, <2>1, <2>3
    <3> QED BY <1>3, <2>1, <3>1, <3>2 DEF Moving
  <2> QED BY <2>1, <2>2, <2>3 DEF Moving
<1> QED BY <1>1, <1>6, <1>7, <1>8, StepPasses

\* Only a verified receipt is rewarded, to whoever received, nothing while it is reviewed, and
\* once for each shipment of the object, whatever is packed, shipped and received.
THEOREM ClaimsCorrect == Spec => []ClaimsSound
<1>1. Init => AnswerInv
  <2> SUFFICES ASSUME Init PROVE AnswerInv
    OBVIOUS
  <2>1. TypeOK
    BY TraceAssumption
       DEF Init, DocInit, TypeOK, DocTypeOK, DocumentStatus, Line, NoLine,
           Unfulfilled, Status, RiskStatus
  <2>2. ClaimInv
    BY <2>1 DEF Init, ClaimInv, ClaimsAreVerifiedReceipts, NoEarlyCase
  <2> QED BY <2>2 DEF Init, AnswerInv, TransitIsShipped, ClaimsAnswerShipments
<1>2. AnswerInv /\ [Next]_vars => AnswerInv'
  BY ClaimStep, TransitStep, AnswerStep DEF AnswerInv, ClaimInv
<1>3. AnswerInv => ClaimsSound
  BY DEF AnswerInv, ClaimInv, ClaimsSound
<1> QED BY <1>1, <1>2, <1>3, PTL DEF Spec
=============================================================================
