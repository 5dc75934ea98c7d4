---------------------- MODULE TraceTransactionsProofs ----------------------
(***************************************************************************)
(* The row-locking transactions of TraceTransactions implement the atomic  *)
(* requests of TraceEvents, for any requests, objects and documents, in    *)
(* any interleaving.                                                       *)
(***************************************************************************)
EXTENDS TraceTransactions, TraceEventsProofs

transactionsAndTables == <<vars, transactionVars>>

\* Only items are packed, so that trees have one generation: a second one would not
\* be held together by the lock of its root.
OnlyItemsPacked == \A x \in Objects : parent[x] # None => LevelOf[x] = "ITEM"

TransactionTypeOK ==
  /\ phase \in [Requests -> Phases]
  /\ todo \in [Requests -> SUBSET Objects]
  /\ row \in [Requests -> [Objects -> Row \cup {None}]]
  /\ holder \in [Objects \cup Documents -> Requests \cup {None}]

\* What a transaction knows: the rows it has read are as it read them, and locked, its
\* document still admits it, and what it has found is what there is to lock.
Held(t) ==
  /\ phase[t] \notin {"object", "document", "rows"} => todo[t] = {} /\ ReadBy(t) = {}
  /\ phase[t] \in {"object", "document"} => todo[t] = {} /\ ReadBy(t) = {t.object}
  /\ phase[t] \in {"document", "rows"} => holder[t.document] = t
  /\ phase[t] = "rows" => /\ Admitted(t)
                          /\ t.object \in ReadBy(t)
                          /\ ReadBy(t) \cup todo[t] = {t.object} \cup RowsToLock(t)
  /\ \A x \in ReadBy(t) : row[t][x] = RowOf(x) /\ holder[x] = t

TransactionInv ==
  /\ PackagingSound /\ OnlyItemsPacked
  /\ TransactionTypeOK
  /\ \A t \in Requests : Held(t)

-----------------------------------------------------------------------------
(* Lemmas *)

\* What a request is made of.
LEMMA RequestFields ==
  ASSUME NEW t \in Requests
  PROVE  /\ t # None
         /\ t.object \in Objects /\ t.document \in Documents
         /\ t.organization \in Organizations
         /\ t.target \in Objects \cup {None}
         /\ t.type \in EventType \ {"VERIFY"}
  BY TransactionAssumption DEF Request

\* A row as it is read, taken apart.
LEMMA RowType ==
  ASSUME TypeOK, NEW x \in Objects
  PROVE  /\ RowOf(x) \in Row /\ RowOf(x) # None
         /\ RowOf(x).status = status[x] /\ RowOf(x).custodian = custodian[x]
         /\ RowOf(x).parent = parent[x]
  BY TransactionAssumption DEF TypeOK, RowOf, Row

\* A container holds its children only, as these are items.
LEMMA OneGeneration ==
  TypeOK /\ PackagingRanked /\ OnlyItemsPacked =>
    \A o \in Objects : Contents(o) = {x \in Objects : parent[x] = o}
<1> SUFFICES ASSUME TypeOK, PackagingRanked, OnlyItemsPacked, NEW o \in Objects
             PROVE  Contents(o) = {x \in Objects : parent[x] = o}
  OBVIOUS
<1>1. ChildrenOf(ChildrenOf({o})) = {}
  <2> SUFFICES ASSUME NEW x \in Objects, NEW y \in Objects, parent[x] = y, parent[y] = o
               PROVE  FALSE
    BY DEF ChildrenOf
  <2>1. x # None /\ y # None /\ o # None
    BY DocumentAssumption
  <2>2. LevelOf[x] = "ITEM" /\ LevelOf[y] = "ITEM"
    BY <2>1 DEF OnlyItemsPacked
  <2>3. ranks[LevelOf[y]] > ranks[LevelOf[x]]
    BY <2>1 DEF PackagingRanked
  <2> QED BY <2>2, <2>3 DEF ranks, Level
<1> QED BY <1>1 DEF Contents, ChildrenOf

\* What one transaction does leaves another one as it was, when it keeps the rows and the
\* document that are locked and moves nothing into or out of what is read.
LEMMA Undisturbed ==
  ASSUME NEW t \in Requests, Held(t), TypeOK, TransactionTypeOK,
         phase'[t] = phase[t], todo'[t] = todo[t], row'[t] = row[t],
         \A r \in Objects \cup Documents : holder[r] = t => holder'[r] = t,
         \A x \in ReadBy(t) : RowOf(x)' = RowOf(x),
         phase[t] \in {"document", "rows"} =>
           docStatus'[t.document] = docStatus[t.document]
           /\ lines'[t.document] = lines[t.document],
         t.object \in ReadBy(t) => Contents(t.object)' = Contents(t.object)
  PROVE  Held(t)'
<1>1. t.object \in Objects /\ t.document \in Documents
  BY RequestFields
<1>2. ReadBy(t)' = ReadBy(t) /\ ReadBy(t) \subseteq Objects
  BY DEF ReadBy
<1>3. \A x \in ReadBy(t) : row'[t][x] = RowOf(x)' /\ holder'[x] = t
  BY <1>2 DEF Held
<1>4. phase[t] \in {"document", "rows"} => holder'[t.document] = t
  BY <1>1 DEF Held
<1>5. ASSUME phase[t] = "rows" PROVE Admitted(t)' /\ RowsToLock(t)' = RowsToLock(t)
  <2>1. t.object \in ReadBy(t) /\ Admitted(t)
    BY <1>5 DEF Held
  <2>2. custodian'[t.object] = custodian[t.object]
    BY <2>1 DEF RowOf
  <2>3. docStatus'[t.document] = docStatus[t.document]
        /\ lines'[t.document] = lines[t.document]
    BY <1>5
  <2>4. Admitted(t)'
    BY <2>1, <2>2, <2>3 DEF Admitted, DocumentAdmits, ExpectedAction, verificationForEvent
  <2>5. RowsToLock(t)' = RowsToLock(t)
    BY <2>1 DEF RowsToLock
  <2> QED BY <2>4, <2>5
<1> QED BY <1>2, <1>3, <1>4, <1>5 DEF Held

-----------------------------------------------------------------------------
(* The commit *)

\* What a transaction that commits has read is what there is, and all of what it moves.
LEMMA CommitReads ==
  ASSUME TransactionInv, NEW t \in Requests, Commit(t)
  PROVE  /\ t.object \in Affected(t) /\ Affected(t) \subseteq Objects
         /\ Admitted(t)
         /\ ReadBy(t) = {t.object} \cup RowsToLock(t)
         /\ \A x \in ReadBy(t) :
              /\ row[t][x] = RowOf(x) /\ holder[x] = t
              /\ row[t][x].status = status[x] /\ row[t][x].custodian = custodian[x]
              /\ row[t][x].parent = parent[x]
         /\ t.type \in MovingEvent =>
              Affected(t) = {t.object} \cup
                (IF LevelOf[t.object] # "ITEM" THEN Contents(t.object) ELSE {})
         /\ t.type \in PackagingEvent => Affected(t) = {t.object}
<1> USE RequestFields DEF TransactionInv
<1>1. Held(t) /\ phase[t] = "rows" /\ todo[t] = {}
  BY DEF Commit
<1>2. ReadBy(t) = {t.object} \cup RowsToLock(t) /\ Admitted(t)
      /\ \A x \in ReadBy(t) : row[t][x] = RowOf(x) /\ holder[x] = t
  BY <1>1 DEF Held
<1>3. ReadBy(t) \subseteq Objects
  BY DEF ReadBy
<1>4. \A x \in ReadBy(t) : /\ row[t][x].status = status[x]
                           /\ row[t][x].custodian = custodian[x]
                           /\ row[t][x].parent = parent[x]
  BY <1>2, <1>3, RowType DEF PackagingSound
<1>5. ASSUME t.type \in MovingEvent
      PROVE  RowsToLock(t) = IF LevelOf[t.object] # "ITEM" THEN Contents(t.object) ELSE {}
  BY <1>5 DEF RowsToLock, MovingEvent
<1>6. ASSUME t.type \in MovingEvent PROVE t.type \notin PackagingEvent
  BY <1>6 DEF MovingEvent, PackagingEvent
<1> QED BY <1>2, <1>3, <1>4, <1>5, <1>6 DEF Affected

\* The rows that are written are those that Apply of TraceEvents writes.
LEMMA CommitApplies ==
  ASSUME TransactionInv, NEW t \in Requests, Commit(t)
  PROVE  Apply(t.type, t.object, t.document, t.organization, Affected(t),
               ResultingParent(t), Links(t))
<1> DEFINE S == Affected(t)
<1>0. TypeOK
  BY DEF TransactionInv, PackagingSound
<1>1. S \subseteq ReadBy(t) /\ t.object \in S
  BY CommitReads DEF Affected
<1>2. \A x \in S : row[t][x].status = status[x] /\ row[t][x].parent = parent[x]
  BY <1>1, CommitReads
<1>3. status' = [x \in Objects |-> IF x \in S THEN nextObjectStatus(t.type, status[x])
                                            ELSE status[x]]
  BY <1>2 DEF Commit
<1>4. {[object |-> x, previous |-> row[t][x].status,
        resulting |-> nextObjectStatus(t.type, row[t][x].status),
        parent |-> row[t][x].parent,
        resultingParent |->
          IF x = t.object THEN ResultingParent(t) ELSE row[t][x].parent] : x \in S}
      = Snapshots(t.type, t.object, S, ResultingParent(t))
  BY <1>2 DEF Snapshots
<1> QED BY <1>3, <1>4 DEF Commit, Apply

\* A commit is one of the atomic requests.
LEMMA CommitIsRequest ==
  ASSUME TransactionInv, NEW t \in Requests, Commit(t)
  PROVE  Next
<1> DEFINE o == t.object  p == t.target  d == t.document  org == t.organization
<1>0. /\ Admitted(t) /\ o \in ReadBy(t)
      /\ ReadBy(t) = {o} \cup RowsToLock(t)
      /\ \A x \in ReadBy(t) : /\ row[t][x].status = status[x]
                              /\ row[t][x].custodian = custodian[x]
                              /\ row[t][x].parent = parent[x]
  BY CommitReads
<1>1. /\ o \in Objects /\ d \in Documents /\ org \in Organizations
      /\ t.type \in MovingEvent \cup PackagingEvent
  BY RequestFields DEF EventType
<1>2. Apply(t.type, o, d, org, Affected(t), ResultingParent(t), Links(t))
  BY CommitApplies
<1>3. /\ DocumentAdmits(d, t.type, o, org)
      /\ verificationForEvent(t.type, o, d, None, org) = "VERIFIED"
      /\ ValidTransition(t.type, LevelOf[o], status[o])
  BY <1>0 DEF Admitted
<1>4. Accepted(t)
  BY DEF Commit
<1>5. row[t][o].parent = parent[o]
  BY <1>0
<1>6. CASE t.type \in MovingEvent
  <2> DEFINE affected == {o} \cup (IF LevelOf[o] # "ITEM" THEN Contents(o) ELSE {})
  <2>1. Affected(t) = affected
    BY <1>6, CommitReads
  <2>2. t.type \notin PackagingEvent /\ t.type \notin {"PACKING", "REPACKING", "UNPACKING"}
    BY <1>6 DEF MovingEvent, PackagingEvent
  <2>3. \A x \in affected : ValidTransition(t.type, LevelOf[x], status[x])
    <3>1. affected = ReadBy(t)
      BY <2>1, <2>2 DEF Affected
    <3>2. \A x \in Affected(t) : ValidTransition(t.type, LevelOf[x], row[t][x].status)
      BY <1>4, <2>2 DEF Accepted
    <3> QED BY <1>0, <2>1, <3>1, <3>2
  <2>4. ResultingParent(t) = parent[o] /\ Links(t) = {}
    BY <1>5, <2>2 DEF ResultingParent, Links
  <2>5. Reward(t.type, org)
    BY DEF Commit, Reward
  <2>6. Move(t.type, o, d, None, org)
    BY <1>2, <1>3, <2>1, <2>3, <2>4, <2>5 DEF Move
  <2>7. t.type \in Capability[org]
    BY <2>2, TransactionAssumption
  <2> QED BY <1>1, <1>6, <2>6, <2>7 DEF Next, TraceNext
<1>7. CASE t.type \in PackagingEvent
  <2>1. Affected(t) = {o}
    BY <1>7, CommitReads
  <2>2. UNCHANGED <<risk, claims>>
    BY <1>7 DEF Commit, PackagingEvent, Receiving
  <2>3. CASE t.type = "PACKING"
    <3>1. p \in Objects /\ "PACKING" \in Capability[org]
      BY <2>3, TransactionAssumption
    <3>2. p \in ReadBy(t)
      BY <1>0, <2>3 DEF RowsToLock, MovingEvent
    <3>3. PackagingParent(o, p, org) /\ ExpectedLine(d, p) /\ parent[o] = None
      BY <1>4, <1>5, <2>3, <3>2, <1>0 DEF Accepted, ParentAllowed, PackagingParent
    <3>4. ResultingParent(t) = p /\ Links(t) = {[parent |-> p, action |-> "ADD"]}
      BY <2>3 DEF ResultingParent, Links
    <3>5. Pack(o, p, d, org)
      BY <1>2, <1>3, <2>1, <2>2, <2>3, <3>3, <3>4 DEF Pack
    <3> QED BY <1>1, <3>1, <3>5 DEF Next, TraceNext
  <2>4. CASE t.type = "UNPACKING"
    <3>1. "UNPACKING" \in Capability[org]
      BY <2>4, TransactionAssumption
    <3>2. parent[o] # None /\ ExpectedLine(d, parent[o])
      BY <1>4, <1>5, <2>4 DEF Accepted
    <3>3. ResultingParent(t) = None
          /\ Links(t) = {[parent |-> parent[o], action |-> "DELETE"]}
      BY <1>5, <2>4 DEF ResultingParent, Links
    <3>4. Unpack(o, d, org)
      BY <1>2, <1>3, <2>1, <2>2, <2>4, <3>2, <3>3 DEF Unpack
    <3> QED BY <1>1, <3>1, <3>4 DEF Next, TraceNext
  <2>5. CASE t.type = "REPACKING"
    <3>1. p \in Objects /\ "PACKING" \in Capability[org]
      BY <2>5, TransactionAssumption
    <3>2. parent[o] \notin {None, p} /\ ExpectedLine(d, parent[o]) /\ ParentAllowed(t)
      BY <1>4, <1>5, <2>5 DEF Accepted
    <3>3. p \in ReadBy(t)
      BY <1>0, <2>5, <3>2 DEF RowsToLock, MovingEvent
    <3>4. PackagingParent(o, p, org) /\ ExpectedLine(d, p)
      BY <1>0, <3>2, <3>3 DEF ParentAllowed, PackagingParent
    <3>5. ResultingParent(t) = p
          /\ Links(t) = {[parent |-> parent[o], action |-> "DELETE"],
                         [parent |-> p, action |-> "ADD"]}
      BY <1>5, <2>5 DEF ResultingParent, Links
    <3>6. Repack(o, p, d, org)
      BY <1>2, <1>3, <2>1, <2>2, <2>5, <3>2, <3>4, <3>5 DEF Repack
    <3> QED BY <1>1, <3>1, <3>6 DEF Next, TraceNext
  <2> QED BY <1>7, <2>3, <2>4, <2>5 DEF PackagingEvent
<1> QED BY <1>1, <1>6, <1>7

-----------------------------------------------------------------------------
(* What the others see of it *)

\* A packing takes an item, a repacking what was packed before, and nothing else changes
\* a parent but to none.
LEMMA OnlyItemsStep ==
  ASSUME TypeOK, OnlyItemsPacked, [Next]_vars
  PROVE  OnlyItemsPacked'
<1>1. CASE UNCHANGED parent
  BY <1>1 DEF OnlyItemsPacked
<1>2. CASE SomeMove
  <2>1. PICK e \in MovingEvent, o \in Objects, d \in Documents,
             s \in Shipments \cup {None}, org \in Organizations : Move(e, o, d, s, org)
    BY <1>2 DEF SomeMove
  <2>2. parent' = parent
    BY <2>1 DEF Move, Apply, TypeOK
  <2> QED BY <1>1, <2>2
<1>3. CASE SomePack
  <2>1. PICK o \in Objects, p \in Objects, d \in Documents, org \in Organizations :
               Pack(o, p, d, org)
    BY <1>3 DEF SomePack
  <2>2. parent' = [parent EXCEPT ![o] = p]
    BY <2>1 DEF Pack, Apply
  <2>3. LevelOf[o] \in Level /\ status[o] \in ValidFrom["PACKING"][LevelOf[o]]
    BY <2>1, TraceAssumption DEF Pack, ValidTransition, StatusKept
  <2>4. LevelOf[o] = "ITEM"
    BY <2>3 DEF ValidFrom, ItemOnly, Level
  <2> QED BY <2>2, <2>4 DEF OnlyItemsPacked, TypeOK
<1>4. CASE SomeRepack
  <2>1. PICK o \in Objects, p \in Objects, d \in Documents, org \in Organizations :
               Repack(o, p, d, org)
    BY <1>4 DEF SomeRepack
  <2>2. parent' = [parent EXCEPT ![o] = p] /\ parent[o] # None
    BY <2>1 DEF Repack, Apply
  <2> QED BY <2>2 DEF OnlyItemsPacked, TypeOK
<1>5. CASE SomeUnpack
  <2>1. PICK o \in Objects, d \in Documents, org \in Organizations : Unpack(o, d, org)
    BY <1>5 DEF SomeUnpack
  <2>2. parent' = [parent EXCEPT ![o] = None]
    BY <2>1 DEF Unpack, Apply
  <2> QED BY <2>2 DEF OnlyItemsPacked, TypeOK
<1>6. CASE SomeReview \/ SomeVerify \/ RiskNext \/ SomePaper \/ UNCHANGED vars
  BY <1>1, <1>6 DEF SomeReview, SomeVerify, RiskNext, SomePaper, ReceiveForReview, Verify,
                    Record, DecideRisk, vars, objectVars
<1> QED BY <1>2, <1>3, <1>4, <1>5, <1>6, StepCases

\* The parents between which an object is moved are locked.
LEMMA ParentsHeld ==
  ASSUME TransactionInv, NEW t \in Requests, Commit(t)
  PROVE  \/ ResultingParent(t) = parent[t.object]
         \/ /\ parent[t.object] \in {None} \cup ReadBy(t)
            /\ ResultingParent(t) \in {None} \cup ReadBy(t)
<1>1. /\ ReadBy(t) = {t.object} \cup RowsToLock(t)
      /\ row[t][t.object].parent = parent[t.object]
  BY CommitReads
<1>2. Accepted(t)
  BY DEF Commit
<1>3. CASE t.type = "PACKING"
  BY <1>1, <1>2, <1>3 DEF Accepted, ResultingParent, RowsToLock, MovingEvent
<1>4. CASE t.type = "UNPACKING"
  BY <1>1, <1>2, <1>4 DEF Accepted, ResultingParent, RowsToLock, MovingEvent
<1>5. CASE t.type = "REPACKING"
  BY <1>1, <1>2, <1>5 DEF Accepted, ResultingParent, RowsToLock, MovingEvent
<1>6. CASE t.type \notin {"PACKING", "UNPACKING", "REPACKING"}
  BY <1>1, <1>6 DEF ResultingParent
<1> QED BY <1>3, <1>4, <1>5, <1>6

\* A commit leaves what another transaction has locked.
LEMMA CommitAside ==
  ASSUME TransactionInv, NEW t \in Requests, Commit(t), PackagingSound', OnlyItemsPacked',
         NEW u \in Requests, u # t
  PROVE  Held(u)'
<1>1. Held(u) /\ Held(t) /\ TypeOK /\ TransactionTypeOK
  BY DEF TransactionInv, PackagingSound
<1>2. phase'[u] = phase[u] /\ todo'[u] = todo[u] /\ row'[u] = row[u]
  BY <1>1 DEF Commit, Release, TransactionTypeOK
<1>3. \A r \in Objects \cup Documents : holder[r] = u => holder'[r] = u
  BY <1>1 DEF Commit, Release, TransactionTypeOK
<1>4. \A x \in ReadBy(t) : holder[x] = t
  BY CommitReads
<1>5. ReadBy(u) \subseteq Objects /\ \A x \in ReadBy(u) : holder[x] = u
  BY <1>1 DEF Held, ReadBy
<1>6. t.object \in Affected(t) /\ Affected(t) \subseteq ReadBy(t)
  BY CommitReads DEF Affected
<1>7. \A x \in ReadBy(u) : RowOf(x)' = RowOf(x)
  <2> SUFFICES ASSUME NEW x \in ReadBy(u) PROVE RowOf(x)' = RowOf(x)
    OBVIOUS
  <2>1. x \notin Affected(t) /\ x # t.object /\ x \in Objects
    BY <1>4, <1>5, <1>6
  <2>2. status'[x] = status[x] /\ custodian'[x] = custodian[x] /\ parent'[x] = parent[x]
    BY <1>1, <2>1 DEF Commit, TypeOK
  <2> QED BY <2>2 DEF RowOf
<1>8. ASSUME phase[u] \in {"document", "rows"}
      PROVE  docStatus'[u.document] = docStatus[u.document]
             /\ lines'[u.document] = lines[u.document]
  <2>1. holder[u.document] = u /\ holder[t.document] = t
    BY <1>1, <1>8 DEF Held, Commit
  <2>2. u.document # t.document /\ u.document \in Documents
    BY <2>1, RequestFields
  <2> QED BY <1>1, <2>2 DEF Commit, Fulfil, TypeOK, DocTypeOK
<1>9. ASSUME u.object \in ReadBy(u)
      PROVE  Contents(u.object)' = Contents(u.object)
  <2>1. u.object \notin ReadBy(t) /\ u.object # None /\ u.object \in Objects
    BY <1>4, <1>5, <1>9, RequestFields, DocumentAssumption
  <2>2. \/ ResultingParent(t) = parent[t.object]
        \/ parent[t.object] # u.object /\ ResultingParent(t) # u.object
    BY <2>1, ParentsHeld
  <2>3. parent' = [parent EXCEPT ![t.object] = ResultingParent(t)]
        /\ parent \in [Objects -> Objects \cup {None}]
    BY <1>1 DEF Commit, TypeOK
  <2>4. \A x \in Objects : parent'[x] = u.object <=> parent[x] = u.object
    BY <2>2, <2>3
  <2>5. Contents(u.object) = {x \in Objects : parent[x] = u.object}
    BY <2>1, OneGeneration DEF TransactionInv, PackagingSound
  <2>6. Contents(u.object)' = {x \in Objects : parent'[x] = u.object}
    <3>1. TypeOK' /\ PackagingRanked'
      BY DEF PackagingSound
    <3>2. (TypeOK /\ PackagingRanked /\ OnlyItemsPacked =>
             \A o \in Objects : Contents(o) = {x \in Objects : parent[x] = o})'
      BY OneGeneration, PTL
    <3> QED BY <2>1, <3>1, <3>2
  <2> QED BY <2>4, <2>5, <2>6
<1> QED BY <1>1, <1>2, <1>3, <1>7, <1>8, <1>9, Undisturbed

\* Nor does a step that writes no table disturb it.
LEMMA StepAside ==
  ASSUME TransactionInv, UNCHANGED vars, NEW u \in Requests,
         phase'[u] = phase[u], todo'[u] = todo[u], row'[u] = row[u],
         \A r \in Objects \cup Documents : holder[r] = u => holder'[r] = u
  PROVE  Held(u)'
<1>1. Held(u) /\ TypeOK /\ TransactionTypeOK
  BY DEF TransactionInv, PackagingSound
<1>2. \A x \in ReadBy(u) : RowOf(x)' = RowOf(x)
  BY DEF vars, objectVars, RowOf
<1>3. docStatus' = docStatus /\ lines' = lines
  BY DEF vars, docVars
<1>4. Contents(u.object)' = Contents(u.object)
  BY DEF vars, objectVars, Contents, ChildrenOf
<1> QED BY <1>1, <1>2, <1>3, <1>4, Undisturbed

\* A clerk or an approver changes a document that no transaction has locked.
LEMMA PaperAside ==
  ASSUME TransactionInv, Paper, NEW u \in Requests
  PROVE  Held(u)'
<1>1. Held(u) /\ TypeOK /\ TransactionTypeOK /\ DocTypeOK
  BY DEF TransactionInv, PackagingSound, TypeOK
<1>2. PICK d \in Documents : holder[d] = None /\ DocumentRequest(d)
  BY DEF Paper
<1>3. UNCHANGED <<status, custodian, parent, phase, todo, row, holder>>
  BY DEF Paper, objectVars, transactionVars
<1>4. \A x \in Documents : x # d => docStatus'[x] = docStatus[x] /\ lines'[x] = lines[x]
  BY <1>1, <1>2 DEF DocumentRequest, CreateDocument, AddObject, RemoveObject,
                    TransitionDocument, DocTypeOK
<1>5. ASSUME phase[u] \in {"document", "rows"}
      PROVE  u.document # d /\ u.document \in Documents
  BY <1>1, <1>2, <1>5, RequestFields DEF Held
<1>6. \A x \in ReadBy(u) : RowOf(x)' = RowOf(x)
  BY <1>3 DEF RowOf
<1>7. Contents(u.object)' = Contents(u.object)
  BY <1>3 DEF Contents, ChildrenOf
<1> QED BY <1>1, <1>3, <1>4, <1>5, <1>6, <1>7, Undisturbed

-----------------------------------------------------------------------------
(* The invariant is inductive *)

\* What a transaction still has to lock are rows of objects.
LEMMA RowsToLockType ==
  ASSUME TypeOK, TransactionTypeOK, NEW t \in Requests, t.object \in ReadBy(t)
  PROVE  RowsToLock(t) \subseteq Objects
<1>1. row[t][t.object] \in Row
  BY RequestFields DEF TransactionTypeOK, ReadBy
<1>2. row[t][t.object].parent \in Objects \cup {None}
  BY <1>1 DEF Row
<1>3. CASE t.type \in {"PACKING", "REPACKING"}
  <2>1. t.target \in Objects
    BY <1>3, TransactionAssumption
  <2> QED BY <1>2, <1>3, <2>1 DEF RowsToLock, MovingEvent
<1>4. CASE t.type = "UNPACKING"
  BY <1>2, <1>4 DEF RowsToLock, MovingEvent
<1>5. CASE t.type \notin {"PACKING", "REPACKING", "UNPACKING"}
  BY <1>5 DEF RowsToLock, Contents, ChildrenOf
<1> QED BY <1>3, <1>4, <1>5

\* A transaction that ends holds nothing any more.
LEMMA Ended ==
  ASSUME TransactionTypeOK, NEW t \in Requests, Release(t),
         NEW p \in {"committed", "refused", "aborted"}, phase' = [phase EXCEPT ![t] = p]
  PROVE  TransactionTypeOK' /\ Held(t)'
<1>1. TransactionTypeOK'
  BY DEF TransactionTypeOK, Release, Phases
<1>2. phase'[t] = p /\ todo'[t] = {} /\ ReadBy(t)' = {}
  BY DEF TransactionTypeOK, Release, ReadBy
<1> QED BY <1>1, <1>2 DEF Held

\* A transaction that begins knows its object's row.
LEMMA LockObjectStep ==
  ASSUME TransactionInv, NEW t \in Requests, LockObject(t)
  PROVE  TransactionTypeOK' /\ Held(t)'
<1>1. /\ Held(t) /\ TypeOK /\ TransactionTypeOK
      /\ t.object \in Objects /\ RowOf(t.object) \in Row /\ RowOf(t.object) # None
  BY RequestFields, RowType DEF TransactionInv, PackagingSound
<1>2. /\ phase' = [phase EXCEPT ![t] = "object"] /\ todo' = todo
      /\ row' = [row EXCEPT ![t][t.object] = RowOf(t.object)]
      /\ holder' = [holder EXCEPT ![t.object] = t]
      /\ RowOf(t.object)' = RowOf(t.object)
  BY DEF LockObject, Lock, Read, RowOf, vars, objectVars
<1>3. TransactionTypeOK'
  BY <1>1, <1>2 DEF TransactionTypeOK, Phases
<1>4. ReadBy(t) = {} /\ todo[t] = {}
  BY <1>1 DEF Held, LockObject
<1>5. /\ phase'[t] = "object" /\ todo'[t] = {} /\ holder'[t.object] = t
      /\ row'[t][t.object] = RowOf(t.object)
      /\ \A x \in Objects \ {t.object} : row'[t][x] = row[t][x]
  BY <1>1, <1>2, <1>4 DEF TransactionTypeOK
<1>6. ReadBy(t)' = {t.object}
  BY <1>1, <1>4, <1>5 DEF ReadBy
<1> QED BY <1>2, <1>3, <1>5, <1>6 DEF Held

\* With the lock of its document it knows that no clerk changes it.
LEMMA LockDocumentStep ==
  ASSUME TransactionInv, NEW t \in Requests, LockDocument(t)
  PROVE  TransactionTypeOK' /\ Held(t)'
<1>1. /\ Held(t) /\ TransactionTypeOK /\ t.document \in Documents
  BY RequestFields DEF TransactionInv
<1>2. /\ phase[t] = "object" /\ phase' = [phase EXCEPT ![t] = "document"]
      /\ todo' = todo /\ row' = row /\ holder' = [holder EXCEPT ![t.document] = t]
      /\ UNCHANGED <<status, custodian, parent>>
  BY DEF LockDocument, Lock, vars, objectVars
<1>3. TransactionTypeOK'
  BY <1>1, <1>2 DEF TransactionTypeOK, Phases
<1>4. ReadBy(t)' = ReadBy(t) /\ ReadBy(t) \subseteq Objects
  BY <1>2 DEF ReadBy
<1>5. \A x \in ReadBy(t) : row'[t][x] = RowOf(x)' /\ holder'[x] = t
  BY <1>1, <1>2, <1>4 DEF Held, RowOf, TransactionTypeOK
<1>6. phase'[t] = "document" /\ holder'[t.document] = t
  BY <1>1, <1>2 DEF TransactionTypeOK
<1> QED BY <1>1, <1>2, <1>3, <1>4, <1>5, <1>6 DEF Held

\* Admitted, it has found all the rows it needs, locked or not.
LEMMA FindRowsStep ==
  ASSUME TransactionInv, NEW t \in Requests, FindRows(t)
  PROVE  TransactionTypeOK' /\ Held(t)'
<1>1. /\ Held(t) /\ TypeOK /\ TransactionTypeOK /\ ReadBy(t) = {t.object}
  BY DEF TransactionInv, PackagingSound, Held, FindRows
<1>2. /\ phase[t] = "document" /\ phase' = [phase EXCEPT ![t] = "rows"]
      /\ todo' = [todo EXCEPT ![t] = RowsToLock(t)] /\ row' = row /\ holder' = holder
      /\ UNCHANGED <<docStatus, lines, status, custodian, parent>>
      /\ Admitted(t)
  BY DEF FindRows, vars, objectVars, docVars
<1>3. RowsToLock(t) \subseteq Objects
  BY <1>1, RowsToLockType
<1>4. TransactionTypeOK'
  BY <1>1, <1>2, <1>3 DEF TransactionTypeOK, Phases
<1>5. phase'[t] = "rows" /\ todo'[t] = RowsToLock(t)
  BY <1>1, <1>2 DEF TransactionTypeOK
<1>6. RowsToLock(t)' = RowsToLock(t) /\ ReadBy(t)' = {t.object}
  BY <1>1, <1>2 DEF RowsToLock, ReadBy, Contents, ChildrenOf
<1>7. Admitted(t)'
  BY <1>2 DEF Admitted, DocumentAdmits, ExpectedAction, verificationForEvent
<1>8. \A x \in ReadBy(t) : row'[t][x] = RowOf(x)' /\ holder'[x] = t
  BY <1>1, <1>2 DEF Held, RowOf
<1>9. holder'[t.document] = t
  BY <1>1, <1>2 DEF Held
<1> QED BY <1>1, <1>4, <1>5, <1>6, <1>7, <1>8, <1>9 DEF Held

\* A row it has found is read as it is, and is still one of those it needs.
LEMMA LockRowStep ==
  ASSUME TransactionInv, NEW t \in Requests, LockRow(t)
  PROVE  TransactionTypeOK' /\ Held(t)'
<1>1. /\ Held(t) /\ TypeOK /\ TransactionTypeOK /\ phase[t] = "rows"
      /\ t.object \in Objects
  BY RequestFields DEF TransactionInv, PackagingSound, LockRow
<1>2. PICK z \in Wanted(t) : Lock(t, z) /\ Read(t, z) /\ todo' = [todo EXCEPT ![t] = @ \ {z}]
  BY DEF LockRow
<1>3. z \in todo[t] /\ z \in Objects
  BY <1>1, <1>2 DEF Wanted, TransactionTypeOK
<1>4. RowOf(z) \in Row /\ RowOf(z) # None
  BY <1>1, <1>3, RowType
<1>5. /\ phase' = phase /\ row' = [row EXCEPT ![t][z] = RowOf(z)]
      /\ holder' = [holder EXCEPT ![z] = t]
      /\ UNCHANGED <<docStatus, lines, status, custodian, parent>>
  BY <1>2 DEF LockRow, Lock, Read, vars, objectVars, docVars
<1>6. TransactionTypeOK'
  BY <1>1, <1>2, <1>3, <1>4, <1>5 DEF TransactionTypeOK
<1>7. /\ \A x \in Objects : row'[t][x] = IF x = z THEN RowOf(z) ELSE row[t][x]
      /\ todo'[t] = todo[t] \ {z}
      /\ \A r \in Objects \cup Documents : holder[r] = t \/ r = z => holder'[r] = t
  BY <1>1, <1>2, <1>3, <1>5 DEF TransactionTypeOK
<1>8. ReadBy(t)' = ReadBy(t) \cup {z}
  BY <1>3, <1>4, <1>7 DEF ReadBy
<1>9. \A x \in ReadBy(t)' : row'[t][x] = RowOf(x)' /\ holder'[x] = t
  <2>1. \A x \in Objects : RowOf(x)' = RowOf(x)
    BY <1>5 DEF RowOf
  <2>2. \A x \in ReadBy(t) : x \in Objects /\ row[t][x] = RowOf(x) /\ holder[x] = t
    BY <1>1 DEF Held, ReadBy
  <2> QED BY <1>3, <1>7, <1>8, <2>1, <2>2
<1>10. t.object \in ReadBy(t) /\ row'[t][t.object] = row[t][t.object]
  BY <1>1, <1>7 DEF Held
<1>11. RowsToLock(t)' = RowsToLock(t)
  BY <1>5, <1>10 DEF RowsToLock, Contents, ChildrenOf
<1>12. Admitted(t)'
  <2>1. Admitted(t)
    BY <1>1 DEF Held
  <2> QED BY <1>5, <1>10, <2>1
          DEF Admitted, DocumentAdmits, ExpectedAction, verificationForEvent
<1>13. holder'[t.document] = t
  BY <1>1, <1>7, RequestFields DEF Held
<1>14. ReadBy(t)' \cup todo'[t] = {t.object} \cup RowsToLock(t)
  BY <1>1, <1>3, <1>7, <1>8 DEF Held
<1> QED BY <1>1, <1>5, <1>6, <1>8, <1>9, <1>10, <1>11, <1>12, <1>13, <1>14 DEF Held

\* Every step of a transaction is an atomic request or changes no table, and keeps the
\* invariant.
LEMMA TransactionStep ==
  ASSUME TransactionInv, [TransactionNext]_transactionsAndTables
  PROVE  TransactionInv' /\ [Next]_vars
<1> USE DEF TransactionInv
<1>1. TypeOK /\ PackagingSound
  BY DEF PackagingSound
<1>2. ASSUME NEW t \in Requests, Commit(t)
      PROVE  TransactionInv' /\ [Next]_vars
  <2>1. Next
    BY <1>2, CommitIsRequest
  <2>2. PackagingSound' /\ OnlyItemsPacked'
    BY <1>1, <2>1, PackagingStep, OnlyItemsStep
  <2>3. TransactionTypeOK' /\ Held(t)'
    BY <1>2, Ended DEF Commit
  <2>4. \A u \in Requests \ {t} : Held(u)'
    BY <1>2, <2>2, CommitAside
  <2> QED BY <2>1, <2>2, <2>3, <2>4
<1>3. ASSUME UNCHANGED vars PROVE PackagingSound' /\ OnlyItemsPacked' /\ [Next]_vars
  <2>1. [Next]_vars
    BY <1>3
  <2> QED BY <1>1, <2>1, PackagingStep, OnlyItemsStep
<1>4. ASSUME NEW t \in Requests, LockObject(t) \/ LockDocument(t) \/ FindRows(t)
                                 \/ LockRow(t) \/ Refuse(t) \/ Abort(t)
      PROVE  TransactionInv' /\ [Next]_vars
  <2>1. UNCHANGED vars
    BY <1>4 DEF LockObject, LockDocument, FindRows, LockRow, Refuse, Abort
  <2>2. TransactionTypeOK' /\ Held(t)'
    <3>1. CASE LockObject(t)
      BY <3>1, LockObjectStep
    <3>2. CASE LockDocument(t)
      BY <3>2, LockDocumentStep
    <3>3. CASE FindRows(t)
      BY <3>3, FindRowsStep
    <3>4. CASE LockRow(t)
      BY <3>4, LockRowStep
    <3>5. CASE Refuse(t)
      BY <3>5, Ended DEF Refuse
    <3>6. CASE Abort(t)
      BY <3>6, Ended DEF Abort
    <3> QED BY <1>4, <3>1, <3>2, <3>3, <3>4, <3>5, <3>6
  <2>3. ASSUME NEW u \in Requests, u # t PROVE Held(u)'
    <3>1. phase'[u] = phase[u] /\ todo'[u] = todo[u] /\ row'[u] = row[u]
      BY <1>4, <2>3 DEF LockObject, LockDocument, FindRows, LockRow, Refuse, Abort, Read,
                        Release, TransactionTypeOK
    <3>2. \A r \in Objects \cup Documents : holder[r] = u => holder'[r] = u
      BY <1>4, <2>3, RequestFields
         DEF LockObject, LockDocument, FindRows, LockRow, Refuse, Abort, Lock, Release,
             TransactionTypeOK
    <3> QED BY <2>1, <2>3, <3>1, <3>2, StepAside
  <2> QED BY <1>3, <2>1, <2>2, <2>3
<1>5. CASE Paper
  <2>1. Next
    BY <1>5 DEF Paper, Next, DocNext
  <2>2. PackagingSound' /\ OnlyItemsPacked'
    BY <1>1, <2>1, PackagingStep, OnlyItemsStep
  <2>3. TransactionTypeOK'
    BY <1>5 DEF Paper, transactionVars, TransactionTypeOK
  <2>4. \A u \in Requests : Held(u)'
    BY <1>5, PaperAside
  <2> QED BY <2>1, <2>2, <2>3, <2>4
<1>6. CASE UNCHANGED transactionsAndTables
  <2>1. UNCHANGED vars /\ UNCHANGED <<phase, todo, row, holder>>
    BY <1>6 DEF transactionsAndTables, transactionVars
  <2>2. \A u \in Requests : Held(u)'
    BY <2>1, StepAside
  <2>3. TransactionTypeOK'
    BY <2>1 DEF TransactionTypeOK
  <2> QED BY <1>3, <2>1, <2>2, <2>3
<1> QED BY <1>2, <1>4, <1>5, <1>6 DEF TransactionNext, Proceed

\* Before the first request nothing is locked or read.
LEMMA TransactionStart ==
  ASSUME Init, TransactionInit
  PROVE  TransactionInv
<1>1. PackagingSound
  BY PackagingStart
<1>2. OnlyItemsPacked
  BY DEF Init, OnlyItemsPacked
<1>3. TransactionTypeOK
  BY DEF TransactionInit, TransactionTypeOK, Phases
<1>4. \A t \in Requests : Held(t)
  BY DEF TransactionInit, Held, ReadBy
<1> QED BY <1>1, <1>2, <1>3, <1>4 DEF TransactionInv

-----------------------------------------------------------------------------

\* Nobody changes a row between the SELECT ... FOR UPDATE of another request and its COMMIT,
\* whatever the requests.
THEOREM ReadsStayCurrent == TransactionSpec => []RowsAreCurrent
<1>1. Init /\ TransactionInit => TransactionInv
  BY TransactionStart
<1>2. TransactionInv /\ [TransactionNext]_transactionsAndTables => TransactionInv'
  BY TransactionStep
<1>3. TransactionInv => RowsAreCurrent
  BY DEF TransactionInv, Held, RowsAreCurrent, Active, ReadBy
<1> QED BY <1>1, <1>2, <1>3, PTL DEF TransactionSpec, transactionsAndTables

\* The handler's row locks, taken one by one and in an order that can deadlock, and a tree
\* that is found before it is locked, serialize the requests: whatever the interleaving,
\* each commit is a step of TraceEvents.
THEOREM TransactionsSerialize == TransactionSpec => Serializable
<1>1. Init /\ TransactionInit => TransactionInv
  BY TransactionStart
<1>2. TransactionInv /\ [TransactionNext]_transactionsAndTables => TransactionInv' /\ [Next]_vars
  BY TransactionStep
<1> QED BY <1>1, <1>2, PTL DEF TransactionSpec, transactionsAndTables, Serializable

\* So the transactions implement TraceEvents, and what is proved of its requests is true of
\* what concurrent transactions commit.
THEOREM TransactionsImplementRequests ==
  TransactionSpec =>
    /\ Spec
    /\ [](PackagingSound /\ DocumentsSound /\ SnapshotsSound)
    /\ [](AggregationsTellTheParents /\ ClaimsSound)
    /\ ContainersMoveWhole /\ ApprovedLinesFrozen
<1>1. TransactionSpec => Spec
  BY TransactionsSerialize, PTL DEF TransactionSpec, Spec, Serializable
<1> QED BY <1>1, PackagingCorrect, DocumentsCorrect, SnapshotsCorrect, AggregationsCorrect,
           ClaimsCorrect, ContainersCorrect, LinesFrozen, PTL
=============================================================================
