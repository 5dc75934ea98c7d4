------------------------- MODULE TraceTransactions -------------------------
(***************************************************************************)
(* The trace-event requests of TraceEvents as PostgreSQL transactions that *)
(* run concurrently under READ COMMITTED: each takes its row locks one by  *)
(* one in the order of the handler, works on the rows it read when it got  *)
(* the lock, and writes when it has them all.  TraceEvents takes every     *)
(* request for one step; this module says when that is justified.          *)
(*                                                                         *)
(* The tree of a container is found by one statement: its recursive part   *)
(* sees the relationships committed when the statement began, and only the *)
(* rows it found are then locked, from the top down.  A transaction that   *)
(* waits in a cycle is aborted by the database; any transaction may be lost*)
(* with its server process, which releases its locks.                      *)
(***************************************************************************)
EXTENDS TraceEvents

CONSTANTS
  Requests,  \* the bodies of concurrent trace-event requests
  IdOf       \* [Objects -> Nat], the primary keys rows are sorted by

Request == [type : EventType \ {"VERIFY"}, object : Objects,
            target : Objects \cup {None}, document : Documents,
            organization : Organizations]

Row == [status : Status, custodian : Organizations \cup {None},
        parent : Objects \cup {None}]

\* Before its transaction begins, a request has been checked against its schema,
\* which asks for the new parent, and its principal's capability.
ASSUME TransactionAssumption ==
  /\ Requests \subseteq Request
  /\ None \notin Requests \cup Row
  /\ IdOf \in [Objects -> Nat]
  /\ \A x, y \in Objects : IdOf[x] = IdOf[y] => x = y
  /\ \A t \in Requests : IF t.type \in {"PACKING", "REPACKING"}
       THEN t.target \in Objects /\ "PACKING" \in Capability[t.organization]
       ELSE t.type \in Capability[t.organization]

VARIABLES
  phase,   \* how far each transaction has come
  todo,    \* the rows a transaction has found and still has to lock
  row,     \* the object rows it has read under its locks, None if not read
  holder   \* which transaction holds the lock of an object or document row

transactionVars == <<phase, todo, row, holder>>

Phases == {"new", "object", "document", "rows", "committed", "refused", "aborted"}
Active == {t \in Requests : phase[t] \in {"object", "document", "rows"}}

TransactionInit ==
  /\ phase = [t \in Requests |-> "new"]
  /\ todo = [t \in Requests |-> {}]
  /\ row = [t \in Requests |-> [x \in Objects |-> None]]
  /\ holder = [r \in Objects \cup Documents |-> None]

RowOf(x) == [status |-> status[x], custodian |-> custodian[x], parent |-> parent[x]]

\* Rows are locked in this order: a tree from the top down, and by id; parents,
\* which are not below the object, by id.
Depth(o, x) == IF parent[x] = o THEN 1 ELSE 2
LockedBefore(o, x, y) ==
  \/ Depth(o, x) < Depth(o, y)
  \/ Depth(o, x) = Depth(o, y) /\ IdOf[x] < IdOf[y]

\* The row a transaction asks the lock of next, if any.
Wanted(t) ==
  CASE phase[t] = "new" -> {t.object}
    [] phase[t] = "object" -> {t.document}
    [] phase[t] = "rows" ->
         {x \in todo[t] : \A y \in todo[t] \ {x} : LockedBefore(t.object, x, y)}
    [] OTHER -> {}

WaitsFor(t, u) == t # u /\ \E r \in Wanted(t) : holder[r] = u
Deadlocked(t) ==
  \E S \in SUBSET Requests : t \in S /\ \A u \in S :
    (\E v \in S : WaitsFor(u, v)) /\ (\E v \in S : WaitsFor(v, u))

Lock(t, r) ==
  /\ holder[r] \in {None, t}
  /\ holder' = [holder EXCEPT ![r] = t]
Read(t, x) == row' = [row EXCEPT ![t][x] = RowOf(x)]
Release(t) ==
  /\ holder' = [r \in DOMAIN holder |-> IF holder[r] = t THEN None ELSE holder[r]]
  /\ todo' = [todo EXCEPT ![t] = {}]
  /\ row' = [row EXCEPT ![t] = [x \in Objects |-> None]]

-----------------------------------------------------------------------------
(* The steps of one transaction *)

LockObject(t) ==
  /\ phase[t] = "new"
  /\ Lock(t, t.object) /\ Read(t, t.object)
  /\ phase' = [phase EXCEPT ![t] = "object"]
  /\ UNCHANGED <<vars, todo>>

\* Mutant: the document is read without FOR UPDATE.
LockDocumentNot(t) ==
  /\ phase[t] = "object"
  /\ phase' = [phase EXCEPT ![t] = "document"]
  /\ UNCHANGED <<vars, todo, row, holder>>

LockDocument(t) ==
  /\ phase[t] = "object"
  /\ Lock(t, t.document)
  /\ phase' = [phase EXCEPT ![t] = "document"]
  /\ UNCHANGED <<vars, todo, row>>

\* Read under the locks of the object and its document.
Admitted(t) ==
  /\ DocumentAdmits(t.document, t.type, t.object, t.organization)
  /\ verificationForEvent(t.type, t.object, t.document, None, t.organization) = "VERIFIED"
  /\ ValidTransition(t.type, LevelOf[t.object], row[t][t.object].status)

\* The rows that the statements of the request lock: parents, or the tree.
RowsToLock(t) ==
  LET o == t.object
      current == row[t][o].parent
  IN CASE t.type = "PACKING" -> {t.target}
       [] t.type = "UNPACKING" /\ current # None -> {current}
       [] t.type = "REPACKING" /\ current # None -> {current, t.target}
       [] t.type \in MovingEvent /\ LevelOf[o] # "ITEM" -> Contents(o)
       [] OTHER -> {}

FindRows(t) ==
  /\ phase[t] = "document"
  /\ Admitted(t)
  /\ todo' = [todo EXCEPT ![t] = RowsToLock(t)]
  /\ phase' = [phase EXCEPT ![t] = "rows"]
  /\ UNCHANGED <<vars, row, holder>>

\* Mutant: the parents and the contents are read without FOR UPDATE.
LockRowNot(t) ==
  /\ phase[t] = "rows"
  /\ \E x \in Wanted(t) : Read(t, x) /\ todo' = [todo EXCEPT ![t] = @ \ {x}]
  /\ UNCHANGED <<vars, phase, holder>>

LockRow(t) ==
  /\ phase[t] = "rows"
  /\ \E x \in Wanted(t) :
       Lock(t, x) /\ Read(t, x) /\ todo' = [todo EXCEPT ![t] = @ \ {x}]
  /\ UNCHANGED <<vars, phase>>

ReadBy(t) == {x \in Objects : row[t][x] # None}
Affected(t) == IF t.type \in PackagingEvent THEN {t.object} ELSE ReadBy(t)

ParentAllowed(t) ==
  /\ ranks[LevelOf[t.target]] > ranks[LevelOf[t.object]]
  /\ row[t][t.target].status # "DESTROYED"
  /\ row[t][t.target].custodian \in {None, t.organization}
  /\ ExpectedLine(t.document, t.target)

\* What the handler still checks when it has read all its rows.
Accepted(t) ==
  LET current == row[t][t.object].parent
  IN CASE t.type = "PACKING" -> current = None /\ ParentAllowed(t)
       [] t.type = "UNPACKING" -> current # None /\ ExpectedLine(t.document, current)
       [] t.type = "REPACKING" ->
            /\ current \notin {None, t.target}
            /\ ParentAllowed(t) /\ ExpectedLine(t.document, current)
       [] OTHER ->
            \A x \in Affected(t) : ValidTransition(t.type, LevelOf[x], row[t][x].status)

ResultingParent(t) ==
  CASE t.type \in {"PACKING", "REPACKING"} -> t.target
    [] t.type = "UNPACKING" -> None
    [] OTHER -> row[t][t.object].parent

Links(t) ==
  (IF t.type \in {"PACKING", "REPACKING"}
   THEN {[parent |-> t.target, action |-> "ADD"]} ELSE {}) \cup
  (IF t.type \in {"UNPACKING", "REPACKING"}
   THEN {[parent |-> row[t][t.object].parent, action |-> "DELETE"]} ELSE {})

\* The inserts and updates, all computed from the rows read, and the COMMIT.
Commit(t) ==
  LET result(x) == nextObjectStatus(t.type, row[t][x].status)
  IN
  /\ phase[t] = "rows" /\ todo[t] = {}
  /\ Accepted(t)
  /\ Len(log) < MaxEvents
  /\ status' = [x \in Objects |-> IF x \in Affected(t) THEN result(x) ELSE status[x]]
  /\ custodian' = [x \in Objects |->
       IF x \in Affected(t) THEN t.organization ELSE custodian[x]]
  /\ parent' = [parent EXCEPT ![t.object] = ResultingParent(t)]
  /\ log' = Append(log,
       [type |-> t.type, object |-> t.object, document |-> t.document,
        organization |-> t.organization, verification |-> "VERIFIED",
        snapshots |->
          {[object |-> x, previous |-> row[t][x].status, resulting |-> result(x),
            parent |-> row[t][x].parent,
            resultingParent |->
              IF x = t.object THEN ResultingParent(t) ELSE row[t][x].parent]
             : x \in Affected(t)},
        links |-> Links(t)])
  /\ Fulfil(t.document, t.object, Len(log) + 1)
  /\ IF t.type \in Receiving THEN Reward(t.type, t.organization)
                             ELSE UNCHANGED <<risk, claims>>
  /\ Release(t)
  /\ phase' = [phase EXCEPT ![t] = "committed"]

\* A check fails: the error rolls the transaction back.
Refused(t) ==
  \/ phase[t] = "document" /\ ~Admitted(t)
  \/ phase[t] = "rows" /\ todo[t] = {} /\ ~Accepted(t)

\* Mutant: the error path forgets the ROLLBACK and gives the client back.
RefuseWithoutRollback(t) ==
  /\ Refused(t)
  /\ phase' = [phase EXCEPT ![t] = "refused"]
  /\ UNCHANGED <<vars, todo, row, holder>>

Refuse(t) ==
  /\ Refused(t)
  /\ Release(t)
  /\ phase' = [phase EXCEPT ![t] = "refused"]
  /\ UNCHANGED vars

\* The database ends a transaction: deadlock, lost connection, crashed server.
Abort(t) ==
  /\ t \in Active
  /\ Release(t)
  /\ phase' = [phase EXCEPT ![t] = "aborted"]
  /\ UNCHANGED vars

\* Clerks and approvers lock the document row for their whole transaction.
Paper ==
  /\ \E d \in Documents : holder[d] = None /\ DocumentRequest(d)
  /\ UNCHANGED <<objectVars, log, risk, claims, transactionVars>>

Proceed(t) ==
  \/ LockObject(t) \/ LockDocument(t) \/ FindRows(t) \/ LockRow(t)
  \/ Commit(t) \/ Refuse(t)

TransactionNext == (\E t \in Requests : Proceed(t) \/ Abort(t)) \/ Paper

\* A server process that can go on goes on, and the database ends a deadlock
\* after its deadlock_timeout.  Nothing says that clerks come, or that a
\* transaction is lost.
Fairness ==
  \A t \in Requests :
    /\ WF_<<vars, transactionVars>>(Proceed(t))
    /\ WF_<<vars, transactionVars>>(Deadlocked(t) /\ Abort(t))

TransactionSpec ==
  /\ Init /\ TransactionInit
  /\ [][TransactionNext]_<<vars, transactionVars>>
  /\ Fairness

-----------------------------------------------------------------------------
(* Properties *)

\* What a transaction has read is still so when it writes: nobody changes a row
\* between another's SELECT ... FOR UPDATE and its COMMIT.
RowsAreCurrent ==
  \A t \in Active, x \in Objects :
    row[t][x] # None => row[t][x] = RowOf(x) /\ holder[x] = t

\* The transactions implement the atomic requests: whatever the interleaving,
\* what the database commits are steps of TraceEvents.
Serializable == [][Next]_vars

\* Every request is answered although rows are locked in opposite orders, a
\* child before its parent and a container before its contents.
EveryRequestEnds ==
  \A t \in Requests : <>(phase[t] \in {"committed", "refused", "aborted"})
=============================================================================
