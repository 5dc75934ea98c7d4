-------------------------- MODULE DeliveriesProofs --------------------------
(***************************************************************************)
(* What is done was received, a row has one holder within the leases, and  *)
(* what is settled stays settled, for any rows, endpoints, workers, people *)
(* and deployments, and any limits on attempts, replays and crashes.       *)
(***************************************************************************)
EXTENDS Deliveries, FiniteSetTheorems, TLAPS

Holders(r) == {w \in Workers : work[w].row = r}

\* The attempts of a row, which late failures raise above the limit, by a worker each.
Counted(r) ==
  /\ rows[r].state = "absent" => rows[r].attempts = 0
  /\ rows[r].state = "waiting" => rows[r].attempts < MaxAttempts
  /\ rows[r].state = "dead" => rows[r].attempts >= MaxAttempts
  /\ rows[r].attempts + Cardinality(Holders(r)) <= MaxAttempts + Cardinality(Workers)

\* Who believes that the other side has a row is right.
Believed ==
  /\ \A w \in Workers : work[w].outcome = "ok" => work[w].row \in received \cup Silent
  /\ \A r \in Rows \ Silent : rows[r].state = "done" => r \in received

\* Without a lost lease, what is in hand waits under its lease, in one hand, and what is to
\* be replayed is a dead letter.
Leased ==
  /\ \A w \in Workers : work[w].row # None =>
       rows[work[w].row].lease = "held" /\ rows[work[w].row].state = "waiting"
  /\ \A v, w \in Workers : work[v].row = work[w].row /\ work[v].row # None => v = w
  /\ \A r \in Rows : pending[r] # None => rows[r].state = "dead"

RowRecords == [state : {"absent", "waiting", "done", "dead"}, attempts : Nat,
               lease : {"free", "held", "expired"}, due : BOOLEAN]

DeliveryTypes ==
  /\ deployed \in Deployments
  /\ rows \in [Rows -> RowRecords]
  /\ active \subseteq Endpoints
  /\ work \in [Workers -> Job \cup {Idle}]
  /\ received \subseteq Rows
  /\ pending \in [Rows -> People \cup {None}] /\ \A r \in Exports : pending[r] = None
  /\ replays \in 0 .. MaxReplays /\ crashes \in 0 .. MaxCrashes
  /\ lapsed \in BOOLEAN

DeliveryInv ==
  /\ DeliveryTypes
  /\ \A r \in Rows : Counted(r)
  /\ Believed
  /\ ~lapsed => Leased

-----------------------------------------------------------------------------
(* Holders *)

LEMMA HoldersFinite ==
  ASSUME NEW r
  PROVE  /\ IsFiniteSet(Workers) /\ IsFiniteSet(Holders(r))
         /\ Cardinality(Holders(r)) \in Nat /\ Cardinality(Workers) \in Nat
         /\ Cardinality(Holders(r)) <= Cardinality(Workers)
<1>1. IsFiniteSet(Workers) /\ Holders(r) \in SUBSET Workers
  BY DeliveryAssumption DEF DeliveryAssumption, Holders
<1> QED BY <1>1, FS_Subset, FS_CardinalityType

\* A worker that lets go of its row.
LEMMA LettingGo ==
  ASSUME DeliveryTypes, NEW w \in Workers, work' = [work EXCEPT ![w] = Idle], NEW r \in Rows
  PROVE  /\ Cardinality(Holders(r)') \in Nat /\ Cardinality(Holders(r)) \in Nat
         /\ Cardinality(Holders(r)') <= Cardinality(Holders(r))
         /\ work[w].row = r => Cardinality(Holders(r)') = Cardinality(Holders(r)) - 1
<1>1. Holders(r)' = Holders(r) \ {w}
  BY DeliveryAssumption DEF DeliveryAssumption, Holders, DeliveryTypes, Idle
<1>2. IsFiniteSet(Holders(r)) /\ Cardinality(Holders(r)) \in Nat
  BY HoldersFinite
<1>3. Cardinality(Holders(r) \ {w}) = IF w \in Holders(r) THEN Cardinality(Holders(r)) - 1
                                      ELSE Cardinality(Holders(r))
  BY <1>2, FS_RemoveElement
<1>4. IsFiniteSet(Holders(r) \ {w})
  BY <1>2, FS_RemoveElement
<1>5. Cardinality(Holders(r) \ {w}) \in Nat
  BY <1>4, FS_CardinalityType
<1>6. work[w].row = r => w \in Holders(r)
  BY DEF Holders
<1> QED BY <1>1, <1>2, <1>3, <1>5, <1>6

\* Rows that keep their state and attempts, while nobody takes one.
LEMMA CountedStays ==
  ASSUME DeliveryInv, NEW r \in Rows, rows'[r].state = rows[r].state,
         rows'[r].attempts = rows[r].attempts, rows[r].attempts \in Nat,
         Cardinality(Holders(r)') <= Cardinality(Holders(r)), Cardinality(Holders(r)') \in Nat
  PROVE  Counted(r)'
<1>1. Cardinality(Holders(r)) \in Nat /\ Cardinality(Workers) \in Nat /\ MaxAttempts \in Nat
  BY HoldersFinite, DeliveryAssumption DEF DeliveryAssumption
<1> QED BY <1>1 DEF DeliveryInv, Counted

LEMMA SameHolders ==
  ASSUME NEW r, \A w \in Workers : work'[w].row = work[w].row
  PROVE  Holders(r)' = Holders(r)
BY DEF Holders

-----------------------------------------------------------------------------
(* One step of each action *)

LEMMA InitHolds == DeliveriesInit => DeliveryInv
<1> SUFFICES ASSUME DeliveriesInit PROVE DeliveryInv
  OBVIOUS
<1>1. DeliveryTypes
  <2>1. rows \in [Rows -> RowRecords] /\ work \in [Workers -> Job \cup {Idle}]
        /\ pending \in [Rows -> People \cup {None}] /\ \A r \in Exports : pending[r] = None
    BY DEF DeliveriesInit, RowRecords, Rows
  <2>2. replays \in 0 .. MaxReplays /\ crashes \in 0 .. MaxCrashes
    BY DeliveryAssumption DEF DeliveriesInit, DeliveryAssumption
  <2> QED BY <2>1, <2>2 DEF DeliveriesInit, DeliveryTypes
<1>2. ASSUME NEW r \in Rows PROVE Counted(r)
  <2>1. Cardinality(Holders(r)) <= Cardinality(Workers)
        /\ Cardinality(Holders(r)) \in Nat /\ Cardinality(Workers) \in Nat
    BY HoldersFinite
  <2> QED BY <2>1, DeliveryAssumption DEF DeliveriesInit, Counted, DeliveryAssumption
<1>3. Believed
  BY DEF DeliveriesInit, Believed, Idle
<1>4. Leased
  BY DEF DeliveriesInit, Leased, Idle
<1> QED BY <1>1, <1>2, <1>3, <1>4 DEF DeliveryInv

\* One row is set anew, by no worker: enqueued, or replayed.
LEMMA RowAnew ==
  ASSUME DeliveryInv, NEW r \in Rows, NEW x \in RowRecords,
         rows' = [rows EXCEPT ![r] = x], x.attempts = 0,
         x.state = "waiting" \/ (x.state = "done" /\ rows[r].state = "done"),
         rows[r].state \in {"absent", "dead"} \/ pending[r] # None,
         pending' = pending \/ pending' = [pending EXCEPT ![r] = None],
         replays' \in 0 .. MaxReplays,
         ~lapsed => pending'[r] = None,
         UNCHANGED <<deployed, active, work, received, crashes, lapsed>>
  PROVE  DeliveryInv'
<1>0. rows'[r] = x /\ (\A s \in Rows \ {r} : rows'[s] = rows[s])
      /\ \A s \in Rows \ {r} : pending'[s] = pending[s]
  BY DEF DeliveryInv, DeliveryTypes
<1>1. DeliveryTypes'
  <2>1. rows' \in [Rows -> RowRecords] /\ pending' \in [Rows -> People \cup {None}]
    BY DEF DeliveryInv, DeliveryTypes
  <2>2. \A s \in Exports : pending'[s] = None
    BY DEF DeliveryInv, DeliveryTypes, Rows
  <2> QED BY <2>1, <2>2 DEF DeliveryInv, DeliveryTypes
<1>2. ASSUME NEW s \in Rows PROVE Counted(s)'
  <2>1. Holders(s)' = Holders(s) /\ Cardinality(Holders(s)) \in Nat
        /\ Cardinality(Holders(s)) <= Cardinality(Workers) /\ Cardinality(Workers) \in Nat
    BY HoldersFinite, SameHolders
  <2>2. CASE s = r
    BY <1>0, <2>1, <2>2, DeliveryAssumption DEF Counted, DeliveryAssumption
  <2>3. CASE s # r
    BY <1>0, <2>1, <2>3, CountedStays DEF DeliveryInv, DeliveryTypes, RowRecords
  <2> QED BY <2>2, <2>3
<1>3. Believed'
  BY <1>0 DEF DeliveryInv, Believed
<1>4. ASSUME ~lapsed' PROVE Leased'
  <2>1. Leased
    BY <1>4 DEF DeliveryInv
  <2>2. \A w \in Workers : work[w].row # r \/ work[w].row = None
    BY <2>1 DEF Leased
  <2>3. \A w \in Workers : work[w].row # None => work[w].row \in Rows \ {r}
    BY <2>2 DEF DeliveryInv, DeliveryTypes, Job, Idle
  <2>4. \A w \in Workers : work[w].row # None => rows'[work[w].row] = rows[work[w].row]
    BY <1>0, <2>3
  <2>5. \A s \in Rows : pending'[s] # None => rows'[s].state = "dead"
    BY <1>0, <1>4, <2>1 DEF Leased
  <2> QED BY <2>1, <2>4, <2>5 DEF Leased
<1> QED BY <1>1, <1>2, <1>3, <1>4 DEF DeliveryInv

\* Steps that leave the rows alone.
LEMMA RowsAlone ==
  ASSUME DeliveryInv, DeliveryTypes', UNCHANGED rows, received \subseteq received',
         lapsed' = lapsed,
         \A w \in Workers : /\ work'[w].row = work[w].row \/ work'[w].row = None
                            /\ work'[w].outcome = "ok" => work'[w].row \in received' \cup Silent,
         \A r \in Rows : /\ pending'[r] # None => pending[r] # None \/ rows[r].state = "dead"
                         /\ Cardinality(Holders(r)') <= Cardinality(Holders(r))
                         /\ Cardinality(Holders(r)') \in Nat
  PROVE  DeliveryInv'
<1>1. \A r \in Rows : Counted(r)'
  BY CountedStays DEF DeliveryInv, DeliveryTypes, RowRecords
<1>2. Believed'
  BY DEF DeliveryInv, Believed
<1>3. ~lapsed' => Leased'
  BY DEF DeliveryInv, Leased
<1> QED BY <1>1, <1>2, <1>3 DEF DeliveryInv

LEMMA EndpointSteps ==
  ASSUME DeliveryInv,
         \/ \E e \in Endpoints : Revoke(e)
         \/ \E p \in People, r \in Rows : Reject(p, r) \/ RequestReplay(p, r)
         \/ \E w \in Workers : Post(w) \/ PostGone(w)
         \/ UNCHANGED deliveryVars
  PROVE  DeliveryInv'
<1>0. /\ rows' = rows /\ lapsed' = lapsed /\ received \subseteq received'
      /\ deployed' = deployed /\ crashes' = crashes
  BY DEF Revoke, Reject, RequestReplay, Post, PostGone, counters, deliveryVars
<1>1. ASSUME work' = work, received' = received, active' \subseteq Endpoints,
             pending' \in [Rows -> People \cup {None}], replays' \in 0 .. MaxReplays,
             \A r \in Rows : pending'[r] # None =>
               pending[r] # None \/ (rows[r].state = "dead" /\ r \notin Exports)
      PROVE  DeliveryInv'
  <2>1. DeliveryTypes'
    BY <1>0, <1>1 DEF DeliveryInv, DeliveryTypes, Rows
  <2>2. \A r \in Rows : Cardinality(Holders(r)') <= Cardinality(Holders(r))
                        /\ Cardinality(Holders(r)') \in Nat
    <3> SUFFICES ASSUME NEW r \in Rows
                 PROVE  Cardinality(Holders(r)') <= Cardinality(Holders(r))
                        /\ Cardinality(Holders(r)') \in Nat
      OBVIOUS
    <3>1. Holders(r)' = Holders(r) /\ Cardinality(Holders(r)) \in Nat
      BY <1>1, HoldersFinite, SameHolders
    <3> QED BY <3>1
  <2> QED BY <1>0, <1>1, <2>1, <2>2, RowsAlone DEF DeliveryInv, Believed
<1>2. ASSUME NEW w \in Workers, NEW outcome \in {"ok", "failed"}, work[w] # Idle,
             work' = [work EXCEPT ![w].outcome = outcome],
             outcome = "ok" => work[w].row \in received' \cup Silent,
             active' \subseteq Endpoints, received' \subseteq Rows,
             UNCHANGED <<pending, replays>>
      PROVE  DeliveryInv'
  <2>0. work[w] \in Job /\ work \in [Workers -> Job \cup {Idle}]
    BY <1>2 DEF DeliveryInv, DeliveryTypes
  <2> DEFINE x == [work[w] EXCEPT !.outcome = outcome]
  <2>1. x \in Job /\ x.row = work[w].row /\ x.outcome = outcome /\ work' = [work EXCEPT ![w] = x]
    BY <1>2, <2>0 DEF Job
  <2> HIDE DEF x
  <2>2. work' \in [Workers -> Job \cup {Idle}] /\ work'[w] = x
        /\ \A v \in Workers \ {w} : work'[v] = work[v]
    BY <2>0, <2>1
  <2>3. \A v \in Workers : work'[v].row = work[v].row
    BY <2>1, <2>2
  <2>4. DeliveryTypes'
    BY <1>0, <1>2, <2>2 DEF DeliveryInv, DeliveryTypes
  <2>5. \A r \in Rows : Cardinality(Holders(r)') <= Cardinality(Holders(r))
                        /\ Cardinality(Holders(r)') \in Nat
    <3> SUFFICES ASSUME NEW r \in Rows
                 PROVE  Cardinality(Holders(r)') <= Cardinality(Holders(r))
                        /\ Cardinality(Holders(r)') \in Nat
      OBVIOUS
    <3>1. Holders(r)' = Holders(r) /\ Cardinality(Holders(r)) \in Nat
      BY <2>3, HoldersFinite, SameHolders
    <3> QED BY <3>1
  <2>6. \A v \in Workers : work'[v].outcome = "ok" => work'[v].row \in received' \cup Silent
    BY <1>0, <1>2, <2>1, <2>2 DEF DeliveryInv, Believed
  <2> QED BY <1>0, <1>2, <2>3, <2>4, <2>5, <2>6, RowsAlone
<1>3. ASSUME NEW e \in Endpoints, Revoke(e) PROVE DeliveryInv'
  BY <1>1, <1>3 DEF Revoke, DeliveryInv, DeliveryTypes, counters
<1>4. ASSUME NEW p \in People, NEW r \in Rows, Reject(p, r) PROVE DeliveryInv'
  BY <1>1, <1>4 DEF Reject, DeliveryInv, DeliveryTypes, counters
<1>5. ASSUME NEW p \in People, NEW r \in Rows, RequestReplay(p, r) PROVE DeliveryInv'
  <2>1. replays + 1 \in 0 .. MaxReplays
    BY <1>5, DeliveryAssumption DEF RequestReplay, DeliveryInv, DeliveryTypes, DeliveryAssumption
  <2>2. /\ pending' = [pending EXCEPT ![r] = p] /\ r \notin Exports /\ rows[r].state = "dead"
        /\ replays' = replays + 1 /\ UNCHANGED <<work, received, active>>
    BY <1>5 DEF RequestReplay
  <2> QED BY <1>1, <2>1, <2>2 DEF DeliveryInv, DeliveryTypes
<1>6. ASSUME NEW w \in Workers, Post(w) PROVE DeliveryInv'
  <2>1. work[w].row # None /\ work[w] # Idle /\ work[w].row \in Rows
    BY <1>6 DEF Post, Idle, DeliveryInv, DeliveryTypes, Job
  <2>2. PICK outcome \in {"ok", "failed"} :
          /\ work' = [work EXCEPT ![w].outcome = outcome]
          /\ outcome = "ok" => work[w].row \in received' \cup Silent
    BY <1>6, <2>1 DEF Post
  <2>3. received' \subseteq Rows /\ UNCHANGED <<active, pending, replays>>
    BY <1>6, <2>1 DEF Post, DeliveryInv, DeliveryTypes, counters
  <2> QED BY <1>2, <2>1, <2>2, <2>3 DEF DeliveryInv, DeliveryTypes
<1>7. ASSUME NEW w \in Workers, PostGone(w) PROVE DeliveryInv'
  <2>1. work[w] # Idle
    BY <1>7, DeliveryAssumption DEF PostGone, Idle, Rows, DeliveryAssumption
  <2>2. /\ work' = [work EXCEPT ![w].outcome = "failed"] /\ active' \subseteq Endpoints
        /\ received' \subseteq Rows /\ UNCHANGED <<pending, replays>>
    BY <1>7 DEF PostGone, DeliveryInv, DeliveryTypes, counters
  <2> QED BY <1>2, <2>1, <2>2
<1>8. CASE UNCHANGED deliveryVars
  BY <1>1, <1>8 DEF deliveryVars, counters, DeliveryInv, DeliveryTypes
<1> QED BY <1>3, <1>4, <1>5, <1>6, <1>7, <1>8

LEMMA ReplaySteps ==
  ASSUME DeliveryInv, NEW r \in Rows,
         Enqueue(r) \/ RetryExport(r) \/ \E p \in People : Approve(p, r)
  PROVE  DeliveryInv'
<1>0. /\ rows[r] \in RowRecords /\ replays \in 0 .. MaxReplays
      /\ ~lapsed => (pending[r] # None => rows[r].state = "dead")
  BY DEF DeliveryInv, DeliveryTypes, Leased
<1>1. CASE Enqueue(r)
  <2> DEFINE x == [rows[r] EXCEPT !.state = "waiting"]
  <2>1. x \in RowRecords /\ x.state = "waiting" /\ x.attempts = rows[r].attempts
    BY <1>0 DEF RowRecords
  <2>2. rows' = [rows EXCEPT ![r] = x] /\ rows[r].state = "absent"
        /\ UNCHANGED <<active, work, received, pending, counters>>
    BY <1>1, <1>0 DEF Enqueue
  <2>3. rows[r].attempts = 0
    BY <2>2 DEF DeliveryInv, Counted
  <2>4. ~lapsed => pending'[r] = None
    BY <1>0, <2>2
  <2> HIDE DEF x
  <2> QED BY <1>0, <2>1, <2>2, <2>3, <2>4, RowAnew DEF counters
<1>2. CASE RetryExport(r)
  <2> DEFINE x == [state |-> "waiting", attempts |-> 0, lease |-> "free", due |-> TRUE]
  <2>1. x \in RowRecords /\ x.state = "waiting" /\ x.attempts = 0
    BY DEF RowRecords
  <2>2. /\ rows' = [rows EXCEPT ![r] = x] /\ rows[r].state = "dead" /\ r \in Exports
        /\ UNCHANGED <<deployed, active, work, received, pending, crashes, lapsed>>
    BY <1>2 DEF RetryExport
  <2>3. replays' \in 0 .. MaxReplays
    BY <1>0, <1>2, DeliveryAssumption DEF RetryExport, DeliveryAssumption
  <2>4. pending'[r] = None
    BY <2>2 DEF DeliveryInv, DeliveryTypes
  <2> HIDE DEF x
  <2> QED BY <2>1, <2>2, <2>3, <2>4, RowAnew
<1>3. ASSUME NEW p \in People, Approve(p, r) PROVE DeliveryInv'
  <2> DEFINE st == IF r \in Events /\ rows[r].state = "done" THEN "done" ELSE "waiting"
             x == [state |-> st, attempts |-> 0, lease |-> "free", due |-> TRUE]
  <2>0. st = "waiting" \/ (st = "done" /\ rows[r].state = "done")
    OBVIOUS
  <2>1. /\ x \in RowRecords /\ x.attempts = 0
        /\ x.state = "waiting" \/ (x.state = "done" /\ rows[r].state = "done")
    <3> HIDE DEF st
    <3> QED BY <2>0 DEF RowRecords
  <2>2. /\ rows' = [rows EXCEPT ![r] = x] /\ pending[r] # None
        /\ pending' = [pending EXCEPT ![r] = None]
        /\ UNCHANGED <<active, work, received, counters>>
    BY <1>3 DEF Approve
  <2>3. pending'[r] = None
    BY <2>2 DEF DeliveryInv, DeliveryTypes
  <2> HIDE DEF x
  <2> QED BY <1>0, <2>1, <2>2, <2>3, RowAnew DEF counters
<1> QED BY <1>1, <1>2, <1>3

LEMMA ClaimStep ==
  ASSUME DeliveryInv, NEW w \in Workers, Claim(w) PROVE DeliveryInv'
<1>0. PICK r \in Serves(w) : Claimable(rows, r) /\ Take(w, r)
  BY DEF Claim, Oldest
<1>1. /\ r \in Rows /\ work[w] = Idle /\ rows[r].state = "waiting" /\ rows[r].lease # "held"
      /\ UNCHANGED <<active, received, pending, counters>>
  BY <1>0 DEF Claim, Serves, Rows, Claimable, Take
<1> DEFINE j == [row |-> r, outcome |-> "unknown"]
           x == [rows[r] EXCEPT !.lease = "held"]
<1>2. j \in Job /\ j.row = r /\ j.outcome = "unknown" /\ work' = [work EXCEPT ![w] = j]
  BY <1>0, <1>1 DEF Take, Job
<1>3. /\ x \in RowRecords /\ x.lease = "held" /\ x.state = rows[r].state
      /\ x.attempts = rows[r].attempts /\ rows' = [rows EXCEPT ![r] = x]
  BY <1>0, <1>1 DEF Take, DeliveryInv, DeliveryTypes, RowRecords
<1> HIDE DEF j, x
<1>4. /\ work' \in [Workers -> Job \cup {Idle}] /\ work'[w] = j
      /\ \A v \in Workers \ {w} : work'[v] = work[v]
      /\ rows' \in [Rows -> RowRecords] /\ rows'[r] = x /\ \A s \in Rows \ {r} : rows'[s] = rows[s]
  BY <1>1, <1>2, <1>3 DEF DeliveryInv, DeliveryTypes
<1>5. DeliveryTypes'
  BY <1>1, <1>4 DEF DeliveryInv, DeliveryTypes, counters
<1>6. ASSUME NEW s \in Rows PROVE Counted(s)'
  <2>0. s # None
    BY DeliveryAssumption DEF DeliveryAssumption
  <2>1. /\ rows'[s].state = rows[s].state /\ rows'[s].attempts = rows[s].attempts
        /\ rows[s].attempts \in Nat
    BY <1>3, <1>4 DEF DeliveryInv, DeliveryTypes, RowRecords
  <2>2. CASE s = r
    <3>1. IsFiniteSet(Workers) /\ Holders(s)' \in SUBSET Workers
      BY HoldersFinite DEF Holders
    <3>2. /\ Cardinality(Holders(s)') <= Cardinality(Workers) /\ Cardinality(Workers) \in Nat
          /\ Cardinality(Holders(s)') \in Nat
      BY <3>1, FS_Subset, FS_CardinalityType
    <3> QED BY <1>1, <2>1, <2>2, <3>2, DeliveryAssumption
            DEF DeliveryInv, Counted, DeliveryAssumption
  <2>3. CASE s # r
    <3>1. Holders(s)' = Holders(s)
      BY <1>1, <1>2, <1>4, <2>0, <2>3 DEF Holders, Idle
    <3>2. Cardinality(Holders(s)) \in Nat
      BY HoldersFinite
    <3> QED BY <2>1, <3>1, <3>2, CountedStays
  <2> QED BY <2>2, <2>3
<1>7. Believed'
  <2>1. \A s \in Rows : rows'[s].state = rows[s].state
    BY <1>3, <1>4
  <2> QED BY <1>1, <1>2, <1>4, <2>1 DEF DeliveryInv, Believed
<1>8. ASSUME ~lapsed' PROVE Leased'
  <2>1. Leased
    BY <1>1, <1>8 DEF DeliveryInv, counters
  <2>2. \A v \in Workers : work[v].row # None => work[v].row \in Rows \ {r}
    BY <1>1, <2>1 DEF Leased, DeliveryInv, DeliveryTypes, Job, Idle
  <2>3. \A v \in Workers \ {w} : work'[v].row # None =>
          work'[v].row = work[v].row /\ rows'[work[v].row] = rows[work[v].row] /\ work[v].row # r
    BY <1>4, <2>2
  <2>4. \A v \in Workers : work'[v].row # None =>
          rows'[work'[v].row].lease = "held" /\ rows'[work'[v].row].state = "waiting"
    <3> SUFFICES ASSUME NEW v \in Workers, work'[v].row # None
                 PROVE  rows'[work'[v].row].lease = "held" /\ rows'[work'[v].row].state = "waiting"
      OBVIOUS
    <3>1. CASE v = w
      BY <1>1, <1>2, <1>3, <1>4, <3>1
    <3>2. CASE v # w
      BY <1>4, <2>1, <2>3, <3>2 DEF Leased
    <3> QED BY <3>1, <3>2
  <2>5. \A u, v \in Workers : work'[u].row = work'[v].row /\ work'[u].row # None => u = v
    <3> SUFFICES ASSUME NEW u \in Workers, NEW v \in Workers, u # v,
                        work'[u].row = work'[v].row, work'[u].row # None
                 PROVE  FALSE
      OBVIOUS
    <3>1. CASE u = w
      BY <1>2, <1>4, <2>3, <3>1
    <3>2. CASE v = w
      BY <1>2, <1>4, <2>3, <3>2
    <3>3. CASE u # w /\ v # w
      BY <1>4, <2>1, <3>3 DEF Leased
    <3> QED BY <3>1, <3>2, <3>3
  <2>6. \A s \in Rows : pending'[s] # None => rows'[s].state = "dead"
    BY <1>1, <1>3, <1>4, <2>1 DEF Leased
  <2> QED BY <2>4, <2>5, <2>6 DEF Leased
<1> QED BY <1>5, <1>6, <1>7, <1>8 DEF DeliveryInv

\* A worker lets go of its row, which is set to what became of it.
LEMMA OutcomeStep ==
  ASSUME DeliveryInv, NEW w \in Workers, work[w].row \in Rows, NEW x \in RowRecords,
         rows' = [rows EXCEPT ![work[w].row] = x], work' = [work EXCEPT ![w] = Idle],
         x.state \in {"waiting", "done", "dead"},
         x.attempts \in {rows[work[w].row].attempts, rows[work[w].row].attempts + 1},
         x.state = "waiting" => x.attempts < MaxAttempts,
         x.state = "dead" => x.attempts >= MaxAttempts,
         x.state = "done" => work[w].row \in received \cup Silent,
         UNCHANGED <<active, received, pending, counters>>
  PROVE  DeliveryInv'
<1> DEFINE r == work[w].row
<1>0. /\ work \in [Workers -> Job \cup {Idle}] /\ rows \in [Rows -> RowRecords]
      /\ Idle.row = None /\ Idle.outcome = "unknown" /\ r # None
  BY DeliveryAssumption DEF DeliveryInv, DeliveryTypes, Idle, DeliveryAssumption
<1>1. /\ work' \in [Workers -> Job \cup {Idle}] /\ work'[w] = Idle
      /\ \A v \in Workers \ {w} : work'[v] = work[v]
      /\ rows' \in [Rows -> RowRecords] /\ rows'[r] = x /\ \A s \in Rows \ {r} : rows'[s] = rows[s]
  BY <1>0
<1>2. DeliveryTypes'
  BY <1>1 DEF DeliveryInv, DeliveryTypes, counters
<1>3. ASSUME NEW s \in Rows PROVE Counted(s)'
  <2>1. /\ Cardinality(Holders(s)') \in Nat /\ Cardinality(Holders(s)) \in Nat
        /\ Cardinality(Holders(s)') <= Cardinality(Holders(s))
        /\ r = s => Cardinality(Holders(s)') = Cardinality(Holders(s)) - 1
    BY LettingGo DEF DeliveryInv
  <2>2. rows[s].attempts \in Nat /\ MaxAttempts \in Nat /\ Cardinality(Workers) \in Nat
    BY <1>0, HoldersFinite, DeliveryAssumption DEF RowRecords, DeliveryAssumption
  <2>3. CASE s = r
    <3>1. rows[s].attempts + Cardinality(Holders(s)) <= MaxAttempts + Cardinality(Workers)
      BY DEF DeliveryInv, Counted
    <3>2. x.attempts + Cardinality(Holders(s)') <= MaxAttempts + Cardinality(Workers)
      BY <2>1, <2>2, <2>3, <3>1
    <3> QED BY <1>1, <2>3, <3>2 DEF Counted
  <2>4. CASE s # r
    BY <1>1, <2>1, <2>2, <2>4, CountedStays
  <2> QED BY <2>3, <2>4
<1>4. Believed'
  <2>1. \A v \in Workers : work'[v].outcome = "ok" => work'[v].row \in received' \cup Silent
    BY <1>0, <1>1 DEF DeliveryInv, Believed
  <2>2. \A s \in Rows \ Silent : rows'[s].state = "done" => s \in received'
    BY <1>1 DEF DeliveryInv, Believed
  <2> QED BY <2>1, <2>2 DEF Believed
<1>5. ASSUME ~lapsed' PROVE Leased'
  <2>1. Leased
    BY <1>5 DEF DeliveryInv, counters
  <2>2. \A v \in Workers : work'[v].row # None =>
          /\ v # w /\ work'[v] = work[v] /\ work[v].row # r /\ work[v].row \in Rows
          /\ rows'[work[v].row] = rows[work[v].row]
    <3> SUFFICES ASSUME NEW v \in Workers, work'[v].row # None
                 PROVE  /\ v # w /\ work'[v] = work[v] /\ work[v].row # r /\ work[v].row \in Rows
                        /\ rows'[work[v].row] = rows[work[v].row]
      OBVIOUS
    <3>1. v # w /\ work'[v] = work[v]
      BY <1>0, <1>1
    <3>2. work[v].row # r
      BY <1>0, <2>1, <3>1 DEF Leased
    <3>3. work[v].row \in Rows
      BY <1>0, <3>1 DEF Job
    <3> QED BY <1>1, <3>1, <3>2, <3>3
  <2>3. \A s \in Rows : pending'[s] # None => rows'[s].state = "dead"
    <3>1. rows[r].state = "waiting"
      BY <1>0, <2>1 DEF Leased
    <3> QED BY <1>1, <2>1, <3>1 DEF Leased
  <2> QED BY <2>1, <2>2, <2>3 DEF Leased
<1> QED BY <1>2, <1>3, <1>4, <1>5 DEF DeliveryInv

LEMMA SucceedStep ==
  ASSUME DeliveryInv, NEW w \in Workers, Succeed(w) PROVE DeliveryInv'
<1>1. work[w] \in Job /\ work[w].row \in Rows /\ work[w].row \in received \cup Silent
  BY DEF Succeed, DeliveryInv, DeliveryTypes, Idle, Job, Believed
<1> DEFINE x == [rows[work[w].row] EXCEPT !.state = "done", !.lease = "free"]
<1>a. rows[work[w].row] \in RowRecords
  BY <1>1 DEF DeliveryInv, DeliveryTypes
<1>2. x \in RowRecords /\ x.state = "done" /\ x.attempts = rows[work[w].row].attempts
  BY <1>a DEF RowRecords
<1>3. /\ rows' = [rows EXCEPT ![work[w].row] = x] /\ work' = [work EXCEPT ![w] = Idle]
      /\ UNCHANGED <<active, received, pending, counters>>
  BY <1>1 DEF Succeed, DeliveryInv, DeliveryTypes, RowRecords
<1> HIDE DEF x
<1> QED BY <1>1, <1>2, <1>3, OutcomeStep

LEMMA FailStep ==
  ASSUME DeliveryInv, NEW w \in Workers, Fail(w) PROVE DeliveryInv'
<1> DEFINE r == work[w].row
           n == rows[r].attempts + 1
           after == AfterFailure(r, n)
           x == [state |-> after, attempts |-> n, lease |-> "free", due |-> FALSE]
<1>1. work[w] \in Job /\ r \in Rows /\ rows[r] \in RowRecords /\ MaxAttempts \in Nat
  BY DeliveryAssumption DEF Fail, DeliveryInv, DeliveryTypes, Idle, Job, DeliveryAssumption
<1>2. /\ after \in {"waiting", "done", "dead"} /\ n \in Nat
      /\ after = "waiting" => n < MaxAttempts
      /\ after = "dead" => n >= MaxAttempts
      /\ after = "done" => rows[r].state = "done"
  BY <1>1 DEF AfterFailure, RowRecords
<1>3. after = "done" => r \in received \cup Silent
  BY <1>1, <1>2 DEF DeliveryInv, Believed
<1>4. /\ rows' = [rows EXCEPT ![r] = x] /\ work' = [work EXCEPT ![w] = Idle]
      /\ UNCHANGED <<active, received, pending, counters>>
  BY DEF Fail
<1> HIDE DEF after
<1>5. x \in RowRecords /\ x.state = after /\ x.attempts = n
  BY <1>2 DEF RowRecords
<1> HIDE DEF x
<1> QED BY <1>1, <1>2, <1>3, <1>4, <1>5, OutcomeStep

LEMMA CrashStep ==
  ASSUME DeliveryInv, NEW w \in Workers, Crash(w) PROVE DeliveryInv'
<1>1. /\ UNCHANGED <<deployed, rows, active, received, pending, replays, lapsed>>
      /\ work' = [work EXCEPT ![w] = Idle]
  BY DEF Crash
<1>2. crashes' \in 0 .. MaxCrashes
  BY DeliveryAssumption DEF Crash, DeliveryInv, DeliveryTypes, DeliveryAssumption
<1>3. /\ work' \in [Workers -> Job \cup {Idle}]
      /\ \A v \in Workers : work'[v] = IF v = w THEN Idle ELSE work[v]
  BY <1>1 DEF DeliveryInv, DeliveryTypes
<1>4. DeliveryTypes'
  BY <1>1, <1>2, <1>3 DEF DeliveryInv, DeliveryTypes
<1>5. \A v \in Workers : /\ work'[v].row = work[v].row \/ work'[v].row = None
                         /\ work'[v].outcome = "ok" => work'[v].row \in received' \cup Silent
  BY <1>1, <1>3 DEF Idle, DeliveryInv, Believed
<1>6. \A r \in Rows : Cardinality(Holders(r)') <= Cardinality(Holders(r))
                      /\ Cardinality(Holders(r)') \in Nat
  BY <1>1, LettingGo DEF DeliveryInv
<1> QED BY <1>1, <1>4, <1>5, <1>6, RowsAlone

LEMMA ClockStep ==
  ASSUME DeliveryInv, NEW r \in Rows, Clock(r) PROVE DeliveryInv'
<1>0. rows \in [Rows -> RowRecords] /\ UNCHANGED <<deployed, active, work, received, pending, replays, crashes>>
  BY DEF Clock, BackoffEnds, LeaseExpires, counters, DeliveryInv, DeliveryTypes
<1>1. PICK x \in RowRecords :
        /\ rows' = [rows EXCEPT ![r] = x] /\ x.state = rows[r].state /\ x.attempts = rows[r].attempts
        /\ \/ x.lease = rows[r].lease /\ lapsed' = lapsed
           \/ lapsed' = (lapsed \/ \E w \in Workers : work[w].row = r)
  <2>1. CASE BackoffEnds(r)
    <3> DEFINE x == [rows[r] EXCEPT !.due = TRUE]
    <3>1. x \in RowRecords /\ rows' = [rows EXCEPT ![r] = x] /\ x.state = rows[r].state
          /\ x.attempts = rows[r].attempts /\ x.lease = rows[r].lease /\ lapsed' = lapsed
      BY <1>0, <2>1 DEF BackoffEnds, RowRecords, counters
    <3> HIDE DEF x
    <3> QED BY <3>1
  <2>2. CASE LeaseExpires(r)
    <3> DEFINE x == [rows[r] EXCEPT !.lease = "expired"]
    <3>1. x \in RowRecords /\ rows' = [rows EXCEPT ![r] = x] /\ x.state = rows[r].state
          /\ x.attempts = rows[r].attempts
          /\ lapsed' = (lapsed \/ \E w \in Workers : work[w].row = r)
      BY <1>0, <2>2 DEF LeaseExpires, RowRecords
    <3> HIDE DEF x
    <3> QED BY <3>1
  <2> QED BY <2>1, <2>2 DEF Clock
<1>2. rows' \in [Rows -> RowRecords] /\ \A s \in Rows : rows'[s] = IF s = r THEN x ELSE rows[s]
  BY <1>0, <1>1
<1>3. \A s \in Rows : rows'[s].state = rows[s].state /\ rows'[s].attempts = rows[s].attempts
  BY <1>1, <1>2
<1>4. DeliveryTypes'
  <2>1. lapsed' \in BOOLEAN
    BY <1>1 DEF DeliveryInv, DeliveryTypes
  <2> QED BY <1>0, <1>2, <2>1 DEF DeliveryInv, DeliveryTypes
<1>5. ASSUME NEW s \in Rows PROVE Counted(s)'
  <2>1. Holders(s)' = Holders(s) /\ Cardinality(Holders(s)) \in Nat /\ rows[s].attempts \in Nat
    BY <1>0, HoldersFinite DEF Holders, RowRecords
  <2> QED BY <1>3, <2>1, CountedStays
<1>6. Believed'
  BY <1>0, <1>3 DEF DeliveryInv, Believed
<1>7. ASSUME ~lapsed' PROVE Leased'
  <2>1. Leased /\ (x.lease = rows[r].lease \/ \A w \in Workers : work[w].row # r)
    BY <1>1, <1>7 DEF DeliveryInv
  <2>2. \A w \in Workers : work[w].row # None => rows'[work[w].row].lease = rows[work[w].row].lease
                                              /\ work[w].row \in Rows
    BY <1>2, <2>1 DEF DeliveryInv, DeliveryTypes, Job, Idle
  <2> QED BY <1>0, <1>3, <2>1, <2>2 DEF Leased
<1> QED BY <1>4, <1>5, <1>6, <1>7 DEF DeliveryInv

-----------------------------------------------------------------------------
(* The invariant and what follows from it *)

LEMMA DeliveryInvStep == DeliveryInv /\ [DeliveriesNext]_deliveryVars => DeliveryInv'
<1> SUFFICES ASSUME DeliveryInv, [DeliveriesNext]_deliveryVars PROVE DeliveryInv'
  OBVIOUS
<1>1. CASE \E r \in Rows : Enqueue(r) \/ Clock(r) \/ RetryExport(r)
  BY <1>1, ReplaySteps, ClockStep
<1>2. CASE \E w \in Workers : Work(w) \/ Crash(w)
  BY <1>2, ClaimStep, EndpointSteps, SucceedStep, FailStep, CrashStep DEF Work
<1>3. CASE \E p \in People, r \in Rows : RequestReplay(p, r) \/ Reject(p, r) \/ Approve(p, r)
  BY <1>3, EndpointSteps, ReplaySteps
<1>4. CASE (\E e \in Endpoints : Revoke(e)) \/ UNCHANGED deliveryVars
  BY <1>4, EndpointSteps
<1> QED BY <1>1, <1>2, <1>3, <1>4 DEF DeliveriesNext

LEMMA DeliveryInvImplies == DeliveryInv => DoneWasReceived /\ OneHolderWithinLeases
<1> SUFFICES ASSUME DeliveryInv PROVE DoneWasReceived /\ OneHolderWithinLeases
  OBVIOUS
<1>1. rows \in [Rows -> Row]
  <2> SUFFICES ASSUME NEW r \in Rows PROVE rows[r] \in Row
    BY DEF DeliveryInv, DeliveryTypes
  <2>1. rows[r] \in RowRecords /\ Cardinality(Holders(r)) \in Nat /\ Cardinality(Workers) \in Nat
        /\ MaxAttempts \in Nat
        /\ rows[r].attempts + Cardinality(Holders(r)) <= MaxAttempts + Cardinality(Workers)
    BY HoldersFinite, DeliveryAssumption DEF DeliveryInv, DeliveryTypes, Counted, DeliveryAssumption
  <2>2. rows[r].attempts \in 0 .. MaxAttempts + Cardinality(Workers)
    BY <2>1 DEF RowRecords
  <2> QED BY <2>1, <2>2 DEF Row, RowRecords
<1>2. DoneWasReceived
  BY <1>1 DEF DeliveryInv, DeliveryTypes, DoneWasReceived, DeliveriesTypeOK, Believed
<1>3. OneHolderWithinLeases
  <2> SUFFICES ASSUME ~lapsed, NEW v \in Workers, NEW w \in Workers,
                      work[v].row = work[w].row, work[v] # Idle
               PROVE  v = w
    BY DEF OneHolderWithinLeases
  <2>1. work[v].row # None
    BY DeliveryAssumption DEF DeliveryInv, DeliveryTypes, Job, DeliveryAssumption
  <2> QED BY <2>1 DEF DeliveryInv, Leased
<1> QED BY <1>2, <1>3

\* Nothing accepted is lost, whatever crashed or was answered late (outbox-worker,
\* webhook-worker, code-export-worker).
THEOREM ReceivedCorrect == DeliveriesSpec => []DoneWasReceived
<1> QED BY InitHolds, DeliveryInvStep, DeliveryInvImplies, PTL DEF DeliveriesSpec

\* No row is in two hands while every worker keeps within its lease.
THEOREM LeasesCorrect == DeliveriesSpec => []OneHolderWithinLeases
<1> QED BY InitHolds, DeliveryInvStep, DeliveryInvImplies, PTL DEF DeliveriesSpec

LEMMA SettledStep ==
  ASSUME DeliveryInv, [DeliveriesNext]_deliveryVars
  PROVE  /\ \A r \in Events : rows[r].state = "done" => rows'[r].state = "done"
         /\ \A r \in Rows \ Exports : rows[r].state = "dead" /\ rows'[r].state = "waiting"
              => pending[r] # None /\ pending'[r] = None
<1> DEFINE Settled(r) ==
             /\ r \in Events /\ rows[r].state = "done" => rows'[r].state = "done"
             /\ r \notin Exports /\ rows[r].state = "dead" /\ rows'[r].state = "waiting"
                  => pending[r] # None /\ pending'[r] = None
<1>0. /\ rows \in [Rows -> RowRecords] /\ pending \in [Rows -> People \cup {None}]
      /\ work \in [Workers -> Job \cup {Idle}] /\ MaxAttempts \in Nat
      /\ Exports \cap Events = {} /\ \A r \in Rows : Counted(r)
  BY DeliveryAssumption DEF DeliveryInv, DeliveryTypes, DeliveryAssumption
<1> SUFFICES ASSUME NEW r \in Rows PROVE Settled(r)
  BY DEF Rows
<1>1. ASSUME rows'[r].state = rows[r].state PROVE Settled(r)
  BY <1>1
<1>2. ASSUME NEW s \in Rows, Enqueue(s) \/ Clock(s) \/ RetryExport(s) PROVE Settled(r)
  <2>1. rows[s].state = "absent" \/ s \in Exports \/ rows'[r].state = rows[r].state
    BY <1>0, <1>2 DEF Enqueue, Clock, BackoffEnds, LeaseExpires, RetryExport, RowRecords
  <2>2. r # s => rows'[r] = rows[r]
    BY <1>0, <1>2 DEF Enqueue, Clock, BackoffEnds, LeaseExpires, RetryExport
  <2>3. s \in Exports => rows'[r].state = rows[r].state \/ s \notin Events
    BY <1>0
  <2> QED BY <1>1, <2>1, <2>2, <2>3
<1>3. ASSUME NEW w \in Workers, Claim(w) \/ Post(w) \/ PostGone(w) \/ Crash(w) PROVE Settled(r)
  <2>1. rows'[r].state = rows[r].state
    <3>1. CASE Claim(w)
      <4>1. PICK s \in Serves(w) : rows' = [rows EXCEPT ![s].lease = "held"]
        BY <3>1 DEF Claim, Oldest, Take
      <4> QED BY <1>0, <4>1 DEF RowRecords
    <3> QED BY <1>3, <3>1 DEF Post, PostGone, Crash
  <2> QED BY <1>1, <2>1
<1>4. ASSUME NEW w \in Workers, Succeed(w) PROVE Settled(r)
  <2>1. rows'[r].state \in {rows[r].state, "done"}
    BY <1>0, <1>4 DEF Succeed, RowRecords
  <2> QED BY <2>1
<1>5. ASSUME NEW w \in Workers, Fail(w) PROVE Settled(r)
  <2>1. CASE r # work[w].row
    <3>1. rows'[r] = rows[r]
      BY <1>0, <1>5, <2>1 DEF Fail
    <3> QED BY <1>1, <3>1
  <2>2. CASE r = work[w].row
    <3>1. rows'[r].state = AfterFailure(r, rows[r].attempts + 1)
      BY <1>0, <1>5, <2>2 DEF Fail
    <3>2. rows[r].state = "dead" => rows[r].attempts + 1 >= MaxAttempts
      BY <1>0 DEF Counted, RowRecords
    <3> QED BY <3>1, <3>2 DEF AfterFailure
  <2> QED BY <2>1, <2>2
<1>6. ASSUME NEW p \in People, NEW s \in Rows, Approve(p, s) PROVE Settled(r)
  <2>1. CASE r # s
    <3>1. rows'[r] = rows[r]
      BY <1>0, <1>6, <2>1 DEF Approve
    <3> QED BY <1>1, <3>1
  <2>2. CASE r = s
    <3>1. pending[r] # None /\ pending'[r] = None
      BY <1>0, <1>6, <2>2 DEF Approve
    <3>2. r \in Events /\ rows[r].state = "done" => rows'[r].state = "done"
      BY <1>0, <1>6, <2>2 DEF Approve
    <3> QED BY <3>1, <3>2
  <2> QED BY <2>1, <2>2
<1>7. ASSUME NEW p \in People, NEW s \in Rows, RequestReplay(p, s) \/ Reject(p, s) PROVE Settled(r)
  BY <1>1, <1>7 DEF RequestReplay, Reject
<1>8. CASE (\E e \in Endpoints : Revoke(e)) \/ UNCHANGED deliveryVars
  BY <1>1, <1>8 DEF Revoke, deliveryVars
<1> HIDE DEF Settled
<1> QED BY <1>2, <1>3, <1>4, <1>5, <1>6, <1>7, <1>8 DEF DeliveriesNext, Work

\* An event that was captured is not put back in the queue, and a dead letter only by a
\* replay that was requested, whoever is late (approveReplay).
THEOREM SettledCorrect == DeliveriesSpec => SettledStaysSettled
<1>1. DeliveryInv /\ [DeliveriesNext]_deliveryVars =>
        [/\ \A r \in Events : rows[r].state = "done" => rows'[r].state = "done"
         /\ \A r \in Rows \ Exports : rows[r].state = "dead" /\ rows'[r].state = "waiting"
              => pending[r] # None /\ pending'[r] = None]_deliveryVars
  BY SettledStep
<1> QED BY <1>1, InitHolds, DeliveryInvStep, PTL DEF DeliveriesSpec, SettledStaysSettled
=============================================================================
