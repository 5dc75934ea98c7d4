----------------------------- MODULE Deliveries -----------------------------
(***************************************************************************)
(* What leaves the system: event_outbox rows captured by OpenEPCIS,        *)
(* webhook_deliveries posted to tenants' endpoints, and the code files of  *)
(* completed jobs uploaded to object storage.  Workers claim the oldest row*)
(* that is due, under a lease of some minutes; they post it and then record*)
(* the outcome in a statement of its own.  A failure is tried again after a*)
(* backoff and becomes a dead letter at the limit: two people together can *)
(* replay an event or a delivery, one administrator can retry an export.   *)
(*                                                                         *)
(* Workers may crash anywhere, answers get lost, and a worker that is slow *)
(* to record its outcome loses its lease to another while it still goes on.*)
(* "waiting" stands for PENDING and FAILED, which every statement treats   *)
(* alike, and EXPORTING, a leased export.  A captured outbox row is "done" *)
(* whether or not it was dead-lettered too.  available_at and locked_at are*)
(* abstracted to what the clock makes of them.                             *)
(***************************************************************************)
EXTENDS Naturals, FiniteSets

CONSTANTS
  Events,        \* rows of event_outbox
  Silent,        \* those of VERIFY events, which EPCIS has no document for
  Hooks,         \* rows of webhook_deliveries
  Exports,       \* rows of code_generation_jobs, once COMPLETED
  Endpoints, EndpointOf,
  OutboxWorkers, HookWorkers, ExportWorkers, People, None,
  CreatedAt,     \* [rows -> Nat], the order they are claimed in
  Deployments,   \* what a deployment may configure, of Integrations
  MaxAttempts,   \* ten in the code
  MaxReplays, MaxCrashes  \* bounds of the model

Rows == Events \cup Hooks \cup Exports
Workers == OutboxWorkers \cup HookWorkers \cup ExportWorkers
Integrations == {"epcis", "webhooks", "storage"}

ASSUME DeliveryAssumption ==
  /\ Events \cap Hooks = {} /\ Exports \cap (Events \cup Hooks) = {}
  /\ OutboxWorkers \cap HookWorkers = {}
  /\ ExportWorkers \cap (OutboxWorkers \cup HookWorkers) = {}
  /\ Silent \subseteq Events
  /\ IsFiniteSet(Workers)
  /\ EndpointOf \in [Hooks -> Endpoints]
  /\ CreatedAt \in [Rows -> Nat]
  /\ Deployments \subseteq SUBSET Integrations
  /\ None \notin Rows \cup People
  /\ MaxAttempts \in Nat \ {0} /\ MaxReplays \in Nat /\ MaxCrashes \in Nat

VARIABLES
  deployed,  \* what this deployment configures: a worker starts only if it does
  rows,      \* the two tables
  active,    \* endpoints whose status is ACTIVE
  work,      \* what each worker has in hand: a row and the outcome it knows
  received,  \* rows the other side has got
  pending,   \* the PENDING replay request of a row: who made it, or None
  replays,   \* how many requests were made
  crashes,
  lapsed     \* history: a lease was lost to the clock by a worker still at work

counters == <<deployed, replays, crashes, lapsed>>
deliveryVars == <<rows, active, work, received, pending, counters>>

Row == [state : {"absent", "waiting", "done", "dead"},
        attempts : 0 .. MaxAttempts + Cardinality(Workers),
        lease : {"free", "held", "expired"},
        due : BOOLEAN]
Job == [row : Rows, outcome : {"unknown", "ok", "failed"}]
Idle == [row |-> None, outcome |-> "unknown"]

DeliveriesInit ==
  /\ deployed \in Deployments
  /\ rows = [r \in Rows |-> [state |-> "absent", attempts |-> 0,
                             lease |-> "free", due |-> TRUE]]
  /\ active = Endpoints
  /\ work = [w \in Workers |-> Idle]
  /\ received = {}
  /\ pending = [r \in Rows |-> None]
  /\ replays = 0 /\ crashes = 0
  /\ lapsed = FALSE

-----------------------------------------------------------------------------
(* Events and endpoints *)

\* A committed trace event leaves one outbox row, and a delivery for each of
\* the endpoints that are active; none is registered without webhooks.  A code
\* job leaves its export when it completes.
Enqueue(r) ==
  /\ rows[r].state = "absent"
  /\ r \in Hooks => "webhooks" \in deployed /\ EndpointOf[r] \in active
  /\ rows' = [rows EXCEPT ![r].state = "waiting"]
  /\ UNCHANGED <<active, work, received, pending, counters>>

Revoke(e) ==
  /\ e \in active
  /\ active' = active \ {e}
  /\ UNCHANGED <<rows, work, received, pending, counters>>

-----------------------------------------------------------------------------
(* Workers *)

Serves(w) ==
  CASE w \in OutboxWorkers /\ "epcis" \in deployed -> Events
    [] w \in HookWorkers /\ "webhooks" \in deployed -> Hooks
    [] w \in ExportWorkers /\ "storage" \in deployed -> Exports
    [] OTHER -> {}

Claimable(table, r) ==
  /\ table[r].state = "waiting"
  /\ table[r].due
  /\ table[r].lease # "held"
  /\ r \in Exports => table[r].attempts < MaxAttempts
  /\ r \in Hooks => EndpointOf[r] \in active

Oldest(S) == {r \in S : \A other \in S : CreatedAt[r] <= CreatedAt[other]}

Take(w, r) ==
  /\ work' = [work EXCEPT ![w] = [row |-> r, outcome |-> "unknown"]]
  /\ rows' = [rows EXCEPT ![r].lease = "held"]
  /\ UNCHANGED <<active, received, pending, counters>>

\* Mutants: the lease of another worker is ignored; an expired one is not.
ClaimLeased(w) ==
  LET open == {r \in Serves(w) :
                 Claimable([rows EXCEPT ![r].lease = "free"], r)}
  IN work[w] = Idle /\ \E r \in Oldest(open) : Take(w, r)
ClaimFree(w) ==
  LET open == {r \in Serves(w) : Claimable(rows, r) /\ rows[r].lease = "free"}
  IN work[w] = Idle /\ \E r \in Oldest(open) : Take(w, r)

Claim(w) ==
  LET open == {r \in Serves(w) : Claimable(rows, r)}
  IN work[w] = Idle /\ \E r \in Oldest(open) : Take(w, r)

\* Mutant: the status of the answer is not looked at.
PostUnchecked(w) ==
  LET r == work[w].row
  IN /\ r # None /\ work[w].outcome = "unknown"
     /\ received' \in {received, received \cup {r}}
     /\ work' = [work EXCEPT ![w].outcome = "ok"]
     /\ UNCHANGED <<rows, active, pending, counters>>

\* The other side accepts the row, or the worker believes that it did not: it
\* was refused, it timed out, or the answer was lost.
Post(w) ==
  LET r == work[w].row
  IN /\ r # None /\ work[w].outcome = "unknown"
     /\ \/ /\ r \in Silent
           /\ work' = [work EXCEPT ![w].outcome = "ok"]
           /\ UNCHANGED received
        \/ /\ r \notin Silent
           /\ received' = received \cup {r}
           /\ \E outcome \in {"ok", "failed"} :
                work' = [work EXCEPT ![w].outcome = outcome]
        \/ /\ r \notin Silent
           /\ work' = [work EXCEPT ![w].outcome = "failed"]
           /\ UNCHANGED received
     /\ UNCHANGED <<rows, active, pending, counters>>

\* An endpoint that answers 410 is revoked, and the delivery has failed.
PostGone(w) ==
  LET r == work[w].row
  IN /\ r \in Hooks /\ work[w].outcome = "unknown"
     /\ active' = active \ {EndpointOf[r]}
     /\ work' = [work EXCEPT ![w].outcome = "failed"]
     /\ UNCHANGED <<rows, received, pending, counters>>

Succeed(w) ==
  LET r == work[w].row
  IN /\ work[w].outcome = "ok"
     /\ rows' = [rows EXCEPT ![r].state = "done", ![r].lease = "free"]
     /\ work' = [work EXCEPT ![w] = Idle]
     /\ UNCHANGED <<active, received, pending, counters>>

\* Mutants: a failure reopens an outbox row as it does a delivery; the limit is
\* missed by whoever fails after it; there is no limit.
AfterFailureReopened(r, attempts) ==
  IF attempts >= MaxAttempts THEN "dead" ELSE "waiting"
AfterFailureAtLimit(r, attempts) ==
  IF r \in Events /\ rows[r].state = "done" THEN "done"
  ELSE IF attempts = MaxAttempts THEN "dead" ELSE "waiting"
AfterFailureForever(r, attempts) ==
  IF r \in Events /\ rows[r].state = "done" THEN "done" ELSE "waiting"

\* processed_at of an outbox row outlives a late failure, DELIVERED does not.
AfterFailure(r, attempts) ==
  IF r \in Events /\ rows[r].state = "done" THEN "done"
  ELSE IF attempts >= MaxAttempts THEN "dead" ELSE "waiting"

Fail(w) ==
  LET r == work[w].row
      attempts == rows[r].attempts + 1
  IN /\ work[w].outcome = "failed"
     /\ rows' = [rows EXCEPT ![r] = [state |-> AfterFailure(r, attempts),
                                     attempts |-> attempts,
                                     lease |-> "free", due |-> FALSE]]
     /\ work' = [work EXCEPT ![w] = Idle]
     /\ UNCHANGED <<active, received, pending, counters>>

\* The process ends, with whatever it had in hand; it is started again.
Crash(w) ==
  /\ work[w] # Idle
  /\ crashes < MaxCrashes
  /\ crashes' = crashes + 1
  /\ work' = [work EXCEPT ![w] = Idle]
  /\ UNCHANGED <<deployed, rows, active, received, pending, replays, lapsed>>

-----------------------------------------------------------------------------
(* The clock *)

BackoffEnds(r) ==
  /\ ~rows[r].due
  /\ rows' = [rows EXCEPT ![r].due = TRUE]
  /\ UNCHANGED <<active, work, received, pending, counters>>

LeaseExpires(r) ==
  /\ rows[r].lease = "held"
  /\ rows' = [rows EXCEPT ![r].lease = "expired"]
  /\ lapsed' = (lapsed \/ \E w \in Workers : work[w].row = r)
  /\ UNCHANGED <<deployed, active, work, received, pending, replays, crashes>>

-----------------------------------------------------------------------------
(* Dead letters *)

\* An export is retried at once, by anyone who may approve code jobs.
RetryExport(r) ==
  /\ r \in Exports /\ rows[r].state = "dead"
  /\ replays < MaxReplays
  /\ replays' = replays + 1
  /\ rows' = [rows EXCEPT ![r] = [state |-> "waiting", attempts |-> 0,
                                  lease |-> "free", due |-> TRUE]]
  /\ UNCHANGED <<deployed, active, work, received, pending, crashes, lapsed>>

RequestReplay(p, r) ==
  /\ r \notin Exports /\ rows[r].state = "dead"
  /\ pending[r] = None
  /\ replays < MaxReplays
  /\ replays' = replays + 1
  /\ pending' = [pending EXCEPT ![r] = p]
  /\ UNCHANGED <<deployed, rows, active, work, received, crashes, lapsed>>

Reject(p, r) ==
  /\ pending[r] \notin {None, p}
  /\ pending' = [pending EXCEPT ![r] = None]
  /\ UNCHANGED <<rows, active, work, received, counters>>

\* The row starts afresh; a captured one stays processed.
Approve(p, r) ==
  /\ pending[r] \notin {None, p}
  /\ pending' = [pending EXCEPT ![r] = None]
  /\ rows' = [rows EXCEPT ![r] =
       [state |-> IF r \in Events /\ rows[r].state = "done" THEN "done"
                  ELSE "waiting",
        attempts |-> 0, lease |-> "free", due |-> TRUE]]
  /\ UNCHANGED <<active, work, received, counters>>

-----------------------------------------------------------------------------

Work(w) == Claim(w) \/ Post(w) \/ PostGone(w) \/ Succeed(w) \/ Fail(w)
Clock(r) == BackoffEnds(r) \/ LeaseExpires(r)

DeliveriesNext ==
  \/ \E r \in Rows : Enqueue(r) \/ Clock(r) \/ RetryExport(r)
  \/ \E e \in Endpoints : Revoke(e)
  \/ \E w \in Workers : Work(w) \/ Crash(w)
  \/ \E p \in People, r \in Rows :
       RequestReplay(p, r) \/ Reject(p, r) \/ Approve(p, r)

\* Worker processes go on when they can (their container is restarted when they
\* end), and time passes.  Nobody has to replay, revoke or crash anything.
DeliveriesFairness ==
  /\ \A w \in Workers : WF_deliveryVars(Work(w))
  /\ \A r \in Rows : WF_deliveryVars(Clock(r))

DeliveriesSpec == DeliveriesInit /\ [][DeliveriesNext]_deliveryVars /\ DeliveriesFairness

-----------------------------------------------------------------------------
(* Properties *)

DeliveriesTypeOK ==
  /\ deployed \in Deployments
  /\ rows \in [Rows -> Row]
  /\ active \subseteq Endpoints
  /\ work \in [Workers -> Job \cup {Idle}]
  /\ received \subseteq Rows
  /\ pending \in [Rows -> People \cup {None}]
  /\ replays \in 0 .. MaxReplays /\ crashes \in 0 .. MaxCrashes
  /\ lapsed \in BOOLEAN

\* Nothing accepted is lost: a row leaves the queue for good only when the other
\* side has it, whatever crashed or was answered late in between.
DoneWasReceived ==
  /\ DeliveriesTypeOK
  /\ \A r \in Rows \ Silent : rows[r].state = "done" => r \in received

\* As long as every worker keeps within its lease, no two have the same row in
\* hand: neither crashes nor replays hand out a row that is being posted.
OneHolderWithinLeases ==
  ~lapsed => \A v, w \in Workers :
               work[v].row = work[w].row /\ work[v] # Idle => v = w

\* What is settled stays settled: an event that OpenEPCIS captured is never put back in
\* the queue, and the dead letter of an event or a delivery goes back to work only by a
\* replay that was requested before; neither a second worker's late outcome nor a
\* replay that was approved too late does it.
SettledStaysSettled ==
  [][/\ \A r \in Events : rows[r].state = "done" => rows'[r].state = "done"
     /\ \A r \in Rows \ Exports :
          rows[r].state = "dead" /\ rows'[r].state = "waiting"
            => pending[r] # None /\ pending'[r] = None]_deliveryVars

\* Every row is delivered or becomes a dead letter in the end, unless its
\* endpoint is revoked or its worker is not deployed: rows that fail do not keep
\* others from being claimed, and what a crashed worker held is found again.
EveryRowSettles ==
  \A r \in Rows :
    rows[r].state = "waiting" ~>
      \/ rows[r].state \in {"done", "dead"}
      \/ r \in Events /\ "epcis" \notin deployed
      \/ r \in Hooks /\ EndpointOf[r] \notin active
      \/ r \in Exports /\ "storage" \notin deployed
=============================================================================
