------------------------------ MODULE CodeJobs ------------------------------
(***************************************************************************)
(* Code generation: jobs are requested against a monthly quota, approved,  *)
(* and generated by workers in chunks, one transaction each.  A worker     *)
(* takes the oldest job that no other has locked.  SSCCs come from a range *)
(* that the approval reserves; sequential serial numbers are counted from  *)
(* one within the job, random ones are derived from the job.               *)
(*                                                                         *)
(* Every command locks the row of its job, and creation and retry the      *)
(* tenant's quota too, so that a command is one step here; a worker holds  *)
(* its job locked from one step to the next.  One tenant.                  *)
(***************************************************************************)
EXTENDS Integers, FiniteSets

CONSTANTS
  Jobs,
  Rule,         \* [Jobs -> Rules]
  Series,       \* [Jobs -> what a sequential code has besides its number]
  Quantity,     \* [Jobs -> Nat]
  RequestedAt,  \* [Jobs -> Nat], the order workers take them in
  CodeWorkers, Prefixes, Nothing,
  LastMonth,    \* the last month modelled, a bound
  ChunkSize,    \* 10 000 in the code
  MaxCodes,     \* max_monthly_codes
  Capacity      \* [Prefixes -> Nat], ssccCapacity: 10^(16 - the prefix's length)

\* SSCC for pallets, the serial rule otherwise; the pallet jobs of before the
\* SSCC migration are marked, and can never generate.
Rules == {"SEQUENTIAL", "RANDOM", "SSCC", "LEGACY_NONCONFORMING"}

ASSUME CodeJobAssumption ==
  /\ IsFiniteSet(Jobs)
  /\ Rule \in [Jobs -> Rules]
  /\ Quantity \in [Jobs -> Nat \ {0}]
  /\ RequestedAt \in [Jobs -> Nat]
  /\ Nothing \notin Jobs \cup Prefixes
  /\ LastMonth \in Nat \ {0}
  /\ ChunkSize \in Nat \ {0} /\ MaxCodes \in Nat
  /\ Capacity \in [Prefixes -> Nat]

Months == 1 .. LastMonth

VARIABLES
  jobs,           \* code_generation_jobs
  codes,          \* serialized_objects, unique by code
  prefix,         \* tenant_settings.gs1_company_prefix, Nothing until it is set
  nextReference,  \* tenant_settings.sscc_next_reference
  usage,          \* tenant_usage_monthly.code_count of the current month
  month,
  locked,         \* the job each worker's transaction holds, or Nothing
  crossed         \* history: a release was booked in another month than its charge

quota == <<usage, crossed>>
jobVars == <<jobs, codes, prefix, nextReference, month, locked, quota>>

Statuses == {"absent", "PENDING_APPROVAL", "QUEUED", "RUNNING", "COMPLETED",
             "FAILED", "CANCELLED"}
Runnable == {"QUEUED", "RUNNING"}
JobRow == [status : Statuses, generated : Nat,
           prefix : Prefixes \cup {Nothing}, start : Nat,  \* the SSCC allocation snapshot
           charged : Months]                            \* the month of its last charge

Legacy == {j \in Jobs : Rule[j] = "LEGACY_NONCONFORMING"}

\* The sum of f over S, counted: as many pairs as there are units.
SumOf(f, S) == Cardinality(UNION {{j} \X (1 .. f[j]) : j \in S})
Total(S) == SumOf(Quantity, S)

\* The jobs of before the migration were charged to the same quota.
ASSUME LegacyAssumption == Total(Legacy) <= MaxCodes

\* A month in which some jobs were cancelled before; legacy ones that were not
\* are found in the queue, their codes charged to the month.
JobsInitWith(cancelled) ==
  /\ jobs = [j \in Jobs |->
       [status |-> IF j \in cancelled THEN "CANCELLED"
                   ELSE IF j \in Legacy THEN "QUEUED" ELSE "absent",
        generated |-> 0, prefix |-> Nothing, start |-> 0, charged |-> 1]]
  /\ codes = {}
  /\ prefix = Nothing
  /\ nextReference = 0
  /\ usage = Total(Legacy \ cancelled)
  /\ month = 1
  /\ locked = [w \in CodeWorkers |-> Nothing]
  /\ crossed = FALSE

JobsInit == JobsInitWith({})

Unlocked(j) == \A w \in CodeWorkers : locked[w] # j

-----------------------------------------------------------------------------
(* The quota *)

Remaining(j) == Quantity[j] - jobs[j].generated

\* Mutant: what was used before is not counted.
ChargeUnused(j) ==
  /\ Remaining(j) <= MaxCodes
  /\ usage' = usage + Remaining(j)
  /\ UNCHANGED crossed

Charge(j) ==
  /\ usage + Remaining(j) <= MaxCodes
  /\ usage' = usage + Remaining(j)
  /\ UNCHANGED crossed

\* Mutant: not down to zero only.
ReleaseUnclamped(j) ==
  /\ usage' = usage - Remaining(j)
  /\ crossed' = (crossed \/ jobs[j].charged # month)

\* Always booked in the current month, down to zero.
Release(j) ==
  /\ usage' = IF usage > Remaining(j) THEN usage - Remaining(j) ELSE 0
  /\ crossed' = (crossed \/ jobs[j].charged # month)

-----------------------------------------------------------------------------
(* Commands *)

Create(j) ==
  /\ jobs[j].status = "absent"
  /\ Charge(j)
  /\ jobs' = [jobs EXCEPT ![j].status = "PENDING_APPROVAL", ![j].charged = month]
  /\ UNCHANGED <<codes, prefix, nextReference, month, locked>>

ApproveSerial(j) ==
  /\ jobs[j].status = "PENDING_APPROVAL" /\ Unlocked(j)
  /\ Rule[j] \in {"SEQUENTIAL", "RANDOM"}
  /\ jobs' = [jobs EXCEPT ![j].status = "QUEUED"]
  /\ UNCHANGED <<codes, prefix, nextReference, month, locked, quota>>

\* Mutant: the range is reserved without advancing the reference past its end.
ApprovePalletsShort(j) ==
  /\ jobs[j].status = "PENDING_APPROVAL" /\ Unlocked(j)
  /\ Rule[j] = "SSCC" /\ prefix # Nothing
  /\ nextReference + Quantity[j] <= Capacity[prefix]
  /\ nextReference' = nextReference + Quantity[j] - 1
  /\ jobs' = [jobs EXCEPT ![j].status = "QUEUED", ![j].prefix = prefix,
                          ![j].start = nextReference]
  /\ UNCHANGED <<codes, prefix, month, locked, quota>>

\* The settings are locked, the range is reserved for good and kept in the job.
ApprovePallets(j) ==
  /\ jobs[j].status = "PENDING_APPROVAL" /\ Unlocked(j)
  /\ Rule[j] = "SSCC" /\ prefix # Nothing
  /\ nextReference + Quantity[j] <= Capacity[prefix]
  /\ nextReference' = nextReference + Quantity[j]
  /\ jobs' = [jobs EXCEPT ![j].status = "QUEUED", ![j].prefix = prefix,
                          ![j].start = nextReference]
  /\ UNCHANGED <<codes, prefix, month, locked, quota>>

Cancel(j) ==
  /\ jobs[j].status \in {"PENDING_APPROVAL", "QUEUED", "RUNNING"} /\ Unlocked(j)
  /\ jobs' = [jobs EXCEPT ![j].status = "CANCELLED"]
  /\ Release(j)
  /\ UNCHANGED <<codes, prefix, nextReference, month, locked>>

Retry(j) ==
  /\ jobs[j].status = "FAILED" /\ Unlocked(j)
  /\ Charge(j)
  /\ jobs' = [jobs EXCEPT ![j].status = "QUEUED", ![j].charged = month]
  /\ UNCHANGED <<codes, prefix, nextReference, month, locked>>

\* Mutant: the prefix can be corrected at any time.
SetPrefixAnytime(p) ==
  /\ prefix' = p
  /\ UNCHANGED <<jobs, codes, nextReference, month, locked, quota>>

\* The prefix is fixed once an SSCC was allocated.
SetPrefix(p) ==
  /\ nextReference > 0 /\ prefix # Nothing => p = prefix
  /\ prefix' = p
  /\ UNCHANGED <<jobs, codes, nextReference, month, locked, quota>>

-----------------------------------------------------------------------------
(* Workers *)

OldestJob(S) == CHOOSE j \in S : \A other \in S : RequestedAt[j] <= RequestedAt[other]

\* Mutant: only the jobs that have not started are looked for.
TakeJobQueued(w) ==
  LET open == {j \in Jobs : jobs[j].status = "QUEUED" /\ Unlocked(j)}
  IN /\ locked[w] = Nothing /\ open # {}
     /\ locked' = [locked EXCEPT ![w] = OldestJob(open)]
     /\ UNCHANGED <<jobs, codes, prefix, nextReference, month, quota>>

TakeJob(w) ==
  LET open == {j \in Jobs : jobs[j].status \in Runnable /\ Unlocked(j)}
  IN /\ locked[w] = Nothing /\ open # {}
     /\ locked' = [locked EXCEPT ![w] = OldestJob(open)]
     /\ UNCHANGED <<jobs, codes, prefix, nextReference, month, quota>>

\* What the statement of the next chunk would insert.
Code(j, n) ==
  CASE Rule[j] = "SSCC" -> <<"SSCC", jobs[j].prefix, jobs[j].start + n - 1>>
    [] Rule[j] = "SEQUENTIAL" -> <<"SEQUENTIAL", Series[j], n>>
    [] OTHER -> <<"RANDOM", j, n>>
ChunkLast(j) == jobs[j].generated + (IF Remaining(j) < ChunkSize
                                     THEN Remaining(j) ELSE ChunkSize)
Chunk(j) == {Code(j, n) : n \in jobs[j].generated + 1 .. ChunkLast(j)}

Unlock(w) == locked' = [locked EXCEPT ![w] = Nothing]

\* A chunk that cannot be generated fails the job and releases what is left.
FailJob(w) ==
  LET j == locked[w]
  IN /\ j # Nothing /\ j \in Legacy
     /\ jobs' = [jobs EXCEPT ![j].status = "FAILED"]
     /\ Release(j)
     /\ Unlock(w)
     /\ UNCHANGED <<codes, prefix, nextReference, month>>

\* Mutant: the codes that were there before count as generated.
GenerateCounted(w) ==
  LET j == locked[w]
  IN /\ j # Nothing /\ j \notin Legacy
     /\ codes' = codes \cup Chunk(j)
     /\ jobs' = [jobs EXCEPT
          ![j].generated = ChunkLast(j),
          ![j].status = IF ChunkLast(j) >= Quantity[j] THEN "COMPLETED" ELSE "RUNNING"]
     /\ Unlock(w)
     /\ UNCHANGED <<prefix, nextReference, month, quota>>

\* ON CONFLICT DO NOTHING: only the codes that were not there count.
Generate(w) ==
  LET j == locked[w]
      generated == jobs[j].generated + Cardinality(Chunk(j) \ codes)
  IN /\ j # Nothing /\ j \notin Legacy
     /\ codes' = codes \cup Chunk(j)
     /\ jobs' = [jobs EXCEPT
          ![j].generated = generated,
          ![j].status = IF generated >= Quantity[j] THEN "COMPLETED" ELSE "RUNNING"]
     /\ Unlock(w)
     /\ UNCHANGED <<prefix, nextReference, month, quota>>

\* The process or its connection ends: the transaction is rolled back.
Rollback(w) ==
  /\ locked[w] # Nothing
  /\ Unlock(w)
  /\ UNCHANGED <<jobs, codes, prefix, nextReference, month, quota>>

NextMonth ==
  /\ month + 1 \in Months
  /\ month' = month + 1
  /\ usage' = 0
  /\ UNCHANGED <<jobs, codes, prefix, nextReference, locked, crossed>>

-----------------------------------------------------------------------------

WorkOnJobs(w) == TakeJob(w) \/ FailJob(w) \/ Generate(w)

JobsNext ==
  \/ \E j \in Jobs :
       Create(j) \/ ApproveSerial(j) \/ ApprovePallets(j) \/ Cancel(j) \/ Retry(j)
  \/ \E p \in Prefixes : SetPrefix(p)
  \/ \E w \in CodeWorkers : WorkOnJobs(w) \/ Rollback(w)
  \/ NextMonth

\* A worker that can take or finish a chunk does; its process is restarted when it
\* ends, and does not end every time: hence strong fairness of a finished chunk.
JobsFairness == \A w \in CodeWorkers :
  WF_jobVars(TakeJob(w)) /\ SF_jobVars(FailJob(w)) /\ SF_jobVars(Generate(w))

JobsSpec == JobsInit /\ [][JobsNext]_jobVars /\ JobsFairness

-----------------------------------------------------------------------------
(* Properties *)

JobsTypeOK ==
  /\ jobs \in [Jobs -> JobRow]
  /\ prefix \in Prefixes \cup {Nothing}
  /\ nextReference \in Nat
  /\ usage \in Nat
  /\ month \in Months
  /\ locked \in [CodeWorkers -> Jobs \cup {Nothing}]
  /\ crossed \in BOOLEAN

Allocated(j) == Rule[j] = "SSCC" /\ jobs[j].prefix # Nothing

\* The SSCC ranges of two pallet jobs never overlap and end before the next
\* reference, which the prefix has digits for, whatever was cancelled in between:
\* SSCCs are never reused.
SsccRangesDisjoint ==
  /\ prefix # Nothing => nextReference <= Capacity[prefix]
  /\ \A j \in Jobs : Allocated(j) => jobs[j].start + Quantity[j] <= nextReference
  /\ \A i, j \in Jobs : Allocated(i) /\ Allocated(j) /\ i # j =>
       \/ jobs[i].start + Quantity[i] <= jobs[j].start
       \/ jobs[j].start + Quantity[j] <= jobs[i].start

\* The ranges are of one prefix: it does not change under allocated numbers.
OnePrefix == \A j \in Jobs : Allocated(j) => jobs[j].prefix = prefix

\* Whatever happens to jobs, no SSCC is given out twice.
SsccSound == SsccRangesDisjoint /\ OnePrefix

\* A completed job has exactly the number of codes that was ordered, and no two
\* jobs have counted the same code, whatever chunks were rolled back.
GeneratedExactly ==
  /\ \A j \in Jobs : jobs[j].status = "COMPLETED" => jobs[j].generated = Quantity[j]
  /\ Cardinality(codes) = SumOf([j \in Jobs |-> jobs[j].generated], Jobs)

\* What the jobs charged to a month hold: their codes, and those still to come.
Held(j) == CASE jobs[j].status = "absent" -> 0
             [] jobs[j].status \in {"FAILED", "CANCELLED"} -> jobs[j].generated
             [] OTHER -> Quantity[j]
Owed(m) == SumOf([j \in Jobs |-> Held(j)], {j \in Jobs : jobs[j].charged = m})

\* As long as what is released was charged in the same month, the month's usage
\* is what its jobs hold, and within the quota.
UsageIsOwed == ~crossed => usage = Owed(month) /\ usage <= MaxCodes

\* Codes are made as they were ordered, and charged as they are made.
CodesSound == JobsTypeOK /\ GeneratedExactly /\ UsageIsOwed

Ended(j) == jobs[j].status \in {"COMPLETED", "FAILED", "CANCELLED"}

\* A job that was approved is generated, fails or is cancelled, whatever crashes,
\* unless there is a job whose next chunk another one has generated already, or
\* failed jobs, being the oldest, are retried for ever.
Stuck(j) == jobs[j].status \in Runnable /\ Chunk(j) \subseteq codes
RetriesStop == \A j \in Jobs : <>[][~Retry(j)]_jobVars
JobsEndUnlessStuck ==
  RetriesStop => \A j \in Jobs :
    jobs[j].status = "QUEUED" ~> Ended(j) \/ \E i \in Jobs : Stuck(i)

-----------------------------------------------------------------------------
(* What the documentation says and the code does not do *)

\* apps/scan-api/README.md: after the approval the code worker generates the job.
ApprovedJobsEnd == \A j \in Jobs : jobs[j].status = "QUEUED" ~> Ended(j)

\* "Monthly code quota would be exceeded": no month is charged more than that.
QuotaHonoured == \A m \in Months : Owed(m) <= MaxCodes
=============================================================================
