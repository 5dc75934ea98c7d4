--------------------------- MODULE CodeJobsProofs ---------------------------
(***************************************************************************)
(* Proofs about CodeJobs for every set of jobs, workers and prefixes, every *)
(* quantity, chunk size and quota.                                         *)
(***************************************************************************)
EXTENDS CodeJobs, FiniteSetTheorems, WellFoundedInduction, TLAPS

\* The invariant of the ranges.  Without a prefix nothing was allocated, so that the
\* first prefix finds the reference at zero; with an allocation the reference is
\* positive, and SetPrefix cannot change the prefix.
SsccInv ==
  /\ jobs \in [Jobs -> JobRow]
  /\ prefix \in Prefixes \cup {Nothing}
  /\ nextReference \in Nat
  /\ month \in Months
  /\ locked \in [CodeWorkers -> Jobs \cup {Nothing}]
  /\ prefix = Nothing => nextReference = 0
  /\ SsccRangesDisjoint
  /\ OnePrefix

-----------------------------------------------------------------------------
(* Lemmas about the helpers *)

\* The worker's query returns one of the jobs it selects from: there is an oldest.
LEMMA OldestIsOne ==
  ASSUME NEW S \in SUBSET Jobs, S # {}
  PROVE  OldestJob(S) \in S
<1> DEFINE times == {RequestedAt[j] : j \in S}
<1>1. times \subseteq Nat /\ times # {}
  BY CodeJobAssumption
<1>2. PICK t \in times : \A u \in times : ~ (<<u, t>> \in OpToRel(<, Nat))
  <2> HIDE DEF times
  <2> QED BY <1>1, NatLessThanWellFounded, WFMin
<1>3. \A u \in times : t <= u
  <2> SUFFICES ASSUME NEW u \in times PROVE ~ (u < t)
    BY <1>1
  <2>1. <<u, t>> \in Nat \X Nat
    BY <1>1
  <2> QED BY <1>2, <2>1 DEF OpToRel
<1>4. \E j \in S : \A other \in S : RequestedAt[j] <= RequestedAt[other]
  BY <1>3
<1> QED BY <1>4 DEF OldestJob

\* A chunk is a finite set of codes.
LEMMA ChunkFinite ==
  ASSUME SsccInv, NEW j \in Jobs
  PROVE  IsFiniteSet(Chunk(j))
<1> DEFINE numbers == jobs[j].generated + 1 .. ChunkLast(j)
           code == [n \in numbers |-> Code(j, n)]
<1>1. jobs[j].generated + 1 \in Int /\ ChunkLast(j) \in Int
  BY CodeJobAssumption DEF SsccInv, JobRow, ChunkLast, Remaining
<1>2. IsFiniteSet(numbers)
  BY <1>1, FS_Interval
<1>3. code \in Surjection(numbers, Chunk(j))
  BY DEF Chunk, Surjection
<1> HIDE DEF numbers, code
<1> QED BY <1>2, <1>3, FS_Surjection

\* A step that keeps every allocation, the prefix and the reference keeps the
\* invariant, once the types are known to be kept.
LEMMA AllocationsKept ==
  ASSUME SsccInv,
         jobs' \in [Jobs -> JobRow],
         \A j \in Jobs : jobs'[j].prefix = jobs[j].prefix
                         /\ jobs'[j].start = jobs[j].start,
         prefix' = prefix, nextReference' = nextReference,
         month' \in Months,
         locked' \in [CodeWorkers -> Jobs \cup {Nothing}]
  PROVE  SsccInv'
  BY DEF SsccInv, SsccRangesDisjoint, OnePrefix, Allocated

\* A step that only moves a job to another status, or charges it to this month.
LEMMA StatusStep ==
  ASSUME SsccInv, NEW j \in Jobs, NEW s \in Statuses, NEW m \in Months,
         jobs' = [jobs EXCEPT ![j].status = s, ![j].charged = m],
         prefix' = prefix, nextReference' = nextReference, month' = month,
         locked' \in [CodeWorkers -> Jobs \cup {Nothing}]
  PROVE  SsccInv'
<1>1. jobs' \in [Jobs -> JobRow]
  BY DEF SsccInv, JobRow
<1>2. \A k \in Jobs : jobs'[k].prefix = jobs[k].prefix
                      /\ jobs'[k].start = jobs[k].start
  BY DEF SsccInv, JobRow
<1> QED BY <1>1, <1>2, AllocationsKept DEF SsccInv

-----------------------------------------------------------------------------
(* The invariant of the ranges is inductive *)

\* Approving a pallet job reserves the numbers from the reference on.
LEMMA ApprovalStep ==
  ASSUME SsccInv, NEW j \in Jobs, ApprovePallets(j)
  PROVE  SsccInv'
<1> DEFINE new == [jobs[j] EXCEPT !.status = "QUEUED", !.prefix = prefix,
                                  !.start = nextReference]
<1>1. jobs' = [jobs EXCEPT ![j] = new]
  BY DEF ApprovePallets, SsccInv
<1>2. /\ new \in JobRow
      /\ new.prefix = prefix /\ new.start = nextReference
  BY DEF SsccInv, JobRow, Statuses
<1>3. Quantity[j] \in Nat \ {0} /\ prefix \in Prefixes
      /\ nextReference' = nextReference + Quantity[j]
      /\ nextReference' <= Capacity[prefix]
      /\ prefix' = prefix /\ UNCHANGED <<month, locked>>
  BY CodeJobAssumption DEF ApprovePallets, SsccInv
<1> HIDE DEF new
<1>4. jobs' \in [Jobs -> JobRow] /\ jobs'[j] = new
      /\ \A k \in Jobs \ {j} : jobs'[k] = jobs[k]
  BY <1>1, <1>2 DEF SsccInv
<1>5. \A k \in Jobs : jobs[k].start \in Nat /\ Quantity[k] \in Nat
  BY CodeJobAssumption DEF SsccInv, JobRow
<1>6. \A k \in Jobs \ {j} : Allocated(k)' => Allocated(k)
  BY <1>4 DEF Allocated
<1>7. (\A k \in Jobs : Allocated(k) => jobs[k].start + Quantity[k] <= nextReference)'
  BY <1>2, <1>3, <1>4, <1>5, <1>6 DEF SsccInv, SsccRangesDisjoint
<1>8. SsccRangesDisjoint'
  <2>1. ASSUME NEW a \in Jobs, NEW b \in Jobs,
               Allocated(a)', Allocated(b)', a # b
        PROVE  (\/ jobs[a].start + Quantity[a] <= jobs[b].start
                \/ jobs[b].start + Quantity[b] <= jobs[a].start)'
    <3>1. CASE a = j
      BY <1>2, <1>4, <1>5, <1>6, <2>1, <3>1 DEF SsccInv, SsccRangesDisjoint
    <3>2. CASE b = j
      BY <1>2, <1>4, <1>5, <1>6, <2>1, <3>2 DEF SsccInv, SsccRangesDisjoint
    <3>3. CASE a # j /\ b # j
      BY <1>4, <1>6, <2>1, <3>3 DEF SsccInv, SsccRangesDisjoint
    <3> QED BY <3>1, <3>2, <3>3
  <2> QED BY <1>3, <1>7, <2>1 DEF SsccRangesDisjoint
<1>9. OnePrefix'
  BY <1>2, <1>3, <1>4, <1>6 DEF SsccInv, OnePrefix
<1> QED BY <1>3, <1>4, <1>8, <1>9, CodeJobAssumption DEF SsccInv

\* A prefix is set before anything is allocated, or it is the one there is.
LEMMA PrefixStep ==
  ASSUME SsccInv, NEW p \in Prefixes, SetPrefix(p)
  PROVE  SsccInv'
<1>1. CASE nextReference = 0
  <2>1. \A j \in Jobs : ~ Allocated(j)
    <3> SUFFICES ASSUME NEW j \in Jobs, Allocated(j) PROVE FALSE
      OBVIOUS
    <3>1. jobs[j].start + Quantity[j] <= 0
      BY <1>1 DEF SsccInv, SsccRangesDisjoint
    <3>2. jobs[j].start \in Nat /\ Quantity[j] \in Nat \ {0}
      BY CodeJobAssumption DEF SsccInv, JobRow
    <3> QED BY <3>1, <3>2
  <2> QED BY <1>1, <2>1, CodeJobAssumption
          DEF SetPrefix, SsccInv, SsccRangesDisjoint, OnePrefix, Allocated
<1>2. CASE nextReference # 0
  <2>1. prefix' = prefix
    BY <1>2 DEF SetPrefix, SsccInv
  <2> QED BY <2>1, AllocationsKept DEF SetPrefix, SsccInv
<1> QED BY <1>1, <1>2

\* A generated chunk changes no allocation.
LEMMA GenerateStep ==
  ASSUME SsccInv, NEW w \in CodeWorkers, Generate(w)
  PROVE  SsccInv'
<1> DEFINE j == locked[w]
           generated == jobs[j].generated + Cardinality(Chunk(j) \ codes)
           status == IF generated >= Quantity[j] THEN "COMPLETED" ELSE "RUNNING"
<1>1. j \in Jobs
  BY DEF Generate, SsccInv
<1>2. generated \in Nat
  <2>1. IsFiniteSet(Chunk(j) \ codes)
    BY <1>1, ChunkFinite, FS_Subset
  <2>2. Cardinality(Chunk(j) \ codes) \in Nat
    BY <2>1, FS_CardinalityType
  <2>3. jobs[j].generated \in Nat
    BY <1>1 DEF SsccInv, JobRow
  <2> QED BY <2>2, <2>3
<1>3. jobs' = [jobs EXCEPT ![j].generated = generated, ![j].status = status]
      /\ UNCHANGED <<prefix, nextReference, month>>
      /\ locked' = [locked EXCEPT ![w] = Nothing]
  BY DEF Generate, Unlock
<1>4. status \in Statuses
  BY DEF Statuses
<1> HIDE DEF j, generated, status
<1>5. jobs' \in [Jobs -> JobRow]
  BY <1>1, <1>2, <1>3, <1>4 DEF SsccInv, JobRow
<1>6. \A k \in Jobs : jobs'[k].prefix = jobs[k].prefix
                      /\ jobs'[k].start = jobs[k].start
  BY <1>1, <1>3 DEF SsccInv, JobRow
<1>7. locked' \in [CodeWorkers -> Jobs \cup {Nothing}]
  BY <1>3 DEF SsccInv
<1> QED BY <1>3, <1>5, <1>6, <1>7, AllocationsKept DEF SsccInv

\* Every step keeps the invariant.
LEMMA SsccStep ==
  ASSUME SsccInv, [JobsNext]_jobVars
  PROVE  SsccInv'
<1>1. CASE \E j \in Jobs :
             Create(j) \/ ApproveSerial(j) \/ ApprovePallets(j) \/ Cancel(j) \/ Retry(j)
  <2>1. PICK j \in Jobs :
          Create(j) \/ ApproveSerial(j) \/ ApprovePallets(j) \/ Cancel(j) \/ Retry(j)
    BY <1>1
  <2>2. jobs \in [Jobs -> JobRow] /\ jobs[j].charged \in Months
        /\ month \in Months /\ locked \in [CodeWorkers -> Jobs \cup {Nothing}]
        /\ "PENDING_APPROVAL" \in Statuses /\ "QUEUED" \in Statuses
        /\ "CANCELLED" \in Statuses
    BY DEF SsccInv, JobRow, Statuses
  <2>3. \A s \in Statuses : [jobs EXCEPT ![j].status = s]
          = [jobs EXCEPT ![j].status = s, ![j].charged = jobs[j].charged]
    BY <2>2 DEF JobRow
  <2>4. CASE Create(j)
    BY <2>2, <2>4, StatusStep DEF Create
  <2>5. CASE ApproveSerial(j)
    <3>1. jobs' = [jobs EXCEPT ![j].status = "QUEUED", ![j].charged = jobs[j].charged]
      BY <2>2, <2>3, <2>5 DEF ApproveSerial
    <3>2. UNCHANGED <<prefix, nextReference, month, locked>>
      BY <2>5 DEF ApproveSerial
    <3> QED BY <2>2, <3>1, <3>2, StatusStep
  <2>6. CASE ApprovePallets(j)
    BY <2>6, ApprovalStep
  <2>7. CASE Cancel(j)
    <3>1. jobs' = [jobs EXCEPT ![j].status = "CANCELLED",
                               ![j].charged = jobs[j].charged]
      BY <2>2, <2>3, <2>7 DEF Cancel
    <3>2. UNCHANGED <<prefix, nextReference, month, locked>>
      BY <2>7 DEF Cancel
    <3> QED BY <2>2, <3>1, <3>2, StatusStep
  <2>8. CASE Retry(j)
    BY <2>2, <2>8, StatusStep DEF Retry
  <2> QED BY <2>1, <2>4, <2>5, <2>6, <2>7, <2>8
<1>2. CASE \E p \in Prefixes : SetPrefix(p)
  BY <1>2, PrefixStep
<1>3. CASE \E w \in CodeWorkers : WorkOnJobs(w) \/ Rollback(w)
  <2>1. PICK w \in CodeWorkers : WorkOnJobs(w) \/ Rollback(w)
    BY <1>3
  <2>2. CASE TakeJob(w)
    <3> DEFINE open == {j \in Jobs : jobs[j].status \in Runnable /\ Unlocked(j)}
    <3>1. OldestJob(open) \in Jobs
      BY <2>2, OldestIsOne DEF TakeJob
    <3>2. UNCHANGED <<jobs, prefix, nextReference, month>>
          /\ locked' \in [CodeWorkers -> Jobs \cup {Nothing}]
      BY <2>2, <3>1 DEF TakeJob, SsccInv
    <3> QED BY <3>2, AllocationsKept DEF SsccInv
  <2>3. CASE FailJob(w)
    <3>1. PICK j \in Jobs : j = locked[w]
      BY <2>3 DEF FailJob, SsccInv
    <3>2. jobs' = [jobs EXCEPT ![j].status = "FAILED"]
          /\ UNCHANGED <<prefix, nextReference, month>>
      BY <2>3, <3>1 DEF FailJob
    <3>3. locked' \in [CodeWorkers -> Jobs \cup {Nothing}]
      BY <2>3 DEF FailJob, Unlock, SsccInv
    <3>4. "FAILED" \in Statuses
      BY DEF Statuses
    <3>5. PICK m \in Months : m = jobs[j].charged
      BY DEF SsccInv, JobRow
    <3>6. jobs' = [jobs EXCEPT ![j].status = "FAILED", ![j].charged = m]
      BY <3>2, <3>5 DEF SsccInv, JobRow
    <3> QED BY <3>2, <3>3, <3>4, <3>6, StatusStep
  <2>4. CASE Generate(w)
    BY <2>4, GenerateStep
  <2>5. CASE Rollback(w)
    <3>1. UNCHANGED <<jobs, prefix, nextReference, month>>
          /\ locked' \in [CodeWorkers -> Jobs \cup {Nothing}]
      BY <2>5 DEF Rollback, Unlock, SsccInv
    <3> QED BY <3>1, AllocationsKept DEF SsccInv
  <2> QED BY <2>1, <2>2, <2>3, <2>4, <2>5 DEF WorkOnJobs
<1>4. CASE NextMonth
  BY <1>4, AllocationsKept DEF NextMonth, SsccInv
<1>5. CASE UNCHANGED jobVars
  BY <1>5, AllocationsKept DEF jobVars, SsccInv
<1> QED BY <1>1, <1>2, <1>3, <1>4, <1>5 DEF JobsNext

\* It holds at first, whatever jobs were cancelled before.
LEMMA SsccInit ==
  ASSUME NEW cancelled \in SUBSET Jobs, JobsInitWith(cancelled)
  PROVE  SsccInv
<1>1. jobs \in [Jobs -> JobRow] /\ month \in Months
  BY CodeJobAssumption DEF JobsInitWith, JobRow, Statuses, Months
<1>2. \A j \in Jobs : jobs[j].prefix = Nothing
  BY DEF JobsInitWith
<1> QED BY <1>1, <1>2 DEF JobsInitWith, SsccInv, SsccRangesDisjoint, OnePrefix, Allocated

-----------------------------------------------------------------------------
(* Sums *)

\* A sum of natural numbers is one.
LEMMA SumFinite ==
  ASSUME NEW f, NEW S, IsFiniteSet(S), \A j \in S : f[j] \in Nat
  PROVE  /\ IsFiniteSet(UNION {{j} \X (1 .. f[j]) : j \in S})
         /\ SumOf(f, S) \in Nat
<1> DEFINE part(j) == {j} \X (1 .. f[j])
           parts == {part(j) : j \in S}
           parting == [j \in S |-> part(j)]
<1>1. \A j \in S : IsFiniteSet(part(j))
  <2> TAKE j \in S
  <2>1. 1 \in Int /\ f[j] \in Int
    OBVIOUS
  <2>2. IsFiniteSet(1 .. f[j]) /\ IsFiniteSet({j})
    BY <2>1, FS_Interval, FS_Singleton
  <2> QED BY <2>2, FS_Product
<1>2. parting \in Surjection(S, parts)
  BY DEF Surjection
<1>3. IsFiniteSet(parts)
  <2> HIDE DEF parting, parts
  <2> QED BY <1>2, FS_Surjection
<1>4. IsFiniteSet(UNION parts)
  <2>1. \A T \in parts : IsFiniteSet(T)
    BY <1>1
  <2> HIDE DEF parts
  <2> QED BY <1>3, <2>1, FS_UNION
<1> QED BY <1>4, FS_CardinalityType DEF SumOf

\* One more summand.
LEMMA SumAdd ==
  ASSUME NEW f, NEW S, IsFiniteSet(S), NEW j, j \notin S, \A k \in S \cup {j} : f[k] \in Nat
  PROVE  SumOf(f, S \cup {j}) = SumOf(f, S) + f[j]
<1> DEFINE old == UNION {{k} \X (1 .. f[k]) : k \in S}
           new == {j} \X (1 .. f[j])
<1>1. IsFiniteSet(old)
  BY SumFinite
<1>2. IsFiniteSet(new) /\ Cardinality(new) = f[j]
  <2>1. IsFiniteSet(1 .. f[j]) /\ Cardinality(1 .. f[j]) = f[j]
    BY FS_Interval
  <2>2. IsFiniteSet({j}) /\ Cardinality({j}) = 1
    BY FS_Singleton
  <2>3. IsFiniteSet(new) /\ Cardinality(new) = Cardinality({j}) * Cardinality(1 .. f[j])
    BY <2>1, <2>2, FS_Product
  <2> QED BY <2>1, <2>2, <2>3
<1>3. old \cap new = {}
  OBVIOUS
<1>4. UNION {{k} \X (1 .. f[k]) : k \in S \cup {j}} = old \cup new
  OBVIOUS
<1>5. SumOf(f, S) = Cardinality(old) /\ SumOf(f, S \cup {j}) = Cardinality(old \cup new)
  BY <1>4 DEF SumOf
<1> HIDE DEF old, new
<1>6. Cardinality(old \cup new) = Cardinality(old) + Cardinality(new) - Cardinality({})
  BY <1>1, <1>2, <1>3, FS_Union
<1>7. Cardinality(old) \in Nat /\ Cardinality({}) = 0 /\ f[j] \in Nat
  BY <1>1, FS_CardinalityType, FS_EmptySet
<1> QED BY <1>2, <1>5, <1>6, <1>7

\* Summands that are alike, and that may be left out because they are zero.
LEMMA SumSame ==
  ASSUME NEW f, NEW g, NEW S, NEW T \in SUBSET S,
         \A j \in T : f[j] = g[j], \A j \in S \ T : g[j] = 0
  PROVE  SumOf(f, T) = SumOf(g, S)
<1>1. UNION {{j} \X (1 .. f[j]) : j \in T} = UNION {{j} \X (1 .. g[j]) : j \in S}
  OBVIOUS
<1> QED BY <1>1 DEF SumOf

\* One summand changes.
LEMMA SumChange ==
  ASSUME NEW f, NEW g, NEW S, IsFiniteSet(S), NEW j \in S,
         \A k \in S : f[k] \in Nat /\ g[k] \in Nat, \A k \in S \ {j} : f[k] = g[k]
  PROVE  /\ SumOf(f, S) \in Nat /\ f[j] <= SumOf(f, S)
         /\ SumOf(g, S) = SumOf(f, S) - f[j] + g[j]
<1> DEFINE rest == S \ {j}
<1>1. IsFiniteSet(rest) /\ S = rest \cup {j} /\ j \notin rest
  BY FS_RemoveElement
<1>2. SumOf(f, rest) = SumOf(g, rest)
  BY SumSame
<1>3. SumOf(f, rest) \in Nat
  BY <1>1, SumFinite
<1> HIDE DEF rest
<1>4. SumOf(f, S) = SumOf(f, rest) + f[j] /\ SumOf(g, S) = SumOf(g, rest) + g[j]
  BY <1>1, SumAdd
<1> QED BY <1>2, <1>3, <1>4

-----------------------------------------------------------------------------
(* The invariant of codes and usage *)

\* A worker holds a job that can run, alone.
LockedRuns == \A w \in CodeWorkers : locked[w] # Nothing =>
  jobs[locked[w]].status \in Runnable /\ \A v \in CodeWorkers : locked[v] = locked[w] => v = w

\* No job is charged ahead.  Only legacy jobs fail, and they generate nothing, so that a
\* retry is charged all of it.
JobOK(j) ==
  /\ jobs[j].generated <= Quantity[j] /\ jobs[j].charged <= month
  /\ jobs[j].status = "absent" \/ j \in Legacy => jobs[j].generated = 0
  /\ jobs[j].status = "FAILED" => j \in Legacy

CodesInv ==
  /\ SsccInv /\ usage \in Nat /\ crossed \in BOOLEAN /\ IsFiniteSet(codes)
  /\ LockedRuns /\ (\A j \in Jobs : JobOK(j)) /\ GeneratedExactly /\ UsageIsOwed

\* What a job contributes to a month.
Share(j, m) == IF jobs[j].charged = m THEN Held(j) ELSE 0

\* A sum over some jobs is one over all, where the others have no share.
LEMMA OwedIsShares ==
  ASSUME NEW h \in [Jobs -> Nat], NEW T \in SUBSET Jobs
  PROVE  SumOf(h, T) = SumOf([j \in Jobs |-> IF j \in T THEN h[j] ELSE 0], Jobs)
BY SumSame

\* What is owed for a month changes with the share of the job that is written.
LEMMA OwedStep ==
  ASSUME SsccInv, jobs' \in [Jobs -> JobRow], NEW j \in Jobs, NEW m,
         \A k \in Jobs \ {j} : jobs'[k] = jobs[k]
  PROVE  /\ Owed(m) \in Nat /\ Share(j, m) \in Nat /\ Share(j, m)' \in Nat
         /\ Share(j, m) <= Owed(m)
         /\ Owed(m)' = Owed(m) - Share(j, m) + Share(j, m)'
<1> DEFINE h == [k \in Jobs |-> Held(k)]
           T == {k \in Jobs : jobs[k].charged = m}
           f == [k \in Jobs |-> Share(k, m)]
<1>1. \A k \in Jobs : Held(k) \in Nat /\ Held(k)' \in Nat
  BY CodeJobAssumption DEF SsccInv, JobRow, Held
<1>2. Owed(m) = SumOf(f, Jobs)
  <2>1. h \in [Jobs -> Nat] /\ T \in SUBSET Jobs
    BY <1>1
  <2>2. f = [k \in Jobs |-> IF k \in T THEN h[k] ELSE 0]
    BY DEF Share
  <2>3. Owed(m) = SumOf(h, T)
    BY DEF Owed
  <2> HIDE DEF h, T, f
  <2> QED BY <2>1, <2>2, <2>3, OwedIsShares
<1>3. Owed(m)' = SumOf(f', Jobs)
  <2>1. h' \in [Jobs -> Nat] /\ T' \in SUBSET Jobs
    BY <1>1
  <2>2. f' = [k \in Jobs |-> IF k \in T' THEN h'[k] ELSE 0]
    BY DEF Share
  <2>3. Owed(m)' = SumOf(h', T')
    BY DEF Owed
  <2> HIDE DEF h, T, f
  <2> QED BY <2>1, <2>2, <2>3, OwedIsShares
<1>4. /\ \A k \in Jobs : f[k] \in Nat /\ f'[k] \in Nat
      /\ \A k \in Jobs \ {j} : f[k] = f'[k]
      /\ f[j] = Share(j, m) /\ f'[j] = Share(j, m)'
  BY <1>1 DEF Share, Held
<1>5. IsFiniteSet(Jobs)
  BY CodeJobAssumption
<1> HIDE DEF f
<1>6. /\ SumOf(f, Jobs) \in Nat /\ f[j] <= SumOf(f, Jobs)
      /\ SumOf(f', Jobs) = SumOf(f, Jobs) - f[j] + f'[j]
  BY <1>4, <1>5, SumChange
<1> QED BY <1>2, <1>3, <1>4, <1>6

\* So the usage is what is owed if it moves with that share.
LEMMA UsageStep ==
  ASSUME CodesInv, jobs' \in [Jobs -> JobRow], NEW j \in Jobs, NEW m, month = m, month' = m,
         \A k \in Jobs \ {j} : jobs'[k] = jobs[k],
         ~crossed' => /\ ~crossed
                      /\ Share(j, m) <= usage /\ usage <= MaxCodes =>
                           usage' = usage - Share(j, m) + Share(j, m)' /\ usage' <= MaxCodes
  PROVE  UsageIsOwed'
<1>1. /\ Share(j, m) <= Owed(m)
      /\ Owed(m)' = Owed(m) - Share(j, m) + Share(j, m)'
  BY OwedStep DEF CodesInv
<1>2. ~crossed' => usage = Owed(m) /\ usage <= MaxCodes
  BY DEF CodesInv, UsageIsOwed
<1>3. ~crossed' => usage' = Owed(m)' /\ usage' <= MaxCodes
  BY <1>1, <1>2
<1>4. Owed(month)' = Owed(m)'
  BY DEF Owed
<1> QED BY <1>3, <1>4 DEF UsageIsOwed

\* A job that is written generates nothing, and keeps its codes.
LEMMA JobMoves ==
  ASSUME CodesInv, SsccInv', NEW j \in Jobs, \A k \in Jobs \ {j} : jobs'[k] = jobs[k],
         jobs'[j].generated = jobs[j].generated,
         jobs'[j].charged \in {jobs[j].charged, month},
         jobs'[j].status \notin {"absent", "COMPLETED"},
         jobs'[j].status = "FAILED" => j \in Legacy,
         UNCHANGED <<codes, month>>
  PROVE  /\ \A k \in Jobs : JobOK(k)'
         /\ GeneratedExactly' /\ IsFiniteSet(codes')
<1>1. \A k \in Jobs : JobOK(k)'
  BY DEF CodesInv, SsccInv, JobOK, Months
<1>2. [k \in Jobs |-> jobs'[k].generated] = [k \in Jobs |-> jobs[k].generated]
  OBVIOUS
<1>3. \A k \in Jobs : jobs'[k].status = "COMPLETED" => jobs'[k].generated = Quantity[k]
  BY DEF CodesInv, GeneratedExactly
<1>4. GeneratedExactly'
  BY <1>2, <1>3 DEF CodesInv, GeneratedExactly
<1> QED BY <1>1, <1>4 DEF CodesInv

\* Nobody else holds the job that is written.
LEMMA LocksKept ==
  ASSUME LockedRuns, NEW j \in Jobs, \A k \in Jobs \ {j} : jobs'[k] = jobs[k],
         locked' \in [CodeWorkers -> Jobs \cup {Nothing}],
         \A w \in CodeWorkers : locked'[w] # Nothing => locked'[w] = locked[w] /\ locked[w] # j
  PROVE  LockedRuns'
BY DEF LockedRuns

-----------------------------------------------------------------------------
(* Every step keeps it *)

\* A new job, or one that is retried, is charged whole.
LEMMA CreateStep ==
  ASSUME CodesInv, SsccInv', NEW j \in Jobs, Create(j) \/ Retry(j)
  PROVE  CodesInv'
<1>1. PICK m : m = month
  OBVIOUS
<1>2. PICK s \in {"PENDING_APPROVAL", "QUEUED"} :
        jobs' = [jobs EXCEPT ![j].status = s, ![j].charged = month]
  BY DEF Create, Retry
<1>3. /\ jobs[j] \in JobRow /\ Quantity[j] \in Nat /\ month \in Months
      /\ UNCHANGED <<codes, month, locked, crossed>>
      /\ usage + Remaining(j) <= MaxCodes /\ usage' = usage + Remaining(j)
      /\ jobs[j].generated = 0
      /\ jobs[j].status \in {"absent", "FAILED"}
  BY CodeJobAssumption DEF CodesInv, SsccInv, Create, Retry, Charge, JobOK
<1>4. /\ \A k \in Jobs \ {j} : jobs'[k] = jobs[k]
      /\ jobs'[j].generated = 0 /\ jobs'[j].charged = month /\ jobs'[j].status = s
      /\ jobs' \in [Jobs -> JobRow] /\ locked' \in [CodeWorkers -> Jobs \cup {Nothing}]
  BY <1>2, <1>3 DEF CodesInv, SsccInv, JobRow
<1>5. /\ \A k \in Jobs : JobOK(k)'
      /\ GeneratedExactly' /\ IsFiniteSet(codes')
  BY <1>3, <1>4, JobMoves
<1>6. LockedRuns'
  BY <1>3, <1>4, LocksKept DEF CodesInv, LockedRuns, Runnable
<1>7. UsageIsOwed'
  <2>1. Share(j, m) = 0 /\ Share(j, m)' = Quantity[j] /\ Remaining(j) = Quantity[j]
    BY <1>1, <1>3, <1>4 DEF Share, Held, Remaining
  <2> QED BY <1>1, <1>3, <1>4, <2>1, UsageStep DEF CodesInv
<1>8. usage' \in Nat
  BY <1>3 DEF CodesInv, Remaining
<1> QED BY <1>3, <1>5, <1>6, <1>7, <1>8 DEF CodesInv

\* Approval charges nothing.
LEMMA ApproveStep ==
  ASSUME CodesInv, SsccInv', NEW j \in Jobs, ApproveSerial(j) \/ ApprovePallets(j)
  PROVE  CodesInv'
<1>1. PICK m : m = month
  OBVIOUS
<1>2. /\ jobs[j] \in JobRow /\ jobs[j].status = "PENDING_APPROVAL" /\ Unlocked(j)
      /\ UNCHANGED <<codes, month, locked, usage, crossed>>
      /\ Quantity[j] \in Nat
  BY CodeJobAssumption DEF CodesInv, SsccInv, ApproveSerial, ApprovePallets, quota
<1>3. /\ jobs' \in [Jobs -> JobRow] /\ locked' \in [CodeWorkers -> Jobs \cup {Nothing}]
  BY DEF SsccInv
<1>4. /\ \A k \in Jobs \ {j} : jobs'[k] = jobs[k]
      /\ jobs'[j].generated = jobs[j].generated /\ jobs'[j].charged = jobs[j].charged
      /\ jobs'[j].status = "QUEUED"
  BY <1>2 DEF ApproveSerial, ApprovePallets, CodesInv, SsccInv, JobRow
<1>5. /\ \A k \in Jobs : JobOK(k)'
      /\ GeneratedExactly' /\ IsFiniteSet(codes')
  BY <1>2, <1>4, JobMoves
<1>6. LockedRuns'
  BY <1>2, <1>3, <1>4, LocksKept DEF CodesInv, Unlocked
<1>7. UsageIsOwed'
  <2>1. Share(j, m) \in Nat /\ Share(j, m)' = Share(j, m)
    BY <1>2, <1>4 DEF Share, Held
  <2> QED BY <1>1, <1>2, <1>3, <1>4, <2>1, UsageStep DEF CodesInv
<1> QED BY <1>2, <1>5, <1>6, <1>7 DEF CodesInv

\* A job that ends unfinished keeps its codes, and gives back what it holds besides.
LEMMA ReleaseStep ==
  ASSUME CodesInv, SsccInv', NEW j \in Jobs, NEW s \in {"FAILED", "CANCELLED"},
         jobs[j].status \in {"PENDING_APPROVAL", "QUEUED", "RUNNING"},
         s = "FAILED" => j \in Legacy,
         jobs' = [jobs EXCEPT ![j].status = s], Release(j), UNCHANGED <<codes, month>>,
         \A w \in CodeWorkers : locked'[w] # Nothing => locked'[w] = locked[w] /\ locked[w] # j
  PROVE  CodesInv'
<1>1. PICK m : m = month
  OBVIOUS
<1>2. /\ jobs[j] \in JobRow /\ Quantity[j] \in Nat /\ usage \in Nat
      /\ jobs[j].generated \in Nat /\ jobs[j].generated <= Quantity[j]
      /\ jobs' \in [Jobs -> JobRow] /\ locked' \in [CodeWorkers -> Jobs \cup {Nothing}]
  BY CodeJobAssumption DEF CodesInv, SsccInv, JobOK, JobRow
<1>3. /\ \A k \in Jobs \ {j} : jobs'[k] = jobs[k]
      /\ jobs'[j].generated = jobs[j].generated /\ jobs'[j].charged = jobs[j].charged
      /\ jobs'[j].status = s
  BY <1>2 DEF CodesInv, SsccInv, JobRow
<1>4. /\ \A k \in Jobs : JobOK(k)'
      /\ GeneratedExactly' /\ IsFiniteSet(codes')
  BY <1>3, JobMoves
<1>5. LockedRuns'
  BY <1>2, <1>3, LocksKept DEF CodesInv
<1>6. /\ Remaining(j) = Quantity[j] - jobs[j].generated
      /\ usage' = IF usage > Remaining(j) THEN usage - Remaining(j) ELSE 0
      /\ crossed' = (crossed \/ jobs[j].charged # month)
  BY DEF Release, Remaining
<1>7. usage' \in Nat /\ crossed' \in BOOLEAN
  BY <1>2, <1>6 DEF CodesInv
<1>8. UsageIsOwed'
  <2>1. jobs[j].charged = m => Share(j, m) = Quantity[j] /\ Share(j, m)' = jobs[j].generated
    BY <1>2, <1>3 DEF Share, Held
  <2>2. MaxCodes \in Nat
    BY CodeJobAssumption
  <2>3. ASSUME ~crossed', Share(j, m) <= usage, usage <= MaxCodes
        PROVE  usage' = usage - Share(j, m) + Share(j, m)' /\ usage' <= MaxCodes
    <3>1. jobs[j].charged = m
      BY <1>1, <1>6, <2>3
    <3>2. Share(j, m) = Quantity[j] /\ Share(j, m)' = jobs[j].generated
      BY <2>1, <3>1
    <3> QED BY <1>2, <1>6, <2>2, <2>3, <3>2
  <2>4. ~crossed' => ~crossed
    BY <1>6
  <2> QED BY <1>1, <1>2, <1>3, <2>3, <2>4, UsageStep
<1> QED BY <1>4, <1>5, <1>7, <1>8 DEF CodesInv

\* A chunk inserts no more than is left of the order, and what it inserts is counted.
LEMMA GenerateCounts ==
  ASSUME CodesInv, SsccInv', NEW w \in CodeWorkers, Generate(w)
  PROVE  CodesInv'
<1>1. PICK m, j : m = month /\ j = locked[w]
  OBVIOUS
<1> DEFINE inserted == Cardinality(Chunk(j) \ codes)
           generated == jobs[j].generated + inserted
<1>2. /\ j \in Jobs \ Legacy /\ jobs[j] \in JobRow /\ jobs[j].status \in Runnable
      /\ codes' = codes \cup Chunk(j)
      /\ jobs' = [jobs EXCEPT ![j].generated = generated,
                    ![j].status = IF generated >= Quantity[j] THEN "COMPLETED" ELSE "RUNNING"]
      /\ locked' = [locked EXCEPT ![w] = Nothing] /\ UNCHANGED <<month, usage, crossed>>
  BY <1>1 DEF Generate, Unlock, quota, CodesInv, SsccInv, LockedRuns
<1>3. /\ Quantity[j] \in Nat /\ jobs[j].generated \in Nat /\ jobs[j].generated <= Quantity[j]
      /\ jobs' \in [Jobs -> JobRow] /\ locked' \in [CodeWorkers -> Jobs \cup {Nothing}]
      /\ jobs \in [Jobs -> JobRow] /\ locked \in [CodeWorkers -> Jobs \cup {Nothing}]
  BY <1>2, CodeJobAssumption DEF CodesInv, SsccInv, JobOK, JobRow
<1>4. IsFiniteSet(codes) /\ IsFiniteSet(Chunk(j))
  BY <1>2, ChunkFinite DEF CodesInv
<1>5. inserted \in Nat /\ inserted <= Quantity[j] - jobs[j].generated
  <2>1. IsFiniteSet(Chunk(j) \ codes) /\ inserted <= Cardinality(Chunk(j))
    BY <1>4, FS_Subset
  <2>2. inserted \in Nat
    BY <2>1, FS_CardinalityType
  <2>3. Cardinality(Chunk(j)) <= Quantity[j] - jobs[j].generated
    <3> DEFINE from == jobs[j].generated + 1
               to == ChunkLast(j)
               code == [n \in from .. to |-> Code(j, n)]
    <3>1. from \in Int /\ to \in Int /\ to <= Quantity[j] /\ jobs[j].generated <= to
      BY <1>2, <1>3, CodeJobAssumption DEF ChunkLast, Remaining
    <3>2. code \in Surjection(from .. to, Chunk(j))
      BY DEF Surjection, Chunk
    <3>3. from = jobs[j].generated + 1
      OBVIOUS
    <3> HIDE DEF from, to, code
    <3>4. IsFiniteSet(from .. to)
          /\ Cardinality(from .. to) = IF from > to THEN 0 ELSE to - from + 1
      BY <3>1, FS_Interval
    <3>5. Cardinality(Chunk(j)) <= Cardinality(from .. to)
      BY <3>2, <3>4, FS_Surjection
    <3>6. Cardinality(Chunk(j)) \in Nat
      BY <1>4, FS_CardinalityType
    <3> QED BY <1>3, <3>1, <3>3, <3>4, <3>5, <3>6
  <2>4. Cardinality(Chunk(j)) \in Nat
    BY <1>4, FS_CardinalityType
  <2> QED BY <1>3, <2>1, <2>2, <2>3, <2>4
<1>6. IsFiniteSet(codes') /\ Cardinality(codes') = Cardinality(codes) + inserted
  <2>1. codes' = codes \cup (Chunk(j) \ codes) /\ codes \cap (Chunk(j) \ codes) = {}
    BY <1>2
  <2>2. IsFiniteSet(Chunk(j) \ codes)
    BY <1>4, FS_Subset
  <2>3. Cardinality(codes') = Cardinality(codes) + inserted - Cardinality({})
        /\ IsFiniteSet(codes')
    BY <1>4, <2>1, <2>2, FS_Union
  <2>4. Cardinality(codes) \in Nat /\ Cardinality({}) = 0
    BY <1>4, FS_CardinalityType, FS_EmptySet
  <2> QED BY <1>5, <2>3, <2>4
<1> HIDE DEF inserted
<1>7. /\ generated \in Nat /\ generated <= Quantity[j]
      /\ \A k \in Jobs \ {j} : jobs'[k] = jobs[k]
      /\ jobs'[j].generated = generated /\ jobs'[j].charged = jobs[j].charged
      /\ jobs'[j].status = IF generated >= Quantity[j] THEN "COMPLETED" ELSE "RUNNING"
  BY <1>2, <1>3, <1>5 DEF JobRow
<1> HIDE DEF generated
<1>8. \A k \in Jobs : JobOK(k)'
  <2>1. JobOK(j)'
    BY <1>2, <1>7 DEF CodesInv, JobOK
  <2>2. \A k \in Jobs \ {j} : JobOK(k)'
    BY <1>2, <1>7 DEF CodesInv, JobOK
  <2> QED BY <2>1, <2>2
<1>9. GeneratedExactly'
  <2> DEFINE f == [k \in Jobs |-> jobs[k].generated]
             g == [k \in Jobs |-> jobs'[k].generated]
  <2>1. \A k \in Jobs : jobs'[k].status = "COMPLETED" => jobs'[k].generated = Quantity[k]
    <3>1. jobs'[j].status = "COMPLETED" => jobs'[j].generated = Quantity[j]
      BY <1>3, <1>7
    <3>2. \A k \in Jobs \ {j} : jobs'[k].status = "COMPLETED" => jobs'[k].generated = Quantity[k]
      BY <1>7 DEF CodesInv, GeneratedExactly
    <3> QED BY <3>1, <3>2
  <2>2. /\ \A k \in Jobs : f[k] \in Nat /\ g[k] \in Nat
        /\ \A k \in Jobs \ {j} : f[k] = g[k]
        /\ f[j] = jobs[j].generated /\ g[j] = jobs[j].generated + inserted
    BY <1>2, <1>3, <1>7 DEF JobRow, generated
  <2>3. IsFiniteSet(Jobs) /\ Cardinality(codes) = SumOf(f, Jobs)
    BY CodeJobAssumption DEF CodesInv, GeneratedExactly
  <2>4. (Cardinality(codes) = SumOf([k \in Jobs |-> jobs[k].generated], Jobs))'
    <3> HIDE DEF f, g
    <3>1. SumOf(f, Jobs) \in Nat /\ SumOf(g, Jobs) = SumOf(f, Jobs) - f[j] + g[j]
      BY <1>2, <2>2, <2>3, SumChange
    <3>2. Cardinality(codes') = SumOf(g, Jobs)
      BY <1>3, <1>5, <1>6, <2>2, <2>3, <3>1
    <3> QED BY <3>2 DEF g
  <2> QED BY <2>1, <2>4 DEF GeneratedExactly
<1>10. LockedRuns'
  <2>1. \A v \in CodeWorkers : locked'[v] # Nothing => locked'[v] = locked[v] /\ locked[v] # j
    BY <1>1, <1>2, <1>3 DEF CodesInv, LockedRuns
  <2> QED BY <1>2, <1>3, <1>7, <2>1, LocksKept DEF CodesInv
<1>11. UsageIsOwed'
  <2>1. Share(j, m) \in Nat /\ Share(j, m)' = Share(j, m)
    BY <1>2, <1>3, <1>7 DEF Share, Held, Runnable
  <2> QED BY <1>1, <1>2, <1>3, <1>7, <2>1, UsageStep DEF CodesInv
<1> QED BY <1>2, <1>6, <1>8, <1>9, <1>10, <1>11 DEF CodesInv

\* No job is charged to a month that has not come, so that a new one owes nothing.
LEMMA MonthStep ==
  ASSUME CodesInv, SsccInv', NextMonth
  PROVE  CodesInv'
<1>1. PICK m : m = month + 1
  OBVIOUS
<1>2. /\ usage' = 0 /\ month' = m /\ UNCHANGED <<jobs, codes, locked, crossed>>
      /\ month \in Int
  BY <1>1 DEF NextMonth, CodesInv, SsccInv, Months
<1>3. \A k \in Jobs : jobs[k].charged \in Int /\ jobs[k].charged <= month
  BY DEF CodesInv, SsccInv, JobOK, JobRow, Months
<1>4. (\A k \in Jobs : JobOK(k)') /\ GeneratedExactly' /\ LockedRuns'
  BY <1>1, <1>2, <1>3 DEF CodesInv, JobOK, GeneratedExactly, LockedRuns
<1>5. UsageIsOwed'
  <2>1. {k \in Jobs : jobs'[k].charged = m} = {}
    BY <1>1, <1>2, <1>3
  <2>2. Owed(month)' = SumOf([k \in Jobs |-> Held(k)'], {})
    BY <1>2, <2>1 DEF Owed
  <2>3. \A h : SumOf(h, {}) = Cardinality({})
    BY DEF SumOf
  <2>4. Cardinality({}) = 0 /\ MaxCodes \in Nat
    BY FS_EmptySet, CodeJobAssumption
  <2> QED BY <1>2, <2>2, <2>3, <2>4 DEF UsageIsOwed
<1> QED BY <1>2, <1>4, <1>5 DEF CodesInv

\* Every command, and every step of a worker.
LEMMA CodesStep ==
  ASSUME CodesInv, SsccInv', [JobsNext]_jobVars
  PROVE  CodesInv'
<1>1. ASSUME NEW j \in Jobs,
             Create(j) \/ ApproveSerial(j) \/ ApprovePallets(j) \/ Cancel(j) \/ Retry(j)
      PROVE  CodesInv'
  <2>1. CASE Cancel(j)
    <3>1. \A w \in CodeWorkers : locked'[w] # Nothing => locked'[w] = locked[w] /\ locked[w] # j
      BY <2>1 DEF Cancel, Unlocked
    <3> QED BY <2>1, <3>1, ReleaseStep DEF Cancel
  <2> QED BY <1>1, <2>1, CreateStep, ApproveStep
<1>2. ASSUME UNCHANGED <<jobs, codes, usage, month, crossed>>, LockedRuns'
      PROVE  CodesInv'
  BY <1>2 DEF CodesInv, JobOK, GeneratedExactly, UsageIsOwed, Owed, Held
<1>3. CASE \E p \in Prefixes : SetPrefix(p)
  <2>1. UNCHANGED <<jobs, codes, usage, month, crossed, locked>>
    BY <1>3 DEF SetPrefix, quota
  <2> QED BY <1>2, <2>1 DEF CodesInv, LockedRuns
<1>4. ASSUME NEW w \in CodeWorkers, TakeJob(w)
      PROVE  CodesInv'
  <2> DEFINE open == {j \in Jobs : jobs[j].status \in Runnable /\ Unlocked(j)}
  <2>1. PICK j : j = OldestJob(open)
    OBVIOUS
  <2>2. j \in open
    BY <1>4, <2>1, OldestIsOne DEF TakeJob
  <2>3. /\ locked' = [locked EXCEPT ![w] = j]
        /\ UNCHANGED <<jobs, codes, usage, month, crossed>>
    BY <1>4, <2>1 DEF TakeJob, quota
  <2>4. LockedRuns'
    BY <2>2, <2>3 DEF CodesInv, SsccInv, LockedRuns, Unlocked
  <2> QED BY <1>2, <2>3, <2>4
<1>5. ASSUME NEW w \in CodeWorkers, FailJob(w)
      PROVE  CodesInv'
  <2>1. PICK j \in Jobs : j = locked[w]
    BY <1>5 DEF FailJob, CodesInv, SsccInv
  <2>2. /\ j \in Legacy /\ jobs[j].status \in {"QUEUED", "RUNNING"}
        /\ jobs' = [jobs EXCEPT ![j].status = "FAILED"] /\ Release(j) /\ UNCHANGED <<codes, month>>
        /\ locked' = [locked EXCEPT ![w] = Nothing]
    BY <1>5, <2>1 DEF FailJob, Unlock, CodesInv, LockedRuns, Runnable
  <2>3. \A v \in CodeWorkers : locked'[v] # Nothing => locked'[v] = locked[v] /\ locked[v] # j
    BY <1>5, <2>1, <2>2 DEF CodesInv, SsccInv, LockedRuns, FailJob
  <2> QED BY <2>2, <2>3, ReleaseStep
<1>6. ASSUME NEW w \in CodeWorkers, Rollback(w)
      PROVE  CodesInv'
  <2>1. locked' = [locked EXCEPT ![w] = Nothing] /\ UNCHANGED <<jobs, codes, usage, month, crossed>>
    BY <1>6 DEF Rollback, Unlock, quota
  <2>2. LockedRuns'
    BY <2>1 DEF CodesInv, SsccInv, LockedRuns
  <2> QED BY <1>2, <2>1, <2>2
<1>7. CASE UNCHANGED jobVars
  <2>1. UNCHANGED <<jobs, codes, usage, month, crossed, locked>>
    BY <1>7 DEF jobVars, quota
  <2> QED BY <1>2, <2>1 DEF CodesInv, LockedRuns
<1> QED BY <1>1, <1>3, <1>4, <1>5, <1>6, <1>7, GenerateCounts, MonthStep DEF JobsNext, WorkOnJobs

\* The legacy jobs that were not cancelled are charged at first.
LEMMA CodesStart ==
  ASSUME NEW cancelled \in SUBSET Jobs, JobsInitWith(cancelled)
  PROVE  CodesInv
<1>1. SsccInv
  BY SsccInit
<1>2. /\ jobs = [j \in Jobs |->
           [status |-> IF j \in cancelled THEN "CANCELLED"
                       ELSE IF j \in Legacy THEN "QUEUED" ELSE "absent",
            generated |-> 0, prefix |-> Nothing, start |-> 0, charged |-> 1]]
      /\ codes = {} /\ usage = Total(Legacy \ cancelled) /\ month = 1
      /\ locked = [w \in CodeWorkers |-> Nothing] /\ crossed = FALSE
  BY DEF JobsInitWith
<1>3. \A j \in Jobs : Quantity[j] \in Nat
  BY CodeJobAssumption
<1>4. LockedRuns /\ \A j \in Jobs : JobOK(j)
  BY <1>2, <1>3 DEF LockedRuns, JobOK
<1>5. IsFiniteSet(Jobs) /\ Legacy \in SUBSET Jobs
  BY CodeJobAssumption DEF Legacy
<1>6. GeneratedExactly
  <2> DEFINE f == [j \in Jobs |-> jobs[j].generated]
  <2>1. \A j \in {} : f[j] = f[j]
    OBVIOUS
  <2>2. SumOf(f, {}) = SumOf(f, Jobs)
    BY <1>2, SumSame
  <2>3. SumOf(f, {}) = Cardinality({})
    BY DEF SumOf
  <2> QED BY <1>2, <2>2, <2>3 DEF GeneratedExactly
<1>7. usage \in Nat /\ usage <= MaxCodes
  <2>1. IsFiniteSet(Legacy \ cancelled) /\ IsFiniteSet(Legacy)
    BY <1>5, FS_Subset
  <2>2. usage \in Nat
    BY <1>2, <1>3, <1>5, <2>1, SumFinite DEF Total
  <2>3. Total(Legacy \ cancelled) <= Total(Legacy) /\ Total(Legacy) \in Nat
    <3> DEFINE all == UNION {{j} \X (1 .. Quantity[j]) : j \in Legacy}
               some == UNION {{j} \X (1 .. Quantity[j]) : j \in Legacy \ cancelled}
    <3>1. IsFiniteSet(all) /\ SumOf(Quantity, Legacy) \in Nat
      BY <1>3, <1>5, <2>1, SumFinite
    <3>2. some \in SUBSET all
      OBVIOUS
    <3> HIDE DEF all, some
    <3>3. Cardinality(some) <= Cardinality(all)
      BY <3>1, <3>2, FS_Subset
    <3> QED BY <3>1, <3>3 DEF Total, SumOf, all, some
  <2> QED BY <1>2, <2>2, <2>3, LegacyAssumption, CodeJobAssumption
<1>8. UsageIsOwed
  <2> DEFINE h == [j \in Jobs |-> Held(j)]
  <2>1. SumOf(Quantity, Legacy \ cancelled) = SumOf(h, Jobs)
    <3>1. \A j \in Jobs : h[j] = IF j \in Legacy \ cancelled THEN Quantity[j] ELSE 0
      BY <1>2 DEF Held
    <3> HIDE DEF h
    <3> QED BY <1>5, <3>1, SumSame
  <2>2. {j \in Jobs : jobs[j].charged = month} = Jobs
    BY <1>2
  <2> QED BY <1>2, <1>7, <2>1, <2>2 DEF UsageIsOwed, Owed, Total
<1> QED BY <1>1, <1>2, <1>4, <1>6, <1>7, <1>8, FS_EmptySet DEF CodesInv

-----------------------------------------------------------------------------
(* Theorems *)

\* In every execution the pallet jobs' SSCC ranges are disjoint, below the next
\* reference, and of the tenant's one prefix: no SSCC is allocated twice.
THEOREM SsccsNeverReused == JobsSpec => []SsccSound
<1>1. JobsInit => SsccInv
  BY SsccInit DEF JobsInit
<1>2. SsccInv /\ [JobsNext]_jobVars => SsccInv'
  BY SsccStep
<1>3. SsccInv => SsccSound
  BY DEF SsccInv, SsccSound
<1> QED BY <1>1, <1>2, <1>3, PTL DEF JobsSpec

\* In every execution a completed job has exactly what was ordered, the codes are those
\* that the jobs have counted, whatever conflicted or crashed, and the month's usage is
\* what its jobs hold and within the quota, as long as releases are of the month.
THEOREM CodesCorrect == JobsSpec => []CodesSound
<1>1. JobsInit => SsccInv /\ CodesInv
  BY SsccInit, CodesStart DEF JobsInit
<1>2. SsccInv /\ CodesInv /\ [JobsNext]_jobVars => (SsccInv /\ CodesInv)'
  BY SsccStep, CodesStep
<1>3. CodesInv => CodesSound
  BY DEF CodesInv, SsccInv, CodesSound, JobsTypeOK
<1> QED BY <1>1, <1>2, <1>3, PTL DEF JobsSpec

\* Both in a month in which any jobs were cancelled before.
THEOREM LaterJobsCorrect ==
  ASSUME NEW cancelled \in SUBSET Jobs
  PROVE  JobsInitWith(cancelled) /\ [][JobsNext]_jobVars => [](SsccSound /\ CodesSound)
<1>1. JobsInitWith(cancelled) => SsccInv /\ CodesInv
  BY SsccInit, CodesStart
<1>2. SsccInv /\ CodesInv /\ [JobsNext]_jobVars => (SsccInv /\ CodesInv)'
  BY SsccStep, CodesStep
<1>3. SsccInv /\ CodesInv => SsccSound /\ CodesSound
  BY DEF SsccInv, SsccSound, CodesInv, CodesSound, JobsTypeOK
<1> QED BY <1>1, <1>2, <1>3, PTL
=============================================================================
