------------------------------ MODULE Rewards ------------------------------
(***************************************************************************)
(* Receipts that earn a reward, as concurrent transactions: the connection *)
(* pool, the idempotency key, the scanned object's lock, the campaign's    *)
(* budget and the beneficiary's monthly cap.                               *)
(*                                                                         *)
(* A transaction holds the advisory lock of its key and the row lock of its*)
(* object to its end, but the sums it compares with the budget and the cap *)
(* are taken by plain SELECTs under READ COMMITTED: it sees the claims that*)
(* are committed by then and nothing stops others from committing more.    *)
(*                                                                         *)
(* One campaign, matched by every receipt.  Everything happens within one  *)
(* month, the created_at of every claim, while an event carries a month of *)
(* its own, which may be an earlier one.                                   *)
(***************************************************************************)
EXTENDS Naturals, FiniteSets

CONSTANTS
  Attempts,      \* HTTP requests, the repeated ones included
  KeyOf,         \* [Attempts -> idempotency keys]
  BodyOf,        \* [Attempts -> receipts]
  Objects, Organizations, None,
  Months, Now,   \* Now: the month of the wall clock
  Connections,   \* DB_POOL_MAX of every process, added up
  RewardPoints, BudgetPoints, MonthlyCapPoints

\* A receipt: its scanned object, the organization, the month of event_time.
Receipt == [object : Objects, beneficiary : Organizations, month : Months]
Keys == {KeyOf[a] : a \in Attempts}
Record == [body : Receipt, expired : BOOLEAN]   \* a row of idempotency_records

ASSUME RewardAssumption ==
  /\ IsFiniteSet(Attempts)
  /\ BodyOf \in [Attempts -> Receipt]
  /\ None \notin Receipt \cup Record
  /\ Now \in Months
  /\ Connections \in Nat \ {0}
  /\ RewardPoints \in Nat \ {0}
  /\ BudgetPoints \in Nat /\ MonthlyCapPoints \in Nat

VARIABLES
  phase,    \* how far each attempt has come
  pool,     \* free connections
  records,  \* idempotency_records by key, None if there is no row
  claims,   \* reward_claims (with their ACCRUAL ledger entries), committed
  answer    \* what each attempt was told, None until then

vars == <<phase, pool, records, claims, answer>>

Open == {"connected", "fresh", "locked", "funded", "payable", "unpaid"}
Phases == {"arrived", "done"} \cup Open
HoldsKey == Open \ {"connected"}
HoldsObject == HoldsKey \ {"fresh"}

Claim == [attempt : Attempts, beneficiary : Organizations, created : Months]
Answer == {"created", "replayed", "conflict", "failed"}

Init ==
  /\ phase = [a \in Attempts |-> "arrived"]
  /\ pool = Connections
  /\ records = [k \in Keys |-> None]
  /\ claims = {}
  /\ answer = [a \in Attempts |-> None]

To(a, p) == phase' = [phase EXCEPT ![a] = p]

\* COMMIT or ROLLBACK, which drop the locks, and client.release().
Finish(a, told) ==
  /\ To(a, "done")
  /\ pool' = pool + 1
  /\ answer' = [answer EXCEPT ![a] = told]

-----------------------------------------------------------------------------
(* The steps of one attempt *)

Begin(a) ==
  /\ phase[a] = "arrived"
  /\ pool > 0
  /\ pool' = pool - 1
  /\ To(a, "connected")
  /\ UNCHANGED <<records, claims, answer>>

Stored(a) == records[KeyOf[a]] # None /\ ~records[KeyOf[a]].expired

\* The advisory lock of the key, then the stored response if there is one.
KeyFree(a) == \A b \in Attempts : KeyOf[b] = KeyOf[a] => phase[b] \notin HoldsKey

\* Mutants: the stored response is replayed whatever the request was, or is
\* looked for without the lock.
ReplayAnything(a) ==
  /\ phase[a] = "connected" /\ KeyFree(a)
  /\ Stored(a)
  /\ Finish(a, "replayed")
  /\ UNCHANGED <<records, claims>>
MissUnlocked(a) ==
  /\ phase[a] = "connected"
  /\ ~Stored(a)
  /\ To(a, "fresh")
  /\ UNCHANGED <<pool, records, claims, answer>>

Replay(a) ==
  /\ phase[a] = "connected" /\ KeyFree(a)
  /\ Stored(a)
  /\ Finish(a, IF records[KeyOf[a]].body = BodyOf[a] THEN "replayed" ELSE "conflict")
  /\ UNCHANGED <<records, claims>>

Miss(a) ==
  /\ phase[a] = "connected" /\ KeyFree(a)
  /\ ~Stored(a)
  /\ To(a, "fresh")
  /\ UNCHANGED <<pool, records, claims, answer>>

LockObject(a) ==
  /\ phase[a] = "fresh"
  /\ \A b \in Attempts :
       BodyOf[b].object = BodyOf[a].object => phase[b] \notin HoldsObject
  /\ To(a, "locked")
  /\ UNCHANGED <<pool, records, claims, answer>>

Spent == Cardinality(claims) * RewardPoints
Awarded(o, m) ==
  Cardinality({c \in claims : c.beneficiary = o /\ c.created = m}) * RewardPoints

\* Mutant: the reward itself is not added to what is spent.
ReadBudgetSpentOnly(a) ==
  /\ phase[a] = "locked"
  /\ To(a, IF Spent > BudgetPoints THEN "unpaid" ELSE "funded")
  /\ UNCHANGED <<pool, records, claims, answer>>

ReadBudget(a) ==
  /\ phase[a] = "locked"
  /\ To(a, IF Spent + RewardPoints > BudgetPoints THEN "unpaid" ELSE "funded")
  /\ UNCHANGED <<pool, records, claims, answer>>

\* What was awarded in the month of the event, by the date of the claims.
ReadMonthlyCap(a) ==
  /\ phase[a] = "funded"
  /\ To(a, IF Awarded(BodyOf[a].beneficiary, BodyOf[a].month) + RewardPoints
                > MonthlyCapPoints
           THEN "unpaid" ELSE "payable")
  /\ UNCHANGED <<pool, records, claims, answer>>

\* The response is saved in the transaction.  Its primary key, like the UNIQUE
\* key of trace_events, also holds for an expired row: the insert then fails.
\* Once committed, the answer may still be lost on its way.
Commit(a) ==
  /\ phase[a] \in {"payable", "unpaid"}
  /\ records[KeyOf[a]] = None
  /\ records' = [records EXCEPT ![KeyOf[a]] = [body |-> BodyOf[a], expired |-> FALSE]]
  /\ claims' = IF phase[a] = "payable"
               THEN claims \cup {[attempt |-> a,
                                  beneficiary |-> BodyOf[a].beneficiary,
                                  created |-> Now]}
               ELSE claims
  /\ \E told \in {"created", "failed"} : Finish(a, told)

\* Mutant: a failed transaction keeps its connection.
FailWithoutRelease(a) ==
  /\ phase[a] \in Open
  /\ To(a, "done")
  /\ answer' = [answer EXCEPT ![a] = "failed"]
  /\ UNCHANGED <<pool, records, claims>>

\* Any statement may fail, and the server process may die: ROLLBACK.
Fail(a) ==
  /\ phase[a] \in Open
  /\ Finish(a, "failed")
  /\ UNCHANGED <<records, claims>>

\* Mutant: releases a connection that it never got.
GiveUpReleasing(a) ==
  /\ phase[a] = "arrived" /\ pool = 0
  /\ Finish(a, "failed")
  /\ UNCHANGED <<records, claims>>

\* No connection becomes free in time.
GiveUp(a) ==
  /\ phase[a] = "arrived" /\ pool = 0
  /\ To(a, "done")
  /\ answer' = [answer EXCEPT ![a] = "failed"]
  /\ UNCHANGED <<pool, records, claims>>

DuplicateKey(a) == phase[a] \in {"payable", "unpaid"} /\ records[KeyOf[a]] # None

\* A day later: no transaction lasts that long.
Expire(k) ==
  /\ records[k] # None
  /\ \A a \in Attempts : phase[a] \in {"arrived", "done"}
  /\ records' = [records EXCEPT ![k].expired = TRUE]
  /\ UNCHANGED <<phase, pool, claims, answer>>

Proceed(a) ==
  \/ Begin(a) \/ Replay(a) \/ Miss(a) \/ LockObject(a)
  \/ ReadBudget(a) \/ ReadMonthlyCap(a) \/ Commit(a)
  \/ DuplicateKey(a) /\ Fail(a)

Next ==
  \/ \E a \in Attempts : Proceed(a) \/ Fail(a) \/ GiveUp(a)
  \/ \E k \in Keys : Expire(k)

\* A server process that can go on goes on, and locks and connections are
\* granted; nothing says that a transaction fails, that records expire or when.
Fairness == \A a \in Attempts : WF_vars(Proceed(a))

Spec == Init /\ [][Next]_vars /\ Fairness

-----------------------------------------------------------------------------
(* Properties *)

TypeOK ==
  /\ phase \in [Attempts -> Phases]
  /\ pool \in 0 .. Connections
  /\ records \in [Keys -> Record \cup {None}]
  /\ claims \subseteq Claim
  /\ answer \in [Attempts -> Answer \cup {None}]

\* The budget can be overrun, but by no more than what the connections allow to
\* be decided at the same time.
BudgetOverrunBounded ==
  TypeOK /\ Spent <= BudgetPoints + (Connections - 1) * RewardPoints

\* While the stored response lives, a repeated request never fails because its
\* key exists: only after a day does the stale row turn a retry into an error.
RetriesFindTheirRecord ==
  \A a \in Attempts : DuplicateKey(a) => records[KeyOf[a]].expired

\* Concurrent and repeated attempts implement the promise of the key.
Promise == INSTANCE IdempotentCommand WITH
  effect <- [k \in Keys |-> IF records[k] = None THEN None ELSE records[k].body]
KeyPromiseKept == Promise!Spec

\* Every attempt is answered, however many compete for connections and locks.
EveryAttemptAnswered == \A a \in Attempts : <>(answer[a] # None)

-----------------------------------------------------------------------------
(* What a document says and the code does not do *)

\* docs/production-readiness.md: "row locks and transactions protect ... the
\* campaign budget".
BudgetRespected == Spent <= BudgetPoints
=============================================================================
