---------------------------- MODULE RewardsProofs ----------------------------
(***************************************************************************)
(* The handler keeps the promise of the idempotency key, retries find their*)
(* record, and the budget is overrun by what the connections allow, for any*)
(* attempts, keys, receipts, connections, rewards, budgets and caps.       *)
(***************************************************************************)
EXTENDS Rewards, FiniteSetTheorems, TLAPS

Opened == {a \in Attempts : phase[a] \in Open}
Granted == {a \in Attempts : phase[a] \in {"funded", "payable"}}
Overrun == BudgetPoints + (Connections - 1) * RewardPoints

RewardTypes ==
  /\ phase \in [Attempts -> Phases]
  /\ pool \in Nat /\ pool + Cardinality(Opened) = Connections
  /\ records \in [Keys -> Record \cup {None}]
  /\ claims \subseteq Claim /\ IsFiniteSet(claims)
  /\ answer \in [Attempts -> Answer \cup {None}]

\* A key is in one hand, which has found no stored response; who is not done has no answer.
KeysHeld ==
  /\ \A a, b \in Attempts : KeyOf[a] = KeyOf[b] /\ phase[a] \in HoldsKey /\ phase[b] \in HoldsKey
       => a = b
  /\ \A a \in Attempts : phase[a] \in HoldsKey => ~Stored(a)
  /\ \A a \in Attempts : phase[a] # "done" => answer[a] = None

\* What is granted is counted as well as what is spent.
GrantsBounded == (Cardinality(claims) + Cardinality(Granted)) * RewardPoints <= Overrun

RewardInv == RewardTypes /\ KeysHeld /\ GrantsBounded

-----------------------------------------------------------------------------
(* Arithmetic and cardinalities *)

LEMMA Monotone ==
  ASSUME NEW m \in Nat, NEW n \in Nat, NEW r \in Nat, m <= n
  PROVE  m * r <= n * r /\ m * r \in Nat
<1>1. PICK d \in Nat : n = m + d
  BY n - m \in Nat
<1>2. d * r >= 0 /\ m * r \in Nat
  BY SMT
<1>3. n * r = m * r + d * r
  BY <1>1, SMT
<1> QED BY <1>2, <1>3

LEMMA GrantOneMore ==
  ASSUME NEW m \in Nat, NEW u \in Nat, NEW r \in Nat, NEW b \in Nat, NEW c \in Nat \ {0},
         m * r + r <= b, u + 1 <= c
  PROVE  (m + (u + 1)) * r <= b + (c - 1) * r
<1>1. u * r <= (c - 1) * r /\ u * r \in Nat /\ m * r \in Nat /\ (c - 1) * r \in Nat
  <2>1. c - 1 \in Nat /\ u <= c - 1
    OBVIOUS
  <2> QED BY <2>1, Monotone
<1>2. (m + (u + 1)) * r = (m * r + r) + u * r
  BY SMT
<1> QED BY <1>1, <1>2

LEMMA Sizes ==
  ASSUME RewardTypes
  PROVE  /\ IsFiniteSet(Opened) /\ Cardinality(Opened) \in Nat
         /\ IsFiniteSet(Granted) /\ Cardinality(Granted) \in Nat
         /\ Cardinality(claims) \in Nat /\ Connections \in Nat \ {0}
         /\ RewardPoints \in Nat /\ BudgetPoints \in Nat
<1>1. IsFiniteSet(Attempts) /\ Opened \in SUBSET Attempts /\ Granted \in SUBSET Attempts
  BY RewardAssumption DEF RewardAssumption, Opened, Granted
<1> QED BY <1>1, FS_Subset, FS_CardinalityType, RewardAssumption DEF RewardTypes, RewardAssumption

\* An attempt moves from one phase to another.
LEMMA Moving ==
  ASSUME RewardTypes, NEW a \in Attempts, NEW p \in Phases, To(a, p)
  PROVE  /\ phase' \in [Attempts -> Phases]
         /\ \A b \in Attempts : phase'[b] = IF b = a THEN p ELSE phase[b]
         /\ Cardinality(Opened') = CASE a \in Opened /\ p \notin Open -> Cardinality(Opened) - 1
                                     [] a \notin Opened /\ p \in Open -> Cardinality(Opened) + 1
                                     [] OTHER -> Cardinality(Opened)
         /\ Cardinality(Granted') \in Nat
         /\ p \notin {"funded", "payable"} => Cardinality(Granted') <= Cardinality(Granted)
         /\ a \in Granted /\ p = "done" => Cardinality(Granted') = Cardinality(Granted) - 1
         /\ a \in Granted /\ p = "payable" => Cardinality(Granted') = Cardinality(Granted)
         /\ a \notin Granted /\ p = "funded" => Cardinality(Granted') = Cardinality(Granted) + 1
<1>1. /\ phase' \in [Attempts -> Phases]
      /\ \A b \in Attempts : phase'[b] = IF b = a THEN p ELSE phase[b]
  BY DEF RewardTypes, To
<1>2. /\ IsFiniteSet(Opened) /\ Cardinality(Opened) \in Nat
      /\ IsFiniteSet(Granted) /\ Cardinality(Granted) \in Nat
  BY Sizes
<1>3. Opened' = IF p \in Open THEN Opened \cup {a} ELSE Opened \ {a}
  BY <1>1 DEF Opened
<1>4. Granted' = IF p \in {"funded", "payable"} THEN Granted \cup {a} ELSE Granted \ {a}
  BY <1>1 DEF Granted
<1>5. /\ Cardinality(Opened \cup {a}) = IF a \in Opened THEN Cardinality(Opened)
                                        ELSE Cardinality(Opened) + 1
      /\ Cardinality(Granted \cup {a}) = IF a \in Granted THEN Cardinality(Granted)
                                         ELSE Cardinality(Granted) + 1
  BY <1>2, FS_AddElement
<1>6. /\ Cardinality(Opened \ {a}) = IF a \in Opened THEN Cardinality(Opened) - 1
                                     ELSE Cardinality(Opened)
      /\ Cardinality(Granted \ {a}) = IF a \in Granted THEN Cardinality(Granted) - 1
                                      ELSE Cardinality(Granted)
  BY <1>2, FS_RemoveElement
<1>7. Cardinality(Granted') \in Nat
  <2>1. IsFiniteSet(Granted \cup {a}) /\ IsFiniteSet(Granted \ {a})
    BY <1>2, FS_AddElement, FS_RemoveElement
  <2> QED BY <1>4, <2>1, FS_CardinalityType
<1>8. Cardinality(Opened') = CASE a \in Opened /\ p \notin Open -> Cardinality(Opened) - 1
                               [] a \notin Opened /\ p \in Open -> Cardinality(Opened) + 1
                               [] OTHER -> Cardinality(Opened)
  BY <1>3, <1>5, <1>6
<1>9. /\ p \notin {"funded", "payable"} => Cardinality(Granted') <= Cardinality(Granted)
      /\ a \in Granted /\ p = "done" => Cardinality(Granted') = Cardinality(Granted) - 1
      /\ a \in Granted /\ p = "payable" => Cardinality(Granted') = Cardinality(Granted)
      /\ a \notin Granted /\ p = "funded" => Cardinality(Granted') = Cardinality(Granted) + 1
  BY <1>2, <1>4, <1>5, <1>6
<1> QED BY <1>1, <1>7, <1>8, <1>9

\* Fewer grants and no more claims stay within the bound.
LEMMA GrantsStay ==
  ASSUME RewardTypes, GrantsBounded, Cardinality(claims') \in Nat, Cardinality(Granted') \in Nat,
         Cardinality(claims') + Cardinality(Granted') <= Cardinality(claims) + Cardinality(Granted)
  PROVE  GrantsBounded'
<1>1. Cardinality(claims) + Cardinality(Granted) \in Nat /\ RewardPoints \in Nat
      /\ Cardinality(claims') + Cardinality(Granted') \in Nat
      /\ Connections \in Nat \ {0} /\ BudgetPoints \in Nat
  BY Sizes
<1>2. (Cardinality(claims') + Cardinality(Granted')) * RewardPoints
        <= (Cardinality(claims) + Cardinality(Granted)) * RewardPoints
      /\ (Cardinality(claims') + Cardinality(Granted')) * RewardPoints \in Nat
      /\ (Cardinality(claims) + Cardinality(Granted)) * RewardPoints \in Nat
  BY <1>1, Monotone
<1>3. Overrun \in Nat
  <2>1. Connections - 1 \in Nat
    BY <1>1
  <2>2. (Connections - 1) * RewardPoints \in Nat
    BY <1>1, <2>1, Monotone
  <2> QED BY <1>1, <2>2 DEF Overrun
<1> QED BY <1>2, <1>3 DEF GrantsBounded, Overrun

-----------------------------------------------------------------------------
(* One step of each action *)

LEMMA InitHolds == Init => RewardInv
<1> SUFFICES ASSUME Init PROVE RewardInv
  OBVIOUS
<1>1. Opened = {} /\ Granted = {}
  BY DEF Init, Opened, Granted, Open
<1>2. Cardinality({}) = 0 /\ IsFiniteSet({})
  BY FS_EmptySet
<1>3. RewardTypes
  BY <1>1, <1>2, RewardAssumption DEF Init, RewardTypes, Phases, RewardAssumption
<1>4. KeysHeld
  BY DEF Init, KeysHeld, HoldsKey, Open
<1>5. GrantsBounded
  <2>1. 0 * RewardPoints = 0 /\ Connections - 1 \in Nat /\ BudgetPoints \in Nat /\ RewardPoints \in Nat
    BY RewardAssumption DEF RewardAssumption
  <2>2. (Connections - 1) * RewardPoints \in Nat
    BY <2>1, Monotone
  <2>3. Cardinality(claims) + Cardinality(Granted) = 0
    BY <1>1, <1>2 DEF Init
  <2> QED BY <2>1, <2>2, <2>3 DEF GrantsBounded, Overrun
<1> QED BY <1>3, <1>4, <1>5 DEF RewardInv

\* An attempt goes on within its transaction.
LEMMA GoingOn ==
  ASSUME RewardInv, NEW a \in Attempts, NEW p \in HoldsKey, To(a, p), phase[a] \in Open,
         UNCHANGED <<pool, records, claims, answer>>,
         phase[a] \in HoldsKey \/ (KeyFree(a) /\ ~Stored(a)),
         p = "funded" => phase[a] = "locked" /\ Spent + RewardPoints <= BudgetPoints,
         p = "payable" => phase[a] = "funded"
  PROVE  RewardInv'
<1>0. RewardTypes /\ KeysHeld /\ GrantsBounded /\ p \in Phases /\ p \in Open /\ a \in Opened
  BY DEF RewardInv, HoldsKey, Phases, Opened
<1>1. /\ phase' \in [Attempts -> Phases]
      /\ \A b \in Attempts : phase'[b] = IF b = a THEN p ELSE phase[b]
      /\ Cardinality(Opened') = Cardinality(Opened)
      /\ Cardinality(Granted') \in Nat
      /\ p \notin {"funded", "payable"} => Cardinality(Granted') <= Cardinality(Granted)
      /\ a \in Granted /\ p = "payable" => Cardinality(Granted') = Cardinality(Granted)
      /\ a \notin Granted /\ p = "funded" => Cardinality(Granted') = Cardinality(Granted) + 1
  BY <1>0, Moving
<1>2. RewardTypes'
  BY <1>0, <1>1 DEF RewardTypes
<1>3. KeysHeld'
  <2>1. \A b, c \in Attempts :
          KeyOf[b] = KeyOf[c] /\ phase'[b] \in HoldsKey /\ phase'[c] \in HoldsKey => b = c
    BY <1>0, <1>1 DEF KeysHeld, KeyFree
  <2>2. \A b \in Attempts : phase'[b] \in HoldsKey => ~Stored(b)'
    BY <1>0, <1>1 DEF KeysHeld, Stored
  <2>3. \A b \in Attempts : phase'[b] # "done" => answer'[b] = None
    BY <1>0, <1>1 DEF KeysHeld, Open
  <2> QED BY <2>1, <2>2, <2>3 DEF KeysHeld
<1>4. Cardinality(claims) \in Nat /\ Cardinality(Granted) \in Nat
  BY <1>0, Sizes
<1>5. GrantsBounded'
  <2>1. CASE p = "funded"
    <3>1. a \notin Granted
      BY <2>1 DEF Granted
    <3>2. Granted' \in SUBSET Opened' /\ IsFiniteSet(Opened') /\ Cardinality(Opened') <= Connections
      <4>1. IsFiniteSet(Opened')
        BY RewardAssumption, FS_Subset DEF Opened, RewardAssumption
      <4>2. Granted' \in SUBSET Opened'
        BY DEF Granted, Opened, Open
      <4>3. Cardinality(Opened) <= Connections
        BY <1>0, Sizes DEF RewardTypes
      <4> QED BY <1>1, <4>1, <4>2, <4>3
    <3>3. Cardinality(Granted') <= Cardinality(Opened')
      BY <3>2, FS_Subset
    <3>4. Cardinality(Granted) + 1 <= Connections /\ Connections \in Nat \ {0}
          /\ RewardPoints \in Nat /\ BudgetPoints \in Nat
      BY <1>0, <1>1, <1>4, <2>1, <3>1, <3>2, <3>3, Sizes
    <3>5. Cardinality(claims) * RewardPoints + RewardPoints <= BudgetPoints
      BY <2>1 DEF Spent
    <3>6. (Cardinality(claims) + (Cardinality(Granted) + 1)) * RewardPoints <= Overrun
      BY <1>4, <3>4, <3>5, GrantOneMore DEF Overrun
    <3> QED BY <1>1, <2>1, <3>1, <3>6 DEF GrantsBounded, Overrun
  <2>2. CASE p # "funded"
    <3>1. Cardinality(Granted') <= Cardinality(Granted)
      BY <1>1, <1>4, <2>2 DEF Granted
    <3> QED BY <1>0, <1>1, <1>4, <3>1, GrantsStay
  <2> QED BY <2>1, <2>2
<1> QED BY <1>2, <1>3, <1>5 DEF RewardInv

\* An attempt ends, whatever it is told; it may have changed the record of its key.
LEMMA Ending ==
  ASSUME RewardInv, NEW a \in Attempts, NEW told \in Answer, phase[a] # "done",
         To(a, "done"), answer' = [answer EXCEPT ![a] = told],
         pool' = IF phase[a] \in Open THEN pool + 1 ELSE pool,
         records' \in [Keys -> Record \cup {None}],
         \A k \in Keys : records'[k] = records[k] \/ (k = KeyOf[a] /\ phase[a] \in HoldsKey),
         claims' = claims \/ (phase[a] = "payable" /\ \E x \in Claim : claims' = claims \cup {x})
  PROVE  RewardInv'
<1>0. RewardTypes /\ KeysHeld /\ GrantsBounded /\ "done" \in Phases /\ "done" \notin Open
  BY DEF RewardInv, Phases, Open
<1>1. /\ phase' \in [Attempts -> Phases]
      /\ \A b \in Attempts : phase'[b] = IF b = a THEN "done" ELSE phase[b]
      /\ Cardinality(Opened') = IF a \in Opened THEN Cardinality(Opened) - 1 ELSE Cardinality(Opened)
      /\ Cardinality(Granted') \in Nat
      /\ Cardinality(Granted') <= Cardinality(Granted)
      /\ a \in Granted => Cardinality(Granted') = Cardinality(Granted) - 1
  BY <1>0, Moving
<1>2. /\ IsFiniteSet(claims') /\ claims' \subseteq Claim
      /\ Cardinality(claims') <= IF claims' = claims THEN Cardinality(claims) ELSE Cardinality(claims) + 1
      /\ Cardinality(claims') \in Nat /\ Cardinality(claims) \in Nat
      /\ Cardinality(Granted) \in Nat /\ Cardinality(Opened) \in Nat
  <2>1. IsFiniteSet(claims) /\ claims \subseteq Claim /\ Cardinality(claims) \in Nat
        /\ Cardinality(Granted) \in Nat /\ Cardinality(Opened) \in Nat
    BY <1>0, Sizes DEF RewardTypes
  <2>2. CASE claims' = claims
    BY <2>1, <2>2
  <2>3. CASE claims' # claims
    <3>1. PICK x \in Claim : claims' = claims \cup {x}
      BY <2>3
    <3>2. IsFiniteSet(claims \cup {x}) /\ Cardinality(claims \cup {x}) =
            IF x \in claims THEN Cardinality(claims) ELSE Cardinality(claims) + 1
      BY <2>1, FS_AddElement
    <3> QED BY <2>1, <2>3, <3>1, <3>2
  <2> QED BY <2>2, <2>3
<1>3. RewardTypes'
  <2>1. a \in Opened <=> phase[a] \in Open
    BY DEF Opened
  <2>2. pool' \in Nat /\ pool' + Cardinality(Opened') = Connections
    BY <1>0, <1>1, <1>2, <2>1 DEF RewardTypes
  <2>3. answer' \in [Attempts -> Answer \cup {None}]
    BY <1>0 DEF RewardTypes
  <2> QED BY <1>1, <1>2, <2>2, <2>3 DEF RewardTypes
<1>4. KeysHeld'
  <2>1. \A b, c \in Attempts :
          KeyOf[b] = KeyOf[c] /\ phase'[b] \in HoldsKey /\ phase'[c] \in HoldsKey => b = c
    BY <1>0, <1>1 DEF KeysHeld, HoldsKey, Open
  <2>2. ASSUME NEW b \in Attempts, phase'[b] \in HoldsKey PROVE ~Stored(b)'
    <3>1. b # a /\ phase[b] \in HoldsKey
      BY <1>1, <2>2 DEF HoldsKey, Open
    <3>2. KeyOf[b] \in Keys /\ (KeyOf[b] = KeyOf[a] => phase[a] \notin HoldsKey)
      BY <1>0, <3>1 DEF KeysHeld, Keys
    <3> QED BY <1>0, <3>1, <3>2 DEF KeysHeld, Stored
  <2>3. \A b \in Attempts : phase'[b] # "done" => answer'[b] = None
    BY <1>0, <1>1 DEF KeysHeld, RewardTypes
  <2> QED BY <2>1, <2>2, <2>3 DEF KeysHeld
<1>5. GrantsBounded'
  <2>1. claims' # claims => a \in Granted
    BY DEF Granted
  <2>2. Cardinality(claims') + Cardinality(Granted') <= Cardinality(claims) + Cardinality(Granted)
    BY <1>1, <1>2, <2>1
  <2> QED BY <1>0, <1>1, <1>2, <2>2, GrantsStay
<1> QED BY <1>3, <1>4, <1>5 DEF RewardInv

LEMMA BeginStep ==
  ASSUME RewardInv, NEW a \in Attempts, Begin(a) PROVE RewardInv'
<1>0. /\ RewardTypes /\ KeysHeld /\ GrantsBounded /\ "connected" \in Phases /\ "connected" \in Open
      /\ a \notin Opened /\ phase[a] = "arrived"
  BY DEF RewardInv, Phases, Open, Opened, Begin
<1>1. /\ phase' \in [Attempts -> Phases]
      /\ \A b \in Attempts : phase'[b] = IF b = a THEN "connected" ELSE phase[b]
      /\ Cardinality(Opened') = Cardinality(Opened) + 1
      /\ Cardinality(Granted') \in Nat /\ Cardinality(Granted') <= Cardinality(Granted)
  BY <1>0, Moving DEF Begin
<1>2. pool' \in Nat /\ pool' + Cardinality(Opened') = Connections
  BY <1>0, <1>1, Sizes DEF RewardTypes, Begin
<1>3. RewardTypes' /\ UNCHANGED <<records, claims, answer>>
  BY <1>0, <1>1, <1>2 DEF RewardTypes, Begin
<1>4. KeysHeld'
  BY <1>0, <1>1, <1>3 DEF KeysHeld, Stored, HoldsKey, Open
<1>5. GrantsBounded'
  BY <1>0, <1>1, <1>3, Sizes, GrantsStay
<1> QED BY <1>3, <1>4, <1>5 DEF RewardInv

LEMMA TransactionSteps ==
  ASSUME RewardInv, NEW a \in Attempts, Miss(a) \/ LockObject(a) \/ ReadBudget(a) \/ ReadMonthlyCap(a)
  PROVE  RewardInv'
<1> USE DEF HoldsKey, Open
<1>1. CASE Miss(a)
  BY <1>1, GoingOn DEF Miss
<1>2. CASE LockObject(a)
  BY <1>2, GoingOn DEF LockObject
<1>3. CASE ReadBudget(a)
  <2>1. Spent + RewardPoints <= BudgetPoints \/ Spent + RewardPoints > BudgetPoints
    <3>1. Cardinality(claims) \in Nat /\ RewardPoints \in Nat /\ BudgetPoints \in Nat
      BY Sizes DEF RewardInv
    <3>2. Spent \in Nat
      BY <3>1, Monotone DEF Spent
    <3> QED BY <3>1, <3>2
  <2>2. PICK p \in {"unpaid", "funded"} :
          To(a, p) /\ (p = "funded" => ~(Spent + RewardPoints > BudgetPoints))
    BY <1>3 DEF ReadBudget
  <2> QED BY <1>3, <2>1, <2>2, GoingOn DEF ReadBudget
<1>4. CASE ReadMonthlyCap(a)
  <2>1. PICK p \in {"unpaid", "payable"} : To(a, p)
    BY <1>4 DEF ReadMonthlyCap
  <2> QED BY <1>4, <2>1, GoingOn DEF ReadMonthlyCap
<1> QED BY <1>1, <1>2, <1>3, <1>4

LEMMA EndingSteps ==
  ASSUME RewardInv, NEW a \in Attempts, Replay(a) \/ Commit(a) \/ Fail(a) \/ GiveUp(a)
  PROVE  RewardInv'
<1>0. records \in [Keys -> Record \cup {None}] /\ KeyOf[a] \in Keys
  BY DEF RewardInv, RewardTypes, Keys
<1>1. CASE Replay(a)
  <2>1. PICK told \in {"replayed", "conflict"} : Finish(a, told)
    BY <1>1 DEF Replay
  <2> QED BY <1>0, <1>1, <2>1, Ending DEF Replay, Finish, Answer, Open
<1>2. CASE Commit(a)
  <2>1. PICK told \in {"created", "failed"} : Finish(a, told)
    BY <1>2 DEF Commit
  <2>2. BodyOf[a] \in Receipt /\ Now \in Months
    BY RewardAssumption DEF RewardAssumption
  <2>3. [body |-> BodyOf[a], expired |-> FALSE] \in Record
    BY <2>2 DEF Record
  <2>4. [attempt |-> a, beneficiary |-> BodyOf[a].beneficiary, created |-> Now] \in Claim
    BY <2>2 DEF Claim, Receipt
  <2>5. /\ records' \in [Keys -> Record \cup {None}]
        /\ \A k \in Keys : records'[k] = records[k] \/ k = KeyOf[a]
    BY <1>0, <1>2, <2>3 DEF Commit
  <2>6. claims' = claims \/ (phase[a] = "payable" /\ \E x \in Claim : claims' = claims \cup {x})
    BY <1>2, <2>4 DEF Commit
  <2>7. phase[a] \in HoldsKey /\ phase[a] \in Open /\ phase[a] # "done"
    BY <1>2 DEF Commit, HoldsKey, Open
  <2> QED BY <2>1, <2>5, <2>6, <2>7, Ending DEF Finish, Answer
<1>3. CASE Fail(a)
  BY <1>0, <1>3, Ending DEF Fail, Finish, Answer, Open
<1>4. CASE GiveUp(a)
  BY <1>0, <1>4, Ending DEF GiveUp, Answer, Open
<1> QED BY <1>1, <1>2, <1>3, <1>4

LEMMA ExpireStep ==
  ASSUME RewardInv, NEW k \in Keys, Expire(k) PROVE RewardInv'
<1>1. UNCHANGED <<phase, pool, claims, answer>> /\ \A a \in Attempts : phase[a] \notin HoldsKey
  BY DEF Expire, HoldsKey, Open
<1>2. records' \in [Keys -> Record \cup {None}]
  <2>1. records[k] \in Record /\ records \in [Keys -> Record \cup {None}]
    BY DEF Expire, RewardInv, RewardTypes
  <2>2. [records[k] EXCEPT !.expired = TRUE] \in Record
    BY <2>1 DEF Record
  <2>3. records' = [records EXCEPT ![k] = [records[k] EXCEPT !.expired = TRUE]]
    BY <2>1 DEF Expire
  <2> QED BY <2>1, <2>2, <2>3
<1> QED BY <1>1, <1>2 DEF RewardInv, RewardTypes, KeysHeld, GrantsBounded, Opened, Granted, Overrun

LEMMA RewardInvStep == RewardInv /\ [Next]_vars => RewardInv'
<1> SUFFICES ASSUME RewardInv, [Next]_vars PROVE RewardInv'
  OBVIOUS
<1>1. ASSUME NEW a \in Attempts, Proceed(a) \/ Fail(a) \/ GiveUp(a) PROVE RewardInv'
  BY <1>1, BeginStep, TransactionSteps, EndingSteps DEF Proceed
<1>2. CASE \E k \in Keys : Expire(k)
  BY <1>2, ExpireStep
<1>3. CASE UNCHANGED vars
  BY <1>3 DEF vars, RewardInv, RewardTypes, KeysHeld, GrantsBounded, Opened, Granted, Overrun, Stored
<1> QED BY <1>1, <1>2, <1>3 DEF Next

-----------------------------------------------------------------------------
(* What follows *)

\* A repeated request fails because its key exists only after a day (saveIdempotency).
THEOREM RetriesCorrect == Spec => []RetriesFindTheirRecord
<1>1. RewardInv => RetriesFindTheirRecord
  BY DEF RewardInv, KeysHeld, Stored, RetriesFindTheirRecord, DuplicateKey, HoldsKey, Open
<1> QED BY <1>1, InitHolds, RewardInvStep, PTL DEF Spec

\* The budget is overrun by no more than what the connections allow to be decided at the
\* same time, for any budget, reward and pool.
THEOREM BudgetCorrect == Spec => []BudgetOverrunBounded
<1>1. RewardInv => BudgetOverrunBounded
  <2> SUFFICES ASSUME RewardInv PROVE BudgetOverrunBounded
    OBVIOUS
  <2>1. Cardinality(claims) \in Nat /\ Cardinality(Granted) \in Nat /\ RewardPoints \in Nat
        /\ Cardinality(Opened) \in Nat /\ Connections \in Nat \ {0} /\ BudgetPoints \in Nat
    BY Sizes DEF RewardInv
  <2>2. Cardinality(claims) * RewardPoints <= (Cardinality(claims) + Cardinality(Granted)) * RewardPoints
        /\ Cardinality(claims) * RewardPoints \in Nat
        /\ (Cardinality(claims) + Cardinality(Granted)) * RewardPoints \in Nat
    <3>1. Cardinality(claims) + Cardinality(Granted) \in Nat
          /\ Cardinality(claims) <= Cardinality(claims) + Cardinality(Granted)
      BY <2>1
    <3> QED BY <2>1, <3>1, Monotone
  <2>3. (Connections - 1) * RewardPoints \in Nat
    <3>1. Connections - 1 \in Nat
      BY <2>1
    <3> QED BY <2>1, <3>1, Monotone
  <2>4. Spent <= BudgetPoints + (Connections - 1) * RewardPoints
    BY <2>1, <2>2, <2>3 DEF RewardInv, GrantsBounded, Overrun, Spent
  <2>5. TypeOK
    BY <2>1 DEF RewardInv, RewardTypes, TypeOK
  <2> QED BY <2>4, <2>5 DEF BudgetOverrunBounded
<1> QED BY <1>1, InitHolds, RewardInvStep, PTL DEF Spec

-----------------------------------------------------------------------------
(* The promise of the key *)

Effect == [k \in Keys |-> IF records[k] = None THEN None ELSE records[k].body]

LEMMA PromiseStep ==
  ASSUME RewardInv, [Next]_vars PROVE [Promise!Next]_<<Effect, answer>>
<1>0. /\ records \in [Keys -> Record \cup {None}] /\ answer \in [Attempts -> Answer \cup {None}]
      /\ None \notin Receipt /\ \A a \in Attempts : KeyOf[a] \in Keys /\ BodyOf[a] \in Receipt
      /\ \A a \in Attempts : phase[a] # "done" => answer[a] = None
  BY RewardAssumption DEF RewardInv, RewardTypes, KeysHeld, Keys, RewardAssumption
<1>1. ASSUME UNCHANGED <<records, answer>> PROVE UNCHANGED <<Effect, answer>>
  BY <1>1 DEF Effect
<1>2. ASSUME NEW a \in Attempts, Begin(a) \/ Miss(a) \/ LockObject(a) \/ ReadBudget(a) \/ ReadMonthlyCap(a)
      PROVE  UNCHANGED <<Effect, answer>>
  BY <1>1, <1>2 DEF Begin, Miss, LockObject, ReadBudget, ReadMonthlyCap
<1>3. ASSUME NEW a \in Attempts, Fail(a) \/ GiveUp(a) PROVE Promise!Fail(a)
  <2>1. answer[a] = None /\ answer' = [answer EXCEPT ![a] = "failed"] /\ Effect' = Effect
    BY <1>0, <1>3 DEF Fail, GiveUp, Finish, Open, Effect
  <2> QED BY <2>1 DEF Promise!Fail, Effect
<1>4. ASSUME NEW a \in Attempts, Replay(a) PROVE Promise!Replay(a) \/ Promise!Conflict(a)
  <2>1. answer[a] = None /\ Effect' = Effect /\ records[KeyOf[a]] # None
    BY <1>0, <1>4 DEF Replay, Stored, Effect
  <2>2. Effect[KeyOf[a]] = records[KeyOf[a]].body /\ records[KeyOf[a]].body \in Receipt
    BY <1>0, <2>1 DEF Effect, Record
  <2>3. CASE records[KeyOf[a]].body = BodyOf[a]
    <3>1. answer' = [answer EXCEPT ![a] = "replayed"]
      BY <1>4, <2>3 DEF Replay, Finish
    <3> QED BY <2>1, <2>2, <2>3, <3>1 DEF Promise!Replay, Effect
  <2>4. CASE records[KeyOf[a]].body # BodyOf[a]
    <3>1. answer' = [answer EXCEPT ![a] = "conflict"]
      BY <1>4, <2>4 DEF Replay, Finish
    <3>2. Effect[KeyOf[a]] \notin {None, BodyOf[a]}
      BY <1>0, <2>2, <2>4
    <3> QED BY <2>1, <3>1, <3>2 DEF Promise!Conflict, Effect
  <2> QED BY <2>3, <2>4
<1>5. ASSUME NEW a \in Attempts, Commit(a) PROVE Promise!TakeEffect(a)
  <2>1. /\ answer[a] = None /\ records[KeyOf[a]] = None
        /\ records' = [records EXCEPT ![KeyOf[a]] = [body |-> BodyOf[a], expired |-> FALSE]]
        /\ \E told \in {"created", "failed"} : answer' = [answer EXCEPT ![a] = told]
    BY <1>0, <1>5 DEF Commit, Finish
  <2>2. Effect[KeyOf[a]] = None
    BY <1>0, <2>1 DEF Effect
  <2>3. [body |-> BodyOf[a], expired |-> FALSE] # None
    <3>1. [body |-> BodyOf[a], expired |-> FALSE] \in Record
      BY <1>0 DEF Record
    <3> QED BY <3>1, RewardAssumption DEF RewardAssumption
  <2>4. Effect' = [Effect EXCEPT ![KeyOf[a]] = BodyOf[a]]
    BY <1>0, <2>1, <2>3 DEF Effect
  <2> QED BY <2>1, <2>2, <2>4 DEF Promise!TakeEffect, Effect
<1>6. ASSUME NEW k \in Keys, Expire(k) PROVE UNCHANGED <<Effect, answer>>
  <2>1. records[k] \in Record /\ records' = [records EXCEPT ![k].expired = TRUE] /\ answer' = answer
    BY <1>0, <1>6 DEF Expire
  <2>2. \A j \in Keys : (records'[j] = None <=> records[j] = None) /\ (records[j] # None =>
          records'[j].body = records[j].body)
    BY <1>0, <2>1, RewardAssumption DEF Record, RewardAssumption
  <2> QED BY <2>1, <2>2 DEF Effect
<1>7. CASE UNCHANGED vars
  BY <1>1, <1>7 DEF vars
<1> QED BY <1>2, <1>3, <1>4, <1>5, <1>6, <1>7 DEF Next, Proceed, Promise!Next

\* Concurrent and repeated attempts implement the promise: the transaction of runIdempotent
\* takes effect once per key, and every other answer is true of that effect.
THEOREM PromiseCorrect == Spec => KeyPromiseKept
<1>1. Init => Promise!Init
  BY DEF Init, Promise!Init, Keys
<1>2. RewardInv /\ [Next]_vars => [Promise!Next]_<<Effect, answer>>
  BY PromiseStep
<1> QED BY <1>1, <1>2, InitHolds, RewardInvStep, PTL DEF Spec, KeyPromiseKept, Promise!Spec, Effect
=============================================================================
