------------------------- MODULE IdempotentCommand -------------------------
(***************************************************************************)
(* What an Idempotency-Key promises a client that repeats its request: the *)
(* key's command takes effect at most once, with the body of one attempt;  *)
(* an attempt that is told of success is told of that effect; any attempt  *)
(* may fail, and may fail after the effect if its answer is lost.          *)
(***************************************************************************)
CONSTANTS
  Attempts,  \* HTTP requests, the repeated ones included
  KeyOf,     \* [Attempts -> keys]
  BodyOf,    \* [Attempts -> bodies]
  None

VARIABLES
  effect,    \* the body each key took effect with, or None
  answer     \* what each attempt was told, None until then

Init ==
  /\ effect = [k \in {KeyOf[a] : a \in Attempts} |-> None]
  /\ answer = [a \in Attempts |-> None]

TakeEffect(a) ==
  /\ answer[a] = None
  /\ effect[KeyOf[a]] = None
  /\ effect' = [effect EXCEPT ![KeyOf[a]] = BodyOf[a]]
  /\ \E told \in {"created", "failed"} : answer' = [answer EXCEPT ![a] = told]

Replay(a) ==
  /\ answer[a] = None
  /\ effect[KeyOf[a]] = BodyOf[a]
  /\ answer' = [answer EXCEPT ![a] = "replayed"]
  /\ UNCHANGED effect

Conflict(a) ==
  /\ answer[a] = None
  /\ effect[KeyOf[a]] \notin {None, BodyOf[a]}
  /\ answer' = [answer EXCEPT ![a] = "conflict"]
  /\ UNCHANGED effect

Fail(a) ==
  /\ answer[a] = None
  /\ answer' = [answer EXCEPT ![a] = "failed"]
  /\ UNCHANGED effect

Next == \E a \in Attempts : TakeEffect(a) \/ Replay(a) \/ Conflict(a) \/ Fail(a)

Spec == Init /\ [][Next]_<<effect, answer>>
=============================================================================
