----------------------------- MODULE MCRewards -----------------------------
(***************************************************************************)
(* Receipts under three keys for TLC: the first key is used by a request,  *)
(* its repetition and another receipt; that receipt scans the object of the*)
(* second key's, whose event is a month late.  One reward exhausts the     *)
(* budget, two connections let two attempts decide at the same time.       *)
(***************************************************************************)
EXTENDS Rewards

CONSTANTS a1, a2, a3, a4, a5

MCKeyOf == [a \in Attempts |-> CASE a \in {a1, a2, a3} -> "k1" [] a = a4 -> "k2"
                                 [] a = a5 -> "k3"]
Scan(object, m) == [object |-> object, beneficiary |-> "store", month |-> m]
MCBodyOf == [a \in Attempts |-> CASE a \in {a1, a2} -> Scan("case1", 2)
                                  [] a = a3 -> Scan("case2", 2)
                                  [] a = a4 -> Scan("case2", 1)
                                  [] a = a5 -> Scan("case3", 2)]
=============================================================================
