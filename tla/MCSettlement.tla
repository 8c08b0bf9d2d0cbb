---------------------------- MODULE MCSettlement ----------------------------
(* Two rounds of one session that lock together and resolve one after the  *)
(* other, with caps small enough to bite.                                  *)
EXTENDS Settlement

CONSTANTS p1, p2, w1, w2, c1, c2

MCLocksAt == [p \in Predictions |-> 1]
MCResolvesAt == [p \in Predictions |-> IF p = p1 THEN 2 ELSE 3]
MCPool == [p \in Predictions |-> IF p = p1 THEN 3 ELSE 4]

CapsRules == {p1 :> "occurs" @@ p2 :> "survives"}
WindowRules == [{p2} -> {"survives", "outcome", "poison"}]

Symmetry == Permutations({w1, w2}) \cup Permutations({c1, c2})
=============================================================================
