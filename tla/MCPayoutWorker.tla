--------------------------- MODULE MCPayoutWorker ---------------------------
(* PayoutWorker on small instances for TLC.                                *)
EXTENDS PayoutWorker, TLC

CONSTANTS w1, w2, s1, s2, r1, r2, f1, f2

MCCredits == 1 .. 2
MCOne == {1}
MCOwner   == <<w1, w2>>
MCOneOwner == <<w1>>
MCAmount  == <<1, 1>>
MCOneAmount == <<1>>

RunSymmetry == Permutations({r1, r2}) \cup Permutations({f1, f2})
KeySymmetry == Permutations({s1, s2})
=============================================================================
