--------------------------- MODULE MCPayoutOutbox ---------------------------
(* PayoutOutbox on a small instance for TLC.                               *)
EXTENDS PayoutOutbox, TLC

CONSTANTS w1, w2, s1, s2, h1, h2, x1, x2

MCWallets == {w1, w2}
MCCredits == 1 .. 3
MCOwner   == <<w1, w1, w2>>
MCAmount  == <<1, 2, 1>>

Symmetry == Permutations({x1, x2})
=============================================================================
