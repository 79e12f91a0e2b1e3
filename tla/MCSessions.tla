----------------------------- MODULE MCSessions -----------------------------
(* Two browsers of one account, both signed in.                            *)
EXTENDS Sessions, TLC

CONSTANTS d1, d2, w1, w2

Numbers == 0..6
TwoRows == 0..4
TwoLinks == 0..2
BothIn == [d \in Devices |-> IF d = d1 THEN 0 ELSE 1]
SwapWorkers == Permutations(Workers)
=============================================================================
