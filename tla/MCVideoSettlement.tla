------------------------- MODULE MCVideoSettlement -------------------------
(* A small instance of VideoSettlement for TLC: one paid job and one       *)
(* acceptance job of the same customer.                                    *)
EXTENDS VideoSettlement

CONSTANTS j1, j2, p1, p2, w1, w2, a1

DistinctIds == [p \in Procs |-> IF p = p1 THEN w1 ELSE w2]
OneOwner == [j \in Jobs |-> a1]
=============================================================================
