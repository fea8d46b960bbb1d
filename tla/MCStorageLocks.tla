--------------------------- MODULE MCStorageLocks ---------------------------
(* Three calls of any kind, one provider added while they are under way.   *)
EXTENDS StorageLocks, TLC

CONSTANTS c1, c2, c3, p1

MCCalls == {c1, c2, c3}
MCProviders == {p1}
CallSymmetry == Permutations(MCCalls)
=============================================================================
