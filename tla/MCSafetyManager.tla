--------------------------- MODULE MCSafetyManager ---------------------------
(* Three request ids against a cache of two: an id can be evicted and reused. *)
EXTENDS SafetyManager, TLC

CONSTANTS r1, r2, r3

MCRequestIds == {r1, r2, r3}

MCSymmetry == Permutations(MCRequestIds)
=============================================================================
