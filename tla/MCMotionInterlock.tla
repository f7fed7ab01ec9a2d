-------------------------- MODULE MCMotionInterlock --------------------------
(* Two request ids against a cache of one: an id can be evicted and reused.  *)
EXTENDS MotionInterlock

CONSTANTS r1, r2

MCRequestIds == {r1, r2}
=============================================================================
