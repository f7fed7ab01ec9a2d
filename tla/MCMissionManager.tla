--------------------------- MODULE MCMissionManager ---------------------------
(***************************************************************************)
(* MissionManager with one mission of two waypoints that ends at the last  *)
(* one and one of a single waypoint that returns to the dock.              *)
(***************************************************************************)
EXTENDS MissionManager

MCPlans == {[waypoints |-> 2, dock |-> FALSE], [waypoints |-> 1, dock |-> TRUE]}

MCOnePlan == {[waypoints |-> 1, dock |-> TRUE]}
=============================================================================
