---------------------------- MODULE MotionPermit -----------------------------
(***************************************************************************)
(* What safety_manager promises to the rest of the robot, with none of how *)
(* it decides: a permit and two independent holds, an E-stop and a fault.  *)
(* Any hold withdraws the permit, each hold is lifted by itself, a fault   *)
(* cannot be lifted under an E-stop, and lifting the last hold does not    *)
(* bring the permit back: that takes a step of its own.                    *)
(***************************************************************************)

VARIABLES
    permitted,  \* the motion permit subscribers see
    holds,      \* the causes that forbid motion
    life        \* the run of the supervisor, as a bit

Init == permitted = FALSE /\ holds = {} /\ life = FALSE

Grant == holds = {} /\ permitted' = TRUE /\ UNCHANGED holds

Withdraw == permitted' = FALSE /\ UNCHANGED holds

Hold(cause) == permitted' = FALSE /\ holds' = holds \cup {cause}

LiftEStop == holds' = holds \ {"estop"} /\ UNCHANGED permitted

LiftFault == "estop" \notin holds /\ holds' = {} /\ UNCHANGED permitted

\* A restarted supervisor knows no hold and gives no permit.
Forget == permitted' = FALSE /\ holds' = {} /\ life' = ~life

Decide ==
    \/ Grant
    \/ Withdraw
    \/ \E cause \in {"estop", "fault"} : Hold(cause)
    \/ LiftEStop
    \/ LiftFault

Next ==
    \/ Decide /\ UNCHANGED life
    \/ Forget

Spec == Init /\ [][Next]_<<permitted, holds, life>>
=============================================================================
