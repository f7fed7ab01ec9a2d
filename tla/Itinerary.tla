------------------------------ MODULE Itinerary ------------------------------
(***************************************************************************)
(* What mission_manager promises to the operator, with none of how it      *)
(* talks to Nav2: the legs of the plan are done one after the other, each  *)
(* only after its place was visited in this run; a halt keeps the next     *)
(* leg; a mission that is being stopped only ends, and one that failed can *)
(* only be cleared away; and no mission starts before the safety state was *)
(* heard.  The dock, if there is one, is the last leg.                     *)
(***************************************************************************)
EXTENDS Integers

CONSTANTS Plans, NoPlan

VARIABLES
    plan,     \* the plan to carry out, or NoPlan
    next,     \* the leg to do next: those before it are done
    visited,  \* the legs whose place was visited in this run
    stage,    \* where the mission is between being given and being over
    informed  \* the safety state has been heard

Legs(p) == p.waypoints + (IF p.dock THEN 1 ELSE 0)

Over == {"completed", "failed"}

Cleared == stage' = "none" /\ plan' = NoPlan /\ next' = 0 /\ visited' = {}

Init ==
    /\ plan = NoPlan /\ next = 0 /\ visited = {} /\ stage = "none"
    /\ informed = FALSE

Configure(p) ==
    /\ stage \in {"none", "ready"} \cup Over
    /\ stage' = "ready" /\ plan' = p /\ next' = 0 /\ visited' = {}

Start ==
    /\ stage = "ready" /\ informed
    /\ stage' = "driving" /\ next' = 0 /\ visited' = {}
    /\ UNCHANGED plan

\* The place of a leg that is done or due is reached, even when the halt came first.
Visit(leg) ==
    /\ stage \notin {"none", "ready"}
    /\ leg <= next /\ leg < Legs(plan)
    /\ visited' = visited \cup {leg}
    /\ UNCHANGED <<plan, next, stage>>

\* The leg that is due is done, and with the last one the mission.
DoLeg ==
    /\ stage = "driving" /\ next \in visited
    /\ next' = next + 1
    /\ stage' = IF next' = Legs(plan) THEN "completed" ELSE "driving"
    /\ UNCHANGED <<plan, visited>>

Moves == {<<"driving", "halting">>, <<"halting", "held">>, <<"held", "driving">>,
          <<"driving", "failing">>, <<"failing", "failed">>,
          <<"driving", "stopping">>, <<"halting", "stopping">>, <<"failing", "stopping">>}

\* The mission halts, waits, goes on, fails, or begins to be stopped.
Interrupt == <<stage, stage'>> \in Moves /\ UNCHANGED <<plan, next, visited>>

Clear == stage \notin {"driving", "halting", "failing"} /\ Cleared

Carry ==
    \/ \E p \in Plans : Configure(p)
    \/ Start
    \/ \E leg \in 0..next : Visit(leg)
    \/ DoLeg
    \/ Interrupt
    \/ Clear

Hear == ~informed /\ informed' = TRUE /\ UNCHANGED <<plan, next, visited, stage>>

\* A restarted manager knows no plan and no safety state.  This is the promise the code
\* keeps: docs/control_architecture_contract.md:354 asks for more, a manager that comes
\* back READY or PAUSED with the stored checkpoint.  Only a restart forgets: a mission is
\* under way only after the safety state was heard, and only a restart unlearns that.
Forget == Cleared /\ informed' = FALSE

Next ==
    \/ Carry /\ UNCHANGED informed
    \/ Hear
    \/ Forget

Spec == Init /\ [][Next]_<<plan, next, visited, stage, informed>>
=============================================================================
