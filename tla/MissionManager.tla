---------------------------- MODULE MissionManager ----------------------------
(***************************************************************************)
(* The mission_manager node: the mission state machine, the plan and its   *)
(* checkpoint, the pending START, and the Nav2 leaf with its goals.        *)
(*                                                                         *)
(* Nav2 is outside the node, and so are the messages between them: a goal  *)
(* is a record that says how far Nav2 got with it, whether the client has  *)
(* heard the response, and whether a cancel was sent.  An undelivered      *)
(* response or result is a callback that has not run yet.                  *)
(*                                                                         *)
(* A waypoint is its number, and the dock is the number after the last     *)
(* waypoint.  Poses, ids, capabilities, reasons and details are left out,  *)
(* and so are the response caches: a resent request that is answered from  *)
(* a cache is a stuttering step, and here every request is carried out.    *)
(***************************************************************************)
EXTENDS Integers, FiniteSets

CONSTANTS
    Plans,          \* valid plans: [waypoints |-> how many, dock |-> return_to_dock]
    MaxGenerations, \* bound: goals sent and given up in one life of the node
    MaxOrphans      \* bound: goals of dead processes that are still with Nav2

NoPlan == [waypoints |-> 0, dock |-> FALSE]
NoGoal == -1

ASSUME MissionConstants ==
    /\ Plans \subseteq [waypoints : Nat \ {0}, dock : BOOLEAN]
    /\ MaxGenerations \in Nat /\ MaxOrphans \in Nat

MissionStates == {"IDLE", "READY", "RUNNING", "PAUSING", "PAUSED", "RECOVERING",
                  "RETURNING", "COMPLETED", "FAILED"}
Active == {"RUNNING", "RETURNING"}
Terminal == {"COMPLETED", "FAILED"}

\* Pause, manual takeover and link loss are handled alike; the node raises the
\* first and the safety stop.
Holds == {"PauseRequested", "SafetyStop"}

\* What of SafetyState the node tells apart: LATCHED is E_STOP_LATCHED or FAULT,
\* STOPPED is CONTROLLED_STOP or INITIALIZING.
SafetyViews == {"UNKNOWN", "STOPPED", "NORMAL", "LATCHED"}

VARIABLES
    fsm, haltTarget, resumeTarget, returnToDock,  \* the StateMachine's fields
    plan,           \* plan_, NoPlan when has_plan_ is false
    index,          \* mission_index_
    startRequested, \* start_requested_
    startSeq,       \* start_safety_sequence_: "unset", or against the last sequence seen
    asked,          \* a RESUME call of this START generation may be unanswered
    safety,         \* safety_state_ with have_safety_state_
    bt,             \* nav_bt_.active_goal_id_
    phase,          \* goal_phase_
    handle,         \* nav_goal_: the generation it belongs to, 0 for none
    unsendable,     \* goal_unsendable_
    generation,     \* goal_generation_
    goals,          \* the goals Nav2 or a callback still has to finish
    reached,        \* history: targets Nav2 reported reached in this run
    runStart,       \* history: the generation when this run started
    consent         \* history: a START stands for this plan under this safety

machine == <<fsm, haltTarget, resumeTarget, returnToDock>>
pendingStart == <<startRequested, startSeq, asked>>
leaf == <<bt, phase, handle, unsendable, generation>>
run == <<reached, runStart>>
vars == <<machine, plan, index, pendingStart, safety, leaf, goals, run, consent>>

Goals == [gen : Nat, target : Nat,
          server : {"pending", "rejected", "executing", "succeeded", "failed"},
          heard : BOOLEAN, cancel : BOOLEAN]

-----------------------------------------------------------------------------
(* The state machine.                                                      *)

Target(e) ==
    CASE e = "MissionConfigured" /\ fsm = "IDLE" -> "READY"
      [] e = "StartRequested" /\ fsm = "READY" -> "RUNNING"
      [] e \in Holds /\ fsm \in Active -> "PAUSING"
      [] e \in Holds /\ fsm \in {"PAUSING", "PAUSED"} -> fsm
      [] e = "SafetyStop" /\ fsm = "RECOVERING" -> "PAUSED"
      [] e = "StopRequested" -> IF fsm \in Active \cup {"PAUSING"} THEN "PAUSING" ELSE "IDLE"
      [] e = "FatalStepFailure" /\ fsm \in Active \cup {"PAUSING"} -> "PAUSING"
      [] e = "MotionQuiesced" /\ fsm = "PAUSING" -> haltTarget
      [] e = "ResumeRequested" /\ fsm = "PAUSED" -> "RECOVERING"
      [] e = "RecoveryReady" /\ fsm = "RECOVERING" -> resumeTarget
      [] e = "InspectionComplete" /\ fsm = "RUNNING" ->
           IF returnToDock THEN "RETURNING" ELSE "COMPLETED"
      [] e = "ReturnComplete" /\ fsm = "RETURNING" -> "COMPLETED"
      [] e = "ResetRequested" /\ fsm \in Terminal -> "IDLE"
      [] OTHER -> "rejected"

Accepts(e) == Target(e) # "rejected"

\* Wrong variant: a pause repeated while halting becomes the halt target.
HaltTargetLastWins(e) ==
    CASE e \in Holds -> "PAUSED"
      [] e = "StopRequested" -> "IDLE"
      [] e = "FatalStepFailure" -> "FAILED"
      [] OTHER -> haltTarget

\* Where a halt leads: a stop overrides, and a stop accepted earlier is kept.
HaltTargetAfter(e) ==
    CASE e \in Holds /\ fsm \in Active -> "PAUSED"
      [] e = "StopRequested" -> "IDLE"
      [] e = "FatalStepFailure" ->
           IF fsm = "PAUSING" /\ haltTarget = "IDLE" THEN "IDLE" ELSE "FAILED"
      [] OTHER -> haltTarget

\* Wrong variant: the interrupted phase is not recorded.
MoveForgetsPhase(e) ==
    /\ fsm' = IF Accepts(e) THEN Target(e) ELSE fsm
    /\ haltTarget' = IF Target(e) = "PAUSING" THEN HaltTargetAfter(e) ELSE haltTarget
    /\ resumeTarget' = resumeTarget

Move(e) ==
    /\ fsm' = IF Accepts(e) THEN Target(e) ELSE fsm
    /\ haltTarget' = IF Target(e) = "PAUSING" THEN HaltTargetAfter(e) ELSE haltTarget
    /\ resumeTarget' = IF Target(e) = "PAUSING" /\ fsm \in Active THEN fsm ELSE resumeTarget

-----------------------------------------------------------------------------
(* Giving up the Nav2 goal, and a transition with its side effects.        *)

Cancelled(gen) == {IF g.gen = gen THEN [g EXCEPT !.cancel = TRUE] ELSE g : g \in goals}

\* Wrong variant: the goal keeps its generation.
CancelNavigationSameGeneration ==
    /\ goals' = IF handle # 0 THEN Cancelled(handle) ELSE goals
    /\ handle' = 0
    /\ phase' = "IDLE"
    /\ UNCHANGED generation

CancelNavigation ==
    /\ generation' = generation + 1
    /\ goals' = IF handle # 0 THEN Cancelled(handle) ELSE goals
    /\ handle' = 0
    /\ phase' = "IDLE"

Halt ==
    /\ UNCHANGED unsendable
    /\ bt' = NoGoal
    /\ IF bt # NoGoal THEN CancelNavigation ELSE UNCHANGED <<phase, handle, generation, goals>>

ClearPendingStart == startRequested' = FALSE /\ startSeq' = "unset" /\ asked' = FALSE

Dispatch(e) ==
    /\ Move(e)
    /\ UNCHANGED <<returnToDock, safety, run>>
    /\ IF Target(e) = "PAUSING" THEN Halt ELSE UNCHANGED <<leaf, goals>>
    /\ IF Target(e) = "IDLE"
       THEN plan' = NoPlan /\ index' = 0 /\ ClearPendingStart /\ consent' = FALSE
       ELSE UNCHANGED <<plan, index, pendingStart, consent>>

-----------------------------------------------------------------------------
(* The services.                                                           *)

\* A valid plan replaces the one of a mission that has not started or is over.
OnConfigure(p) ==
    /\ fsm \in {"IDLE", "READY"} \cup Terminal
    /\ ClearPendingStart
    /\ plan' = p /\ index' = 0
    /\ returnToDock' = p.dock
    /\ fsm' = "READY"
    /\ consent' = FALSE
    /\ UNCHANGED <<haltTarget, resumeTarget, safety, leaf, goals, run>>

\* The rate limit and an absent service may swallow the call.
RequestDependencies == asked' \in {asked, TRUE}

OnStart ==
    /\ fsm = "READY"
    /\ startRequested' = TRUE
    /\ startSeq' = IF safety = "UNKNOWN" THEN "unset" ELSE "last"
    /\ asked' \in BOOLEAN
    /\ consent' = TRUE
    /\ UNCHANGED <<machine, plan, index, safety, leaf, goals, run>>

\* A RESUME sends requests too, whose answers the node only logs.
OnPauseOrResume(e) == Accepts(e) /\ Dispatch(e)

OnStop == Dispatch(IF fsm \in Terminal THEN "ResetRequested" ELSE "StopRequested")

OnReset == Accepts("ResetRequested") /\ Dispatch("ResetRequested")

\* Safety refused the RESUME sent for this START.
OnResumeRefused ==
    /\ asked /\ startRequested /\ fsm = "READY"
    /\ ClearPendingStart
    /\ consent' = FALSE
    /\ UNCHANGED <<machine, plan, index, safety, leaf, goals, run>>

-----------------------------------------------------------------------------
(* Topics.                                                                 *)

StartSeqAfter(changed) ==
    CASE startSeq = "unset" -> "last"
      [] startSeq = "last" /\ changed -> "older"
      [] OTHER -> startSeq

\* Wrong variant: only a latched state withdraws a pending START.
SafetyEndsStartLatchedOnly(s, changed) == s = "LATCHED"

SafetyEndsStart(s, changed) ==
    \/ s = "LATCHED"
    \/ s # "NORMAL" /\ startSeq = "older"
    \/ s # "NORMAL" /\ startSeq = "last" /\ changed

\* The state comes with a sequence number, changed whenever the state did.
OnSafety(s, changed) ==
    /\ s # safety => changed
    /\ safety' = s
    /\ consent' = (consent /\ s # "LATCHED" /\ ~(safety = "NORMAL" /\ s # "NORMAL"))
    /\ UNCHANGED <<returnToDock, plan, index, run>>
    /\ IF ~startRequested THEN UNCHANGED pendingStart
       ELSE IF SafetyEndsStart(s, changed) THEN ClearPendingStart
       ELSE startSeq' = StartSeqAfter(changed) /\ UNCHANGED <<startRequested, asked>>
    /\ IF s # "NORMAL" /\ fsm \in Active \cup {"RECOVERING"}
       THEN /\ Move("SafetyStop")
            /\ IF fsm \in Active THEN Halt ELSE UNCHANGED <<leaf, goals>>
       ELSE UNCHANGED <<fsm, haltTarget, resumeTarget, leaf, goals>>

-----------------------------------------------------------------------------
(* The timer.  The handlers of authority, odometry, final command and stop *)
(* feedback only store what they receive, and only the timer reads it: so  *)
(* "ready" (BASE_ACTIVE and fresh odometry) and "still" (a fresh zero      *)
(* command and fresh stop feedback) are what the timer happens to find,    *)
(* as is the readiness of the action server.                               *)

DependenciesReady(ready) == safety = "NORMAL" /\ ready

MotionQuiesced(still) == phase # "ACTIVE" /\ handle = 0 /\ still

TickPendingStart(ready) ==
    /\ fsm = "READY" /\ startRequested
    /\ UNCHANGED <<returnToDock, plan, safety, leaf, goals>>
    /\ IF DependenciesReady(ready)
       THEN /\ ClearPendingStart
            /\ Move("StartRequested")
            /\ index' = 0
            /\ reached' = {} /\ runStart' = generation
            /\ consent' = FALSE
       ELSE /\ RequestDependencies
            /\ UNCHANGED <<fsm, haltTarget, resumeTarget, index, startRequested, startSeq,
                           run, consent>>

TickPausing(still) == fsm = "PAUSING" /\ MotionQuiesced(still) /\ Dispatch("MotionQuiesced")

TickRecovering(ready) ==
    /\ fsm = "RECOVERING"
    /\ DependenciesReady(ready)
    /\ Dispatch("RecoveryReady")

\* The leaf is over; what follows is the move of the machine.
LeafDone == bt' = NoGoal /\ phase' = "IDLE" /\ UNCHANGED <<handle, generation, goals>>

LeafSucceeds ==
    /\ phase = "SUCCEEDED"
    /\ LeafDone /\ UNCHANGED unsendable
    /\ index' = IF fsm = "RUNNING" THEN index + 1 ELSE index
    /\ IF fsm = "RETURNING" THEN Move("ReturnComplete")
       ELSE IF index + 1 >= plan.waypoints THEN Move("InspectionComplete")
       ELSE UNCHANGED <<fsm, haltTarget, resumeTarget>>

\* A goal that could not be sent pauses the mission, any other failure fails it.
LeafFails ==
    /\ phase = "FAILED"
    /\ LeafDone /\ unsendable' = FALSE
    /\ UNCHANGED index
    /\ Move(IF unsendable THEN "PauseRequested" ELSE "FatalStepFailure")

LeafUnavailable ==
    /\ phase = "IDLE"
    /\ LeafDone /\ unsendable' = FALSE
    /\ UNCHANGED index
    /\ Move("PauseRequested")

SendGoal ==
    /\ phase = "IDLE"
    /\ generation < MaxGenerations
    /\ generation' = generation + 1
    /\ phase' = "ACTIVE"
    /\ bt' = index
    /\ goals' = goals \cup {[gen |-> generation + 1, target |-> index, server |-> "pending",
                             heard |-> FALSE, cancel |-> FALSE]}
    /\ UNCHANGED <<fsm, haltTarget, resumeTarget, index, handle, unsendable>>

\* Nav2Bt refuses a leaf other than the one it is running.
LeafMixedUp ==
    /\ UNCHANGED index
    /\ Move(IF unsendable THEN "PauseRequested" ELSE "FatalStepFailure")
    /\ bt' = NoGoal /\ CancelNavigation /\ unsendable' = FALSE

\* A leaf in progress leaves everything as it is.
TickActive(serverReady) ==
    /\ fsm \in Active
    /\ UNCHANGED <<returnToDock, plan, pendingStart, safety, run, consent>>
    /\ IF fsm = "RUNNING" /\ index >= plan.waypoints
       THEN Move("InspectionComplete") /\ UNCHANGED <<index, leaf, goals>>
       ELSE IF bt \notin {NoGoal, index} THEN LeafMixedUp
       ELSE LeafSucceeds \/ LeafFails \/ (IF serverReady THEN SendGoal ELSE LeafUnavailable)

-----------------------------------------------------------------------------
(* Callbacks of the Nav2 action client.                                    *)

Becomes(g, h) == goals' = (goals \ {g}) \cup {h}
Forget(g) == goals' = goals \ {g}

\* Wrong variant: a late response is ignored and its goal left alone.
OnGoalResponseForgetsLate(g) ==
    /\ g.gen # 0 /\ g.server # "pending" /\ ~g.heard
    /\ IF g.server = "rejected" THEN Forget(g) ELSE Becomes(g, [g EXCEPT !.heard = TRUE])
    /\ IF g.gen # generation THEN UNCHANGED <<unsendable, phase, handle>>
       ELSE IF g.server = "rejected"
       THEN unsendable' = TRUE /\ phase' = "FAILED" /\ UNCHANGED handle
       ELSE handle' = g.gen /\ UNCHANGED <<unsendable, phase>>
    /\ UNCHANGED <<machine, plan, index, pendingStart, safety, bt, generation, run, consent>>

\* A response that comes too late gets its goal cancelled.
OnGoalResponse(g) ==
    /\ g.gen # 0 /\ g.server # "pending" /\ ~g.heard
    /\ IF g.server = "rejected" THEN Forget(g)
       ELSE Becomes(g, [g EXCEPT !.heard = TRUE, !.cancel = (g.gen # generation)])
    /\ IF g.gen # generation THEN UNCHANGED <<unsendable, phase, handle>>
       ELSE IF g.server = "rejected"
       THEN unsendable' = TRUE /\ phase' = "FAILED" /\ UNCHANGED handle
       ELSE handle' = g.gen /\ UNCHANGED <<unsendable, phase>>
    /\ UNCHANGED <<machine, plan, index, pendingStart, safety, bt, generation, run, consent>>

Reported(g) == IF g.server = "succeeded" THEN "SUCCEEDED" ELSE "FAILED"

\* Wrong variant: a result counts whatever its generation.
OnResultAnyGeneration(g) ==
    /\ g.heard /\ g.server \in {"succeeded", "failed"}
    /\ Forget(g)
    /\ handle' = 0 /\ phase' = Reported(g)
    /\ reached' = IF g.server = "succeeded" /\ g.gen > runStart
                  THEN reached \cup {g.target} ELSE reached
    /\ UNCHANGED <<machine, plan, index, pendingStart, safety, bt, unsendable, generation,
                   runStart, consent>>

OnResult(g) ==
    /\ g.heard /\ g.server \in {"succeeded", "failed"}
    /\ Forget(g)
    /\ IF g.gen = generation THEN handle' = 0 /\ phase' = Reported(g)
       ELSE UNCHANGED <<handle, phase>>
    /\ reached' = IF g.server = "succeeded" /\ g.gen > runStart
                  THEN reached \cup {g.target} ELSE reached
    /\ UNCHANGED <<machine, plan, index, pendingStart, safety, bt, unsendable, generation,
                   runStart, consent>>

-----------------------------------------------------------------------------
(* Nav2.  It takes goals in the order they were sent, a new one preempts   *)
(* the one it executes, and a cancelled goal may still succeed.            *)

node == <<machine, plan, index, pendingStart, safety, leaf, run, consent>>

NavAccept(g) ==
    /\ g.server = "pending"
    /\ \A h \in goals : h.server = "pending" => h.gen >= g.gen
    /\ goals' = {IF h = g THEN [h EXCEPT !.server = "executing"]
                 ELSE IF h.server = "executing" THEN [h EXCEPT !.server = "failed"]
                 ELSE h : h \in goals}
    /\ UNCHANGED node

NavReject(g) ==
    /\ g.server = "pending"
    /\ Becomes(g, [g EXCEPT !.server = "rejected"])
    /\ UNCHANGED node

\* The goal of a process that died is reported to nobody.
NavFinish(g, outcome) ==
    /\ g.server = "executing"
    /\ IF g.gen = 0 THEN Forget(g) ELSE Becomes(g, [g EXCEPT !.server = outcome])
    /\ UNCHANGED node

\* Nav2 dies: what it has not answered is never answered.
NavRestart == goals' = {} /\ UNCHANGED node

-----------------------------------------------------------------------------
\* The goals a process that dies leaves with Nav2.
Orphaned ==
    {[g EXCEPT !.gen = 0, !.heard = FALSE] :
        g \in {h \in goals : h.server \in {"pending", "executing"}}}

\* mission_manager dies and is started again: it keeps no checkpoint and no
\* handle, and its goals stay with Nav2.
Restart ==
    /\ Cardinality(Orphaned) <= MaxOrphans
    /\ fsm' = "IDLE" /\ haltTarget' = "PAUSED" /\ resumeTarget' = "RUNNING"
    /\ returnToDock' = FALSE
    /\ plan' = NoPlan /\ index' = 0
    /\ ClearPendingStart
    /\ safety' = "UNKNOWN"
    /\ bt' = NoGoal /\ phase' = "IDLE" /\ handle' = 0 /\ unsendable' = FALSE
    /\ generation' = 0
    /\ goals' = Orphaned
    /\ reached' = {} /\ runStart' = 0 /\ consent' = FALSE

Init ==
    /\ fsm = "IDLE" /\ haltTarget = "PAUSED" /\ resumeTarget = "RUNNING"
    /\ returnToDock = FALSE
    /\ plan = NoPlan /\ index = 0
    /\ startRequested = FALSE /\ startSeq = "unset" /\ asked = FALSE
    /\ safety = "UNKNOWN"
    /\ bt = NoGoal /\ phase = "IDLE" /\ handle = 0 /\ unsendable = FALSE
    /\ generation = 0
    /\ goals = {}
    /\ reached = {} /\ runStart = 0 /\ consent = FALSE

Operate ==
    \/ \E p \in Plans : OnConfigure(p)
    \/ OnStart
    \/ \E e \in {"PauseRequested", "ResumeRequested"} : OnPauseOrResume(e)
    \/ OnStop
    \/ OnReset
    \/ OnResumeRefused

Listen == \E s \in SafetyViews \ {"UNKNOWN"}, changed \in BOOLEAN : OnSafety(s, changed)

Tick ==
    \/ \E ready \in BOOLEAN : TickPendingStart(ready)
    \/ \E still \in BOOLEAN : TickPausing(still)
    \/ \E ready \in BOOLEAN : TickRecovering(ready)
    \/ \E ready \in BOOLEAN : TickActive(ready)

Answer(g) == OnGoalResponse(g) \/ OnResult(g)

Nav2 ==
    \/ \E g \in goals : NavAccept(g)
    \/ \E g \in goals : NavReject(g)
    \/ \E g \in goals, outcome \in {"succeeded", "failed"} : NavFinish(g, outcome)
    \/ NavRestart

Next ==
    \/ Operate
    \/ Listen
    \/ Tick
    \/ \E g \in goals : Answer(g)
    \/ Nav2
    \/ Restart

Spec == Init /\ [][Next]_vars

Sent(n) == {g \in goals : g.gen = n}

\* Nav2 decides on goals, ends cancelled ones, and its answers arrive.
FairSpec ==
    /\ Spec
    /\ WF_vars(\E g \in goals : NavAccept(g) \/ NavReject(g))
    /\ WF_vars(\E g \in goals : g.cancel /\ NavFinish(g, "failed"))
    /\ WF_vars(\E g \in goals : Answer(g))

-----------------------------------------------------------------------------
(* Properties.                                                             *)

\* Types of every variable.
TypeOK ==
    /\ fsm \in MissionStates
    /\ haltTarget \in {"PAUSED", "IDLE", "FAILED"} /\ resumeTarget \in Active
    /\ returnToDock \in BOOLEAN
    /\ plan \in Plans \cup {NoPlan} /\ index \in 0..plan.waypoints
    /\ startRequested \in BOOLEAN /\ asked \in BOOLEAN
    /\ startSeq \in {"unset", "last", "older"}
    /\ safety \in SafetyViews
    /\ bt \in Nat \cup {NoGoal} /\ phase \in {"IDLE", "ACTIVE", "SUCCEEDED", "FAILED"}
    /\ handle \in Nat /\ unsendable \in BOOLEAN /\ generation \in Nat
    /\ goals \subseteq Goals
    /\ reached \subseteq Nat /\ runStart \in Nat /\ consent \in BOOLEAN

\* A goal Nav2 has or will get is the one an active mission waits for, or its
\* late response will cancel it, or its cancel was sent: no order of callbacks,
\* halts and resumes leaves a goal nobody looks after while the node lives.
NoGoalForgotten ==
    \A g \in goals :
        g.server \in {"pending", "executing"} /\ g.gen # 0 =>
            \/ g.gen = generation /\ phase = "ACTIVE" /\ fsm \in Active
            \/ g.gen # generation /\ ~g.heard
            \/ g.cancel

\* The targets a mission must have reached when its checkpoint is index.
Passed == 0..(index - 1)

\* The checkpoint counts only waypoints Nav2 reported reached in this run, and a
\* completed mission reached every waypoint, and the dock when it returns to it.
CheckpointBacked ==
    /\ fsm \in MissionStates \ {"IDLE", "READY"} => Passed \subseteq reached
    /\ fsm = "COMPLETED" =>
         index = plan.waypoints /\ (plan.dock => plan.waypoints \in reached)

Phase == IF fsm \in Active THEN fsm ELSE resumeTarget

\* A mission that runs, halts, waits or recovers is in its return phase exactly
\* when every waypoint is done: an interruption resumes the interrupted phase at
\* the interrupted waypoint.
PhaseMatchesCheckpoint ==
    fsm \in Active \cup {"PAUSING", "PAUSED", "RECOVERING"} =>
        /\ plan # NoPlan
        /\ Phase = "RETURNING" <=> index = plan.waypoints
        /\ Phase = "RETURNING" => plan.dock

\* A mission starts only while a START stands: given for this plan, and followed
\* by no refused resume, no latched safety state and no loss of NORMAL.
StartAuthorised == [][fsm = "READY" /\ fsm' = "RUNNING" => consent]_vars

\* A STOP accepted while the robot halts is not undone by later pauses, safety
\* stops or failures: the halt ends with the mission cleared.
StopNotUndone ==
    [][fsm = "PAUSING" /\ haltTarget = "IDLE" =>
         fsm' = "IDLE" \/ (fsm' = "PAUSING" /\ haltTarget' = "IDLE")]_vars

\* A goal that was given up, even before Nav2 answered it, comes to an end.
GivenUpGoalsEnd ==
    \A n \in 1..MaxGenerations :
        Sent(n) # {} /\ generation # n ~> Sent(n) = {}

-----------------------------------------------------------------------------
(* The itinerary the node promises to the operator.                        *)

Stage ==
    CASE fsm = "IDLE" -> "none"
      [] fsm = "READY" -> "ready"
      [] fsm \in Active -> "driving"
      [] fsm = "PAUSING" /\ haltTarget = "PAUSED" -> "halting"
      [] fsm = "PAUSING" /\ haltTarget = "IDLE" -> "stopping"
      [] fsm = "PAUSING" /\ haltTarget = "FAILED" -> "failing"
      [] fsm \in {"PAUSED", "RECOVERING"} -> "held"
      [] fsm = "COMPLETED" -> "completed"
      [] fsm = "FAILED" -> "failed"

\* The node does not count the dock it has reached.
NextLeg == IF fsm = "COMPLETED" /\ plan.dock THEN index + 1 ELSE index

\* Before a mission starts, what the one before it reached does not count.
Visited == IF fsm \in {"IDLE", "READY"} THEN {} ELSE reached

Tour == INSTANCE Itinerary WITH
    next <- NextLeg, visited <- Visited, stage <- Stage, informed <- safety # "UNKNOWN"

\* The node implements the itinerary.
ImplementsItinerary == Tour!Spec

\* PAUSED: "all active leaves have stopped", so Nav2 executes no goal.
HaltedWhenPaused ==
    fsm = "PAUSED" => \A g \in goals : g.server # "executing"
=============================================================================
