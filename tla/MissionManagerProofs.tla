------------------------- MODULE MissionManagerProofs -------------------------
(***************************************************************************)
(* Proofs about mission_manager, for every set of plans and any number of  *)
(* goals: no goal is forgotten, the checkpoint is backed by results, the   *)
(* phase is the checkpoint's, the two action properties, and that the node *)
(* implements the itinerary.                                               *)
(*                                                                         *)
(* What makes the invariants inductive: the leaf is busy only while the    *)
(* mission is active and then with the waypoint of the checkpoint; goals   *)
(* of the present generation exist only while it is; and a pending START   *)
(* has consent behind it.                                                  *)
(* For the itinerary, goals of this run aim at legs that are done or due.  *)
(***************************************************************************)
EXTENDS MissionManager, TLAPS

USE MissionConstants

\* TypeOK in parts: the machine with its plan, the pending START, the leaf with its goals.
MachineType ==
    /\ fsm \in MissionStates
    /\ haltTarget \in {"PAUSED", "IDLE", "FAILED"} /\ resumeTarget \in Active
    /\ returnToDock \in BOOLEAN
    /\ plan \in Plans \cup {NoPlan}
    /\ index \in Nat /\ plan.waypoints \in Nat /\ index <= plan.waypoints

StartType ==
    /\ startRequested \in BOOLEAN /\ asked \in BOOLEAN /\ consent \in BOOLEAN
    /\ startSeq \in {"unset", "last", "older"}
    /\ safety \in SafetyViews

LeafType ==
    /\ bt \in Nat \cup {NoGoal} /\ phase \in {"IDLE", "ACTIVE", "SUCCEEDED", "FAILED"}
    /\ handle \in Nat /\ unsendable \in BOOLEAN /\ generation \in Nat
    /\ goals \subseteq Goals
    /\ reached \subseteq Nat /\ runStart \in Nat

\* A mission past IDLE has its plan, and the machine knows whether it ends at the dock.
Planned == fsm # "IDLE" => plan \in Plans /\ (returnToDock <=> plan.dock)

\* The leaf is busy only for the checkpoint of an active mission.
LeafIsCurrent ==
    /\ phase = "IDLE" => bt = NoGoal
    /\ phase # "IDLE" => fsm \in Active /\ bt = index
    /\ phase = "SUCCEEDED" => index \in reached
    /\ runStart <= generation
    /\ handle # 0 => handle = generation /\ phase = "ACTIVE"

Current(g) == g.gen = generation /\ g.gen # 0

\* Goals are told apart by their generation; the present one's is the leaf's, and an older
\* one that has been heard was cancelled.
GoalsAreKnown ==
    /\ \A g \in goals : g.gen <= generation /\ (g.gen = 0 => ~g.heard)
    /\ \A g, h \in goals : g.gen = h.gen /\ g.gen # 0 => g = h
    /\ \A g \in goals : Current(g) => /\ phase = "ACTIVE" /\ g.target = index
                                      /\ g.gen > runStart
                                      /\ g.heard => handle = generation
                                      /\ handle # 0 => g.heard
    /\ \A g \in goals : g.gen \notin {0, generation} => ~g.heard \/ g.cancel

\* A pending START stands, and knows the safety state it was given under.
StartStands ==
    /\ startRequested => consent
    /\ startRequested /\ safety # "UNKNOWN" => startSeq # "unset"

Inv ==
    /\ MachineType /\ StartType /\ LeafType
    /\ Planned /\ LeafIsCurrent /\ GoalsAreKnown /\ StartStands
    /\ PhaseMatchesCheckpoint /\ CheckpointBacked

LEMMA InvTypes == Inv => TypeOK
  BY DEF Inv, MachineType, StartType, LeafType, TypeOK

LEMMA InvGoals == Inv => NoGoalForgotten
  BY DEF Inv, LeafType, LeafIsCurrent, GoalsAreKnown, Current, NoGoalForgotten, Goals

LEMMA InvInit == Init => Inv
  <1>. SUFFICES ASSUME Init PROVE Inv
    OBVIOUS
  <1>. USE DEF Init
  <1>1. MachineType
    <2>1. NoPlan.waypoints = 0
      BY DEF NoPlan
    <2>2. fsm \in MissionStates /\ resumeTarget \in Active
      BY DEF MissionStates, Active
    <2>3. index \in Nat /\ plan.waypoints \in Nat /\ index <= plan.waypoints
      BY <2>1
    <2>4. QED
      BY <2>2, <2>3 DEF MachineType
  <1>2. StartType /\ LeafType
    BY DEF StartType, LeafType, SafetyViews, NoGoal
  <1>3. Planned /\ LeafIsCurrent /\ GoalsAreKnown /\ StartStands
    BY DEF Planned, LeafIsCurrent, GoalsAreKnown, StartStands
  <1>4. PhaseMatchesCheckpoint /\ CheckpointBacked
    BY DEF PhaseMatchesCheckpoint, CheckpointBacked, Active
  <1>5. QED
    BY <1>1, <1>2, <1>3, <1>4 DEF Inv

-----------------------------------------------------------------------------
(* Records.                                                                *)

LEMMA GoalCancelled ==
  ASSUME NEW g \in Goals
  PROVE  LET h == [g EXCEPT !.cancel = TRUE] IN
         /\ h \in Goals /\ h.gen = g.gen /\ h.target = g.target
         /\ h.heard = g.heard /\ h.cancel
  BY DEF Goals

LEMMA GoalHeard ==
  ASSUME NEW g \in Goals, NEW b \in BOOLEAN
  PROVE  LET h == [g EXCEPT !.heard = TRUE, !.cancel = b] IN
         /\ h \in Goals /\ h.gen = g.gen /\ h.target = g.target
         /\ h.heard /\ h.cancel = b
  BY DEF Goals

LEMMA GoalServed ==
  ASSUME NEW g \in Goals, NEW s \in {"rejected", "executing", "succeeded", "failed"}
  PROVE  LET h == [g EXCEPT !.server = s] IN
         /\ h \in Goals /\ h.gen = g.gen /\ h.target = g.target
         /\ h.heard = g.heard /\ h.cancel = g.cancel
  BY DEF Goals

LEMMA GoalOrphaned ==
  ASSUME NEW g \in Goals
  PROVE  LET h == [g EXCEPT !.gen = 0, !.heard = FALSE] IN h \in Goals /\ h.gen = 0 /\ ~h.heard
  BY DEF Goals

LEMMA GoalFields ==
  ASSUME NEW g \in Goals
  PROVE  g.gen \in Nat /\ g.target \in Nat /\ g.heard \in BOOLEAN /\ g.cancel \in BOOLEAN
  BY DEF Goals

-----------------------------------------------------------------------------
(* What a step that gives up, ends or leaves an idle leaf does to it.      *)

GoalsRest ==
    /\ LeafType
    /\ phase = "IDLE" /\ bt = NoGoal /\ handle = 0
    /\ \A g \in goals : g.gen <= generation /\ (g.gen = 0 => ~g.heard) /\ ~Current(g)
    /\ \A g, h \in goals : g.gen = h.gen /\ g.gen # 0 => g = h
    /\ \A g \in goals : g.gen \notin {0, generation} => ~g.heard \/ g.cancel

LEMMA RestIsEnough ==
  ASSUME GoalsRest', runStart' <= generation'
  PROVE  LeafType' /\ LeafIsCurrent' /\ GoalsAreKnown'
  BY DEF GoalsRest, LeafIsCurrent, GoalsAreKnown, Current

LEMMA IdleRests == Inv /\ phase = "IDLE" => GoalsRest
  BY DEF Inv, LeafIsCurrent, GoalsAreKnown, GoalsRest

LEMMA InactiveIsIdle == Inv /\ fsm \notin Active => phase = "IDLE"
  BY DEF Inv, LeafIsCurrent

LEMMA CancelRests ==
  ASSUME Inv, CancelNavigation, bt' = NoGoal, unsendable' \in BOOLEAN,
         UNCHANGED run
  PROVE  GoalsRest' /\ generation' = generation + 1
  <1>. USE DEF Inv, CancelNavigation
  <1>0. generation \in Nat /\ generation' = generation + 1 /\ handle' = 0 /\ phase' = "IDLE"
    BY DEF LeafType
  <1>1. ASSUME NEW h \in goals'
        PROVE  \E g \in goals : /\ h \in Goals /\ h.gen = g.gen /\ (h.heard => g.heard)
                                /\ g.cancel => h.cancel
                                /\ g.gen = handle /\ handle # 0 => h.cancel
                                /\ h = IF handle # 0 /\ g.gen = handle
                                       THEN [g EXCEPT !.cancel = TRUE] ELSE g
    <2>1. CASE handle = 0
      BY <2>1, <1>1 DEF LeafType
    <2>2. CASE handle # 0
      <3>1. PICK g \in goals : h = IF g.gen = handle THEN [g EXCEPT !.cancel = TRUE] ELSE g
        BY <2>2, <1>1 DEF Cancelled
      <3>2. g \in Goals
        BY DEF LeafType
      <3>3. QED
        BY <2>2, <3>1, <3>2, GoalCancelled
    <2>3. QED
      BY <2>1, <2>2
  <1>2. LeafType'
    <2>1. goals' \subseteq Goals
      BY <1>1
    <2>2. QED
      BY <1>0, <2>1 DEF LeafType, run
  <1>3. ASSUME NEW h \in goals'
        PROVE  /\ h.gen <= generation' /\ (h.gen = 0 => ~h.heard) /\ h.gen # generation'
               /\ h.gen \notin {0, generation'} => ~h.heard \/ h.cancel
    <2>1. PICK g \in goals : /\ h.gen = g.gen /\ (h.heard => g.heard) /\ (g.cancel => h.cancel)
                             /\ g.gen = handle /\ handle # 0 => h.cancel
      BY <1>1
    <2>2. g.gen \in Nat /\ g.gen <= generation /\ (g.gen = 0 => ~g.heard)
      BY GoalFields DEF LeafType, GoalsAreKnown
    <2>3. ASSUME g.gen # 0, g.heard PROVE h.cancel
      <3>1. CASE g.gen = generation
        BY <2>1, <2>3, <3>1 DEF GoalsAreKnown, Current
      <3>2. CASE g.gen # generation
        BY <2>1, <2>3, <3>2 DEF GoalsAreKnown
      <3>3. QED
        BY <3>1, <3>2
    <2>4. QED
      BY <1>0, <2>1, <2>2, <2>3
  <1>4. ASSUME NEW h \in goals', NEW k \in goals', h.gen = k.gen, h.gen # 0
        PROVE  h = k
    <2>1. PICK g \in goals : h.gen = g.gen /\ h = IF handle # 0 /\ g.gen = handle
                                                 THEN [g EXCEPT !.cancel = TRUE] ELSE g
      BY <1>1
    <2>2. PICK f \in goals : k.gen = f.gen /\ k = IF handle # 0 /\ f.gen = handle
                                                 THEN [f EXCEPT !.cancel = TRUE] ELSE f
      BY <1>1
    <2>3. g = f
      BY <1>4, <2>1, <2>2 DEF GoalsAreKnown
    <2>4. QED
      BY <2>1, <2>2, <2>3
  <1>5. QED
    BY <1>0, <1>2, <1>3, <1>4 DEF GoalsRest, Current

LEMMA HaltRests ==
  ASSUME Inv, Halt, UNCHANGED run
  PROVE  GoalsRest' /\ runStart' <= generation'
  <1>1. CASE bt # NoGoal
    <2>1. GoalsRest' /\ generation' = generation + 1
      BY <1>1, CancelRests DEF Halt, Inv, LeafType
    <2>2. QED
      BY <2>1 DEF Inv, LeafIsCurrent, LeafType, run
  <1>2. CASE bt = NoGoal
    <2>1. phase = "IDLE"
      BY <1>2 DEF Inv, LeafIsCurrent, MachineType, NoGoal
    <2>2. GoalsRest
      BY <2>1, IdleRests
    <2>3. QED
      BY <1>2, <2>2 DEF Halt, GoalsRest, LeafType, Current, run, Inv, LeafIsCurrent
  <1>3. QED
    BY <1>1, <1>2

LEMMA IdleStays ==
  ASSUME Inv, phase = "IDLE", UNCHANGED <<leaf, goals, reached>>,
         runStart' \in {runStart, generation}
  PROVE  GoalsRest' /\ runStart' <= generation'
  <1>1. GoalsRest
    BY IdleRests
  <1>2. QED
    BY <1>1 DEF GoalsRest, LeafType, Current, leaf, Inv, LeafIsCurrent

LEMMA DoneRests ==
  ASSUME Inv, phase # "ACTIVE", LeafDone, unsendable' \in BOOLEAN, UNCHANGED run
  PROVE  GoalsRest' /\ runStart' <= generation'
  <1>1. \A g \in goals : ~Current(g)
    BY DEF Inv, GoalsAreKnown
  <1>2. QED
    BY <1>1 DEF LeafDone, GoalsRest, Current, run, Inv, LeafType, LeafIsCurrent, GoalsAreKnown

-----------------------------------------------------------------------------
(* Moves of the machine that keep the plan, the checkpoint and the phase.  *)

Held == Active \cup {"PAUSING", "PAUSED", "RECOVERING"}

Mission == MachineType /\ Planned /\ PhaseMatchesCheckpoint /\ CheckpointBacked

Smooth ==
    /\ fsm' \in MissionStates
    /\ haltTarget' \in {"PAUSED", "IDLE", "FAILED"} /\ resumeTarget' \in Active
    /\ \/ fsm' = fsm /\ resumeTarget' = resumeTarget
       \/ fsm \in Held /\ fsm' \in Held /\ Phase' = Phase
       \/ fsm \in Held /\ fsm' = "FAILED"

LEMMA SmoothKeeps ==
  ASSUME Mission, Smooth, UNCHANGED <<plan, index, returnToDock>>, reached \subseteq reached'
  PROVE  Mission'
  <1>. USE DEF Mission
  <1>1. MachineType' /\ Planned'
    BY DEF MachineType, Planned, Smooth, Held, Active
  <1>2. CheckpointBacked'
    BY DEF CheckpointBacked, Passed, Smooth, Held, Active, MachineType
  <1>3. PhaseMatchesCheckpoint'
    <2>1. CASE fsm' = fsm /\ resumeTarget' = resumeTarget
      BY <2>1 DEF PhaseMatchesCheckpoint, Phase
    <2>2. CASE fsm \in Held /\ fsm' \in Held /\ Phase' = Phase
      BY <2>2 DEF PhaseMatchesCheckpoint, Held
    <2>3. CASE fsm' = "FAILED"
      BY <2>3 DEF PhaseMatchesCheckpoint, Active
    <2>4. QED
      BY <2>1, <2>2, <2>3 DEF Smooth
  <1>4. QED
    BY <1>1, <1>2, <1>3

\* The events of the services and of the timer, and the two the leaf and safety raise.
Ordinary == {"PauseRequested", "ResumeRequested", "StopRequested", "ResetRequested",
             "MotionQuiesced", "RecoveryReady", "SafetyStop", "FatalStepFailure"}

LEMMA TargetOf ==
  ASSUME MachineType, NEW e \in Ordinary
  PROVE  /\ Target(e) \in MissionStates \cup {"rejected"}
         /\ Target(e) # "rejected" /\ Target(e) # "IDLE" =>
              \/ Target(e) = "PAUSING" /\ fsm \in Active
              \/ Target(e) = "PAUSING" /\ fsm = "PAUSING"
              \/ Target(e) \in {"PAUSED", "FAILED"} /\ fsm \in {"PAUSING", "PAUSED", "RECOVERING"}
              \/ Target(e) = "RECOVERING" /\ fsm = "PAUSED"
              \/ Target(e) = resumeTarget /\ fsm = "RECOVERING" /\ e = "RecoveryReady"
         /\ fsm \in Active => Target(e) \in {"PAUSING", "rejected"}
         /\ fsm = "READY" => Target(e) \in {"IDLE", "rejected"}
  <1>. USE DEF MachineType, Holds, Active, Terminal, MissionStates
  <1>1. CASE e \in Holds
    BY <1>1 DEF Target
  <1>2. CASE e \in {"ResumeRequested", "ResetRequested", "RecoveryReady"}
    BY <1>2 DEF Target
  <1>3. CASE e \in {"StopRequested", "FatalStepFailure"}
    BY <1>3 DEF Target
  <1>4. CASE e = "MotionQuiesced"
    BY <1>4 DEF Target
  <1>5. QED
    BY <1>1, <1>2, <1>3, <1>4 DEF Ordinary

LEMMA MoveSmooth ==
  ASSUME MachineType, NEW e \in Ordinary, Move(e), Target(e) # "IDLE"
  PROVE  Smooth
  <1>. USE DEF MachineType
  <1>1. haltTarget' \in {"PAUSED", "IDLE", "FAILED"}
    BY DEF Move, HaltTargetAfter
  <1>2. resumeTarget' \in Active
    BY DEF Move
  <1>3. CASE Target(e) = "rejected"
    BY <1>1, <1>2, <1>3 DEF Move, Accepts, Smooth
  <1>4. CASE Target(e) # "rejected"
    <2>1. fsm' = Target(e) /\ fsm' \in MissionStates
      BY <1>4, TargetOf DEF Move, Accepts
    <2>2. CASE Target(e) = "PAUSING" /\ fsm \in Active
      <3>1. fsm' = "PAUSING" /\ resumeTarget' = fsm
        BY <2>1, <2>2 DEF Move
      <3>2. QED
        BY <1>1, <1>2, <2>1, <2>2, <3>1 DEF Smooth, Held, Phase, Active
    <2>3. CASE ~(Target(e) = "PAUSING" /\ fsm \in Active)
      <3>1. resumeTarget' = resumeTarget
        BY <2>3 DEF Move
      <3>2. QED
        BY <1>1, <1>2, <1>4, <2>1, <2>3, <3>1, TargetOf DEF Smooth, Held, Phase, Active
    <2>4. QED
      BY <2>2, <2>3
  <1>5. QED
    BY <1>3, <1>4

\* An accepted transition with its side effects.
LEMMA DispatchInv ==
  ASSUME Inv, NEW e \in Ordinary, Accepts(e), Dispatch(e)
  PROVE  Inv'
  <1>. USE DEF Dispatch
  <1>1. MachineType /\ Mission /\ UNCHANGED run
    BY DEF Inv, Mission
  <1>2. GoalsRest' /\ runStart' <= generation'
    <2>1. CASE Target(e) = "PAUSING"
      BY <2>1, <1>1, HaltRests
    <2>2. CASE Target(e) # "PAUSING"
      <3>1. fsm \notin Active
        BY <2>2, <1>1, TargetOf DEF Accepts
      <3>2. QED
        BY <2>2, <3>1, InactiveIsIdle, IdleStays DEF run
    <2>3. QED
      BY <2>1, <2>2
  <1>3. LeafType' /\ LeafIsCurrent' /\ GoalsAreKnown'
    BY <1>2, RestIsEnough
  <1>4. StartType' /\ StartStands'
    BY DEF Inv, StartType, StartStands, ClearPendingStart, pendingStart
  <1>5. Mission'
    <2>1. CASE Target(e) = "IDLE"
      <3>1. fsm' = "IDLE" /\ plan' = NoPlan /\ index' = 0 /\ resumeTarget' \in Active
            /\ haltTarget' \in {"PAUSED", "IDLE", "FAILED"}
        BY <1>1, <2>1 DEF Move, MachineType, Accepts
      <3>2. QED
        BY <1>1, <3>1 DEF Mission, MachineType, Planned, PhaseMatchesCheckpoint,
                          CheckpointBacked, Active, MissionStates, NoPlan
    <2>2. CASE Target(e) # "IDLE"
      BY <1>1, <2>2, MoveSmooth, SmoothKeeps DEF run
    <2>3. QED
      BY <2>1, <2>2
  <1>6. QED
    BY <1>3, <1>4, <1>5 DEF Inv, Mission

-----------------------------------------------------------------------------
(* The services and the safety state.                                      *)

\* A step of the pending START alone.
LEMMA StartOnly ==
  ASSUME Inv, UNCHANGED <<machine, plan, index, leaf, goals, run>>, StartType', StartStands'
  PROVE  Inv'
  <1>. USE DEF Inv, machine, leaf, run
  <1>1. MachineType' /\ Planned' /\ PhaseMatchesCheckpoint' /\ CheckpointBacked'
    BY DEF MachineType, Planned, PhaseMatchesCheckpoint, CheckpointBacked, Phase, Passed
  <1>2. LeafType' /\ LeafIsCurrent' /\ GoalsAreKnown'
    BY DEF LeafType, LeafIsCurrent, GoalsAreKnown, Current
  <1>3. QED
    BY <1>1, <1>2

LEMMA ConfigureInv ==
  ASSUME Inv, NEW p \in Plans, OnConfigure(p)
  PROVE  Inv'
  <1>. USE DEF OnConfigure
  <1>1. p.waypoints \in Nat \ {0} /\ p.dock \in BOOLEAN
    BY Zenon
  <1>2. LeafType' /\ LeafIsCurrent' /\ GoalsAreKnown'
    <2>1. phase = "IDLE"
      BY InactiveIsIdle DEF Active, Terminal
    <2>2. QED
      BY <2>1, IdleStays, RestIsEnough DEF run
  <1>3. StartType' /\ StartStands'
    BY DEF Inv, StartType, StartStands, ClearPendingStart
  <1>4. MachineType'
    BY <1>1 DEF Inv, MachineType, MissionStates
  <1>5. Planned' /\ PhaseMatchesCheckpoint' /\ CheckpointBacked'
    BY DEF Planned, PhaseMatchesCheckpoint, CheckpointBacked, Active
  <1>6. QED
    BY <1>2, <1>3, <1>4, <1>5 DEF Inv

LEMMA OperateInv ==
  ASSUME Inv, Operate
  PROVE  Inv'
  <1>1. CASE \E p \in Plans : OnConfigure(p)
    BY <1>1, ConfigureInv
  <1>2. CASE OnStart
    <2>1. StartType' /\ StartStands'
      BY <1>2 DEF OnStart, Inv, StartType, StartStands
    <2>2. QED
      BY <1>2, <2>1, StartOnly DEF OnStart
  <1>3. CASE \E e \in {"PauseRequested", "ResumeRequested"} : OnPauseOrResume(e)
    BY <1>3, DispatchInv DEF OnPauseOrResume, Ordinary
  <1>4. CASE OnStop
    <2>1. /\ fsm \in Terminal => Accepts("ResetRequested") /\ Dispatch("ResetRequested")
          /\ fsm \notin Terminal => Accepts("StopRequested") /\ Dispatch("StopRequested")
      BY <1>4 DEF OnStop, Accepts, Target, Holds, Terminal
    <2>2. QED
      BY <2>1, DispatchInv DEF Ordinary
  <1>5. CASE OnReset
    BY <1>5, DispatchInv DEF OnReset, Ordinary
  <1>6. CASE OnResumeRefused
    <2>1. StartType' /\ StartStands'
      BY <1>6 DEF OnResumeRefused, ClearPendingStart, Inv, StartType, StartStands
    <2>2. QED
      BY <1>6, <2>1, StartOnly DEF OnResumeRefused
  <1>7. QED
    BY <1>1, <1>2, <1>3, <1>4, <1>5, <1>6 DEF Operate

LEMMA SafetyInv ==
  ASSUME Inv, NEW s \in SafetyViews \ {"UNKNOWN"}, NEW changed \in BOOLEAN, OnSafety(s, changed)
  PROVE  Inv'
  <1>. USE DEF OnSafety
  <1>1. StartType'
    BY DEF Inv, StartType, StartSeqAfter, ClearPendingStart, pendingStart
  <1>2. StartStands'
    <2>1. CASE ~startRequested \/ SafetyEndsStart(s, changed)
      BY <2>1 DEF StartStands, ClearPendingStart, pendingStart
    <2>2. CASE startRequested /\ ~SafetyEndsStart(s, changed)
      <3>1. startSeq' # "unset"
        BY <2>2 DEF StartSeqAfter, Inv, StartType
      <3>2. consent /\ safety # "UNKNOWN" => startSeq # "unset"
        BY <2>2 DEF Inv, StartStands
      <3>3. consent'
        BY <2>2, <3>2 DEF SafetyEndsStart, Inv, StartStands, StartType
      <3>4. QED
        BY <3>1, <3>3 DEF StartStands
    <2>3. QED
      BY <2>1, <2>2
  <1>3. CASE s # "NORMAL" /\ fsm \in Active \cup {"RECOVERING"}
    <2>1. LeafType' /\ LeafIsCurrent' /\ GoalsAreKnown'
      <3>1. CASE fsm \in Active
        BY <1>3, <3>1, HaltRests, RestIsEnough
      <3>2. CASE fsm \notin Active
        BY <1>3, <3>2, InactiveIsIdle, IdleStays, RestIsEnough DEF run
      <3>3. QED
        BY <3>1, <3>2
    <2>2. Move("SafetyStop") /\ Target("SafetyStop") # "IDLE" /\ "SafetyStop" \in Ordinary
      BY <1>3 DEF Target, Holds, Active, Ordinary
    <2>3. Mission'
      BY <2>2, MoveSmooth, SmoothKeeps DEF Inv, Mission, run
    <2>4. QED
      BY <1>1, <1>2, <2>1, <2>3 DEF Inv, Mission
  <1>4. CASE ~(s # "NORMAL" /\ fsm \in Active \cup {"RECOVERING"})
    BY <1>1, <1>2, <1>4, StartOnly DEF machine
  <1>5. QED
    BY <1>3, <1>4

-----------------------------------------------------------------------------
(* The timer.                                                              *)

LEMMA PendingStartInv ==
  ASSUME Inv, NEW ready \in BOOLEAN, TickPendingStart(ready)
  PROVE  Inv'
  <1>. USE DEF TickPendingStart
  <1>1. CASE DependenciesReady(ready)
    <2>1. StartType' /\ StartStands'
      BY <1>1 DEF Inv, StartType, StartStands, ClearPendingStart
    <2>2. /\ fsm' = "RUNNING" /\ haltTarget' = haltTarget /\ resumeTarget' = resumeTarget
          /\ index' = 0 /\ reached' = {} /\ runStart' = generation
      BY <1>1 DEF Move, Target, Accepts, Holds
    <2>3. plan \in Plans /\ (returnToDock <=> plan.dock)
      BY DEF Inv, Planned
    <2>4. plan.waypoints \in Nat \ {0} /\ plan # NoPlan
      <3>1. plan.waypoints \in Nat \ {0}
        BY <2>3, Zenon
      <3>2. QED
        BY <3>1 DEF NoPlan
    <2>5. Mission'
      BY <2>2, <2>3, <2>4
      DEF Mission, Inv, MachineType, MissionStates, Planned, PhaseMatchesCheckpoint,
          CheckpointBacked, Passed, Phase, Active
    <2>6. GoalsRest' /\ runStart' <= generation'
      <3>1. phase = "IDLE"
        BY InactiveIsIdle DEF Active
      <3>2. GoalsRest
        BY <3>1, IdleRests
      <3>3. QED
        BY <2>2, <3>2 DEF GoalsRest, LeafType, Current, leaf
    <2>7. QED
      BY <2>1, <2>5, <2>6, RestIsEnough DEF Inv, Mission
  <1>2. CASE ~DependenciesReady(ready)
    <2>1. StartType' /\ StartStands'
      BY <1>2 DEF Inv, StartType, StartStands, RequestDependencies
    <2>2. QED
      BY <1>2, <2>1, StartOnly DEF machine
  <1>3. QED
    BY <1>1, <1>2

\* The leaf reports the waypoint or the dock reached.
LEMMA SucceedsInv ==
  ASSUME Inv, fsm \in Active, LeafSucceeds, UNCHANGED <<returnToDock, plan, run>>
  PROVE  Mission' /\ GoalsRest' /\ runStart' <= generation'
  <1>. USE DEF LeafSucceeds
  <1>1. GoalsRest' /\ runStart' <= generation'
    BY DoneRests DEF Inv, LeafType
  <1>2. /\ index \in reached /\ index \in Nat /\ plan \in Plans /\ plan # NoPlan
        /\ Passed \subseteq reached /\ (returnToDock <=> plan.dock)
        /\ plan.waypoints \in Nat /\ index <= plan.waypoints
    BY DEF Inv, LeafIsCurrent, MachineType, Planned, PhaseMatchesCheckpoint, CheckpointBacked,
           Active, MissionStates
  <1>3. CASE fsm = "RUNNING"
    <2>1. index < plan.waypoints /\ index' = index + 1
      BY <1>2, <1>3 DEF Inv, PhaseMatchesCheckpoint, Phase, Active
    <2>2. Passed' \subseteq reached'
      BY <1>2, <2>1 DEF Passed, run
    <2>3. CASE index + 1 >= plan.waypoints
      <3>1. index' = plan'.waypoints
        BY <1>2, <2>1, <2>3
      <3>2. /\ fsm' = IF returnToDock THEN "RETURNING" ELSE "COMPLETED"
            /\ haltTarget' = haltTarget /\ resumeTarget' = resumeTarget
        BY <1>3, <2>3 DEF Move, Target, Accepts, Holds
      <3>3. QED
        BY <1>1, <1>2, <2>1, <2>2, <3>1, <3>2
        DEF Mission, Inv, MachineType, MissionStates, Planned, PhaseMatchesCheckpoint,
            CheckpointBacked, Phase, Active
    <2>4. CASE ~(index + 1 >= plan.waypoints)
      <3>1. UNCHANGED <<fsm, haltTarget, resumeTarget>> /\ index' < plan'.waypoints
        BY <1>2, <1>3, <2>1, <2>4
      <3>2. QED
        BY <1>1, <1>2, <1>3, <2>1, <2>2, <3>1
        DEF Mission, Inv, MachineType, MissionStates, Planned, PhaseMatchesCheckpoint,
            CheckpointBacked, Phase, Active
    <2>5. QED
      BY <2>3, <2>4
  <1>4. CASE fsm = "RETURNING"
    <2>1. /\ fsm' = "COMPLETED" /\ index' = index
          /\ haltTarget' = haltTarget /\ resumeTarget' = resumeTarget
      BY <1>4 DEF Move, Target, Accepts, Holds
    <2>2. index = plan.waypoints
      BY <1>4 DEF Inv, PhaseMatchesCheckpoint, Phase, Active
    <2>3. QED
      BY <1>1, <1>2, <2>1, <2>2
      DEF Mission, Inv, MachineType, MissionStates, Planned, PhaseMatchesCheckpoint,
          CheckpointBacked, Passed, Phase, Active, run
  <1>5. QED
    BY <1>3, <1>4 DEF Active

\* A new goal, of a generation no goal had.
LEMMA SendGoalInv ==
  ASSUME Inv, fsm \in Active, SendGoal, UNCHANGED run
  PROVE  LeafType' /\ LeafIsCurrent' /\ GoalsAreKnown'
  <1>. DEFINE n == [gen |-> generation + 1, target |-> index, server |-> "pending",
                    heard |-> FALSE, cancel |-> FALSE]
  <1>0. phase = "IDLE"
    BY DEF SendGoal
  <1>1. /\ generation \in Nat /\ index \in Nat /\ handle = 0 /\ runStart \in Nat
        /\ runStart <= generation
    BY <1>0 DEF Inv, LeafType, MachineType, LeafIsCurrent
  <1>2. n \in Goals /\ n.gen = generation + 1 /\ n.target = index /\ ~n.heard
    BY <1>1 DEF Goals
  <1>. HIDE DEF n
  <1>3. /\ goals' = goals \cup {n} /\ generation' = generation + 1 /\ phase = "IDLE"
        /\ phase' = "ACTIVE" /\ bt' = index /\ index' = index /\ handle' = handle
        /\ fsm' = fsm /\ unsendable' = unsendable
    BY DEF SendGoal, n
  <1>4. \A g \in goals : /\ g.gen \in Nat /\ g.gen <= generation /\ (g.gen = 0 => ~g.heard)
                         /\ g.gen # 0 => ~g.heard \/ g.cancel
    BY <1>0, GoalFields DEF Inv, LeafType, GoalsAreKnown, Current
  <1>5. LeafType'
    <2>1. goals' \subseteq Goals
      BY <1>2, <1>3 DEF Inv, LeafType
    <2>2. QED
      BY <1>1, <1>3, <2>1 DEF Inv, LeafType, run
  <1>6. LeafIsCurrent'
    BY <1>1, <1>3 DEF LeafIsCurrent, run, Active
  <1>7. GoalsAreKnown'
    <2>1. ASSUME NEW g \in goals'
          PROVE  /\ g = n \/ g \in goals
                 /\ g.gen <= generation' /\ (g.gen = 0 => ~g.heard)
                 /\ g.gen = generation' => g = n
                 /\ g.gen \notin {0, generation'} => ~g.heard \/ g.cancel
      <3>1. CASE g = n
        BY <3>1, <1>1, <1>2, <1>3
      <3>2. CASE g \in goals
        <4>1. /\ g.gen \in Nat /\ g.gen <= generation /\ (g.gen = 0 => ~g.heard)
              /\ g.gen # 0 => ~g.heard \/ g.cancel
          BY <3>2, <1>4
        <4>2. g.gen <= generation' /\ g.gen # generation'
          BY <4>1, <1>1, <1>3
        <4>3. QED
          BY <3>2, <4>1, <4>2
      <3>3. QED
        BY <3>1, <3>2, <1>3
    <2>2. \A g, h \in goals' : g.gen = h.gen /\ g.gen # 0 => g = h
      <3>1. SUFFICES ASSUME NEW g \in goals', NEW h \in goals', g.gen = h.gen, g.gen # 0
                     PROVE  g = h
        OBVIOUS
      <3>2. CASE g.gen = generation'
        BY <3>1, <3>2, <2>1
      <3>3. CASE g.gen # generation'
        <4>1. g \in goals /\ h \in goals
          BY <3>1, <3>3, <2>1, <1>2, <1>3
        <4>2. QED
          BY <3>1, <4>1 DEF Inv, GoalsAreKnown
      <3>4. QED
        BY <3>2, <3>3
    <2>3. ASSUME NEW g \in goals', g.gen = generation'
          PROVE  /\ phase' = "ACTIVE" /\ g.target = index' /\ g.gen > runStart'
                 /\ g.heard => handle' = generation'
                 /\ handle' # 0 => g.heard
      <3>1. g = n
        BY <2>1, <2>3
      <3>2. QED
        BY <3>1, <1>1, <1>2, <1>3 DEF run
    <2>4. QED
      BY <2>1, <2>2, <2>3 DEF GoalsAreKnown, Current
  <1>8. QED
    BY <1>5, <1>6, <1>7

LEMMA ActiveInv ==
  ASSUME Inv, NEW serverReady \in BOOLEAN, TickActive(serverReady)
  PROVE  Inv'
  <1>. USE DEF TickActive
  <1>0. StartType' /\ StartStands' /\ Mission /\ MachineType /\ UNCHANGED run
    BY DEF Inv, Mission, StartType, StartStands, pendingStart
  <1>1. ~(fsm = "RUNNING" /\ index >= plan.waypoints)
    BY DEF Inv, MachineType, PhaseMatchesCheckpoint, Phase, Active
  <1>2. bt \in {NoGoal, index}
    BY DEF Inv, LeafIsCurrent
  <1>3. CASE LeafSucceeds
    BY <1>0, <1>3, SucceedsInv, RestIsEnough DEF Inv, Mission
  <1>4. CASE LeafFails \/ LeafUnavailable
    <2>1. GoalsRest' /\ runStart' <= generation'
      BY <1>0, <1>4, DoneRests DEF LeafFails, LeafUnavailable
    <2>2. PICK e \in {"PauseRequested", "FatalStepFailure"} : Move(e)
      BY <1>4 DEF LeafFails, LeafUnavailable
    <2>3. e \in Ordinary /\ Target(e) # "IDLE"
      BY <2>2, <1>0, TargetOf DEF Ordinary
    <2>4. Mission'
      BY <1>0, <1>4, <2>2, <2>3, MoveSmooth, SmoothKeeps DEF LeafFails, LeafUnavailable, run
    <2>5. QED
      BY <1>0, <2>1, <2>4, RestIsEnough DEF Inv, Mission
  <1>5. CASE SendGoal
    <2>1. Mission'
      BY <1>0, <1>5, SmoothKeeps DEF SendGoal, Smooth, MachineType, run
    <2>2. QED
      BY <1>0, <1>5, <2>1, SendGoalInv DEF Inv, Mission
  <1>6. QED
    BY <1>1, <1>2, <1>3, <1>4, <1>5

LEMMA TickInv ==
  ASSUME Inv, Tick
  PROVE  Inv'
  <1>1. CASE \E ready \in BOOLEAN : TickPendingStart(ready)
    BY <1>1, PendingStartInv
  <1>2. CASE \E still \in BOOLEAN : TickPausing(still)
    <2>1. Accepts("MotionQuiesced") /\ Dispatch("MotionQuiesced")
      BY <1>2 DEF TickPausing, Accepts, Target, Holds, Inv, MachineType
    <2>2. QED
      BY <2>1, DispatchInv DEF Ordinary
  <1>3. CASE \E ready \in BOOLEAN : TickRecovering(ready)
    <2>1. Accepts("RecoveryReady") /\ Dispatch("RecoveryReady")
      BY <1>3 DEF TickRecovering, Accepts, Target, Holds, Inv, MachineType, Active
    <2>2. QED
      BY <2>1, DispatchInv DEF Ordinary
  <1>4. CASE \E ready \in BOOLEAN : TickActive(ready)
    BY <1>4, ActiveInv
  <1>5. QED
    BY <1>1, <1>2, <1>3, <1>4 DEF Tick

-----------------------------------------------------------------------------
(* Callbacks and Nav2.                                                     *)

\* Goals of the node that are told apart stay so when each is replaced or forgotten.
LEMMA StillApart ==
  ASSUME GoalsAreKnown, NEW f, \A g \in goals : f[g].gen = g.gen,
         goals' \subseteq {f[g] : g \in goals}
  PROVE  \A h, k \in goals' : h.gen = k.gen /\ h.gen # 0 => h = k
  <1>1. SUFFICES ASSUME NEW h \in goals', NEW k \in goals', h.gen = k.gen, h.gen # 0
                 PROVE  h = k
    OBVIOUS
  <1>2. PICK g \in goals : h = f[g]
    OBVIOUS
  <1>3. PICK j \in goals : k = f[j]
    OBVIOUS
  <1>4. g = j
    BY <1>1, <1>2, <1>3 DEF GoalsAreKnown
  <1>5. QED
    BY <1>2, <1>3, <1>4

\* A step of Nav2: what the node knows of each goal stays.
LEMMA CarryInv ==
  ASSUME Inv, UNCHANGED node, NEW f, goals' \subseteq {f[g] : g \in goals},
         \A g \in goals : /\ f[g] \in Goals /\ f[g].gen = g.gen /\ f[g].target = g.target
                          /\ f[g].heard = g.heard /\ f[g].cancel = g.cancel
  PROVE  Inv'
  <1>. USE DEF Inv, node, machine, pendingStart, leaf, run
  <1>1. /\ MachineType' /\ StartType' /\ Planned' /\ LeafIsCurrent' /\ StartStands'
        /\ PhaseMatchesCheckpoint' /\ CheckpointBacked'
    BY DEF MachineType, StartType, Planned, LeafIsCurrent, StartStands, PhaseMatchesCheckpoint,
           CheckpointBacked, Phase, Passed
  <1>2. LeafType'
    <2>1. goals' \subseteq Goals
      OBVIOUS
    <2>2. QED
      BY <2>1 DEF LeafType
  <1>3. GoalsAreKnown'
    <2>1. \A h, k \in goals' : h.gen = k.gen /\ h.gen # 0 => h = k
      BY StillApart
    <2>2. ASSUME NEW h \in goals'
          PROVE  \E g \in goals : /\ h.gen = g.gen /\ h.target = g.target
                                  /\ (h.heard <=> g.heard) /\ (h.cancel <=> g.cancel)
      OBVIOUS
    <2>3. QED
      BY <2>1, <2>2 DEF GoalsAreKnown, Current
  <1>4. QED
    BY <1>1, <1>2, <1>3

LEMMA Nav2Inv ==
  ASSUME Inv, Nav2
  PROVE  Inv'
  <1>0. goals \subseteq Goals
    BY DEF Inv, LeafType
  <1>1. ASSUME NEW g \in goals, NavAccept(g) PROVE Inv'
    <2>. DEFINE f == [h \in goals |-> IF h = g THEN [h EXCEPT !.server = "executing"]
                                     ELSE IF h.server = "executing"
                                     THEN [h EXCEPT !.server = "failed"] ELSE h]
    <2>1. \A h \in goals : /\ f[h] \in Goals /\ f[h].gen = h.gen /\ f[h].target = h.target
                           /\ f[h].heard = h.heard /\ f[h].cancel = h.cancel
      <3>1. ASSUME NEW h \in goals
            PROVE  /\ f[h] \in Goals /\ f[h].gen = h.gen /\ f[h].target = h.target
                   /\ f[h].heard = h.heard /\ f[h].cancel = h.cancel
        <4>0. h \in Goals
          BY <1>0
        <4>1. CASE h = g
          BY <4>0, <4>1, GoalServed
        <4>2. CASE h # g /\ h.server = "executing"
          <5>1. f[h] = [h EXCEPT !.server = "failed"]
            BY <4>2
          <5>2. QED
            BY <4>0, <5>1, GoalServed
        <4>3. CASE h # g /\ h.server # "executing"
          BY <4>0, <4>3
        <4>4. QED
          BY <4>1, <4>2, <4>3
      <3>2. QED
        BY <3>1
    <2>2. goals' = {f[h] : h \in goals}
      BY <1>1 DEF NavAccept
    <2>3. UNCHANGED node
      BY <1>1 DEF NavAccept
    <2>. HIDE DEF f
    <2>4. QED
      BY <2>1, <2>2, <2>3, CarryInv
  <1>2. ASSUME NEW g \in goals, NEW s \in {"rejected", "succeeded", "failed"}, UNCHANGED node,
               Becomes(g, [g EXCEPT !.server = s]) \/ Forget(g)
        PROVE  Inv'
    <2>. DEFINE f == [h \in goals |-> IF h = g THEN [h EXCEPT !.server = s] ELSE h]
    <2>1. \A h \in goals : /\ f[h] \in Goals /\ f[h].gen = h.gen /\ f[h].target = h.target
                           /\ f[h].heard = h.heard /\ f[h].cancel = h.cancel
      <3>1. ASSUME NEW h \in goals
            PROVE  /\ f[h] \in Goals /\ f[h].gen = h.gen /\ f[h].target = h.target
                   /\ f[h].heard = h.heard /\ f[h].cancel = h.cancel
        <4>0. h \in Goals /\ s \in {"rejected", "executing", "succeeded", "failed"}
          BY <1>0
        <4>1. CASE h = g
          <5>1. f[h] = [h EXCEPT !.server = s]
            BY <4>1
          <5>2. QED
            BY <4>0, <5>1, GoalServed
        <4>2. CASE h # g
          BY <4>0, <4>2
        <4>3. QED
          BY <4>1, <4>2
      <3>2. QED
        BY <3>1
    <2>2. goals' \subseteq {f[h] : h \in goals}
      BY <1>2 DEF Becomes, Forget
    <2>. HIDE DEF f
    <2>3. QED
      BY <1>2, <2>1, <2>2, CarryInv
  <1>3. CASE NavRestart
    <2>. DEFINE f == [h \in goals |-> h]
    <2>1. \A h \in goals : f[h] = h
      OBVIOUS
    <2>2. goals' \subseteq {f[h] : h \in goals} /\ UNCHANGED node
      BY <1>3 DEF NavRestart
    <2>. HIDE DEF f
    <2>3. QED
      BY <1>0, <2>1, <2>2, CarryInv
  <1>4. QED
    BY <1>1, <1>2, <1>3 DEF Nav2, NavReject, NavFinish

\* A goal that is not the present one, or is but nobody else is.
LEMMA Others ==
  ASSUME Inv, NEW g \in goals, NEW k \in goals \ {g}, Current(g) \/ g.gen # generation
  PROVE  /\ Current(g) => ~Current(k)
         /\ k.gen <= generation /\ (k.gen = 0 => ~k.heard)
         /\ k.gen \notin {0, generation} => ~k.heard \/ k.cancel
  BY DEF Inv, GoalsAreKnown, Current

LEMMA ResponseInv ==
  ASSUME Inv, NEW g \in goals, OnGoalResponse(g)
  PROVE  Inv'
  <1>. USE DEF OnGoalResponse
  <1>. DEFINE h == [g EXCEPT !.heard = TRUE, !.cancel = (g.gen # generation)]
              f == [k \in goals |-> IF k = g THEN h ELSE k]
  <1>1. g \in Goals /\ g.gen # 0 /\ ~g.heard /\ g.gen <= generation
    BY DEF Inv, LeafType, GoalsAreKnown
  <1>2. /\ h \in Goals /\ h.gen = g.gen /\ h.target = g.target /\ h.heard
        /\ h.cancel = (g.gen # generation)
    BY <1>1, GoalHeard
  <1>3. \/ g.server = "rejected" /\ goals' = goals \ {g}
        \/ g.server # "rejected" /\ goals' = (goals \ {g}) \cup {h}
    BY DEF Forget, Becomes
  <1>4. /\ MachineType' /\ StartType' /\ Planned' /\ StartStands'
        /\ PhaseMatchesCheckpoint' /\ CheckpointBacked'
    BY DEF Inv, machine, pendingStart, run, MachineType, StartType, Planned, StartStands,
           PhaseMatchesCheckpoint, CheckpointBacked, Phase, Passed
  <1>5. \A k, j \in goals' : k.gen = j.gen /\ k.gen # 0 => k = j
    <2>1. \A k \in goals : f[k].gen = k.gen
      BY <1>2
    <2>2. goals' \subseteq {f[k] : k \in goals}
      BY <1>3
    <2>. HIDE DEF f
    <2>3. QED
      BY <2>1, <2>2, StillApart DEF Inv
  <1>. HIDE DEF h, f
  <1>6. goals' \subseteq Goals
    BY <1>2, <1>3 DEF Inv, LeafType
  <1>7. CASE g.gen # generation
    <2>1. UNCHANGED <<unsendable, phase, handle, bt, generation, fsm, index, run>>
      BY <1>7 DEF machine
    <2>2. LeafType' /\ LeafIsCurrent'
      BY <1>6, <2>1 DEF Inv, LeafType, LeafIsCurrent, run
    <2>3. GoalsAreKnown'
      BY <1>1, <1>2, <1>3, <1>5, <1>7, <2>1 DEF Inv, GoalsAreKnown, Current, run
    <2>4. QED
      BY <1>4, <2>2, <2>3 DEF Inv
  <1>8. CASE g.gen = generation /\ g.server = "rejected"
    <2>1. /\ UNCHANGED <<handle, bt, generation, fsm, index, run>>
          /\ unsendable' = TRUE /\ phase' = "FAILED"
      BY <1>8 DEF machine
    <2>2. phase = "ACTIVE" /\ handle = 0
      BY <1>1, <1>8 DEF Inv, GoalsAreKnown, Current
    <2>3. LeafType' /\ LeafIsCurrent'
      BY <1>6, <2>1, <2>2 DEF Inv, LeafType, LeafIsCurrent, run
    <2>4. \A k \in goals' : ~Current(k)
      BY <1>1, <1>3, <1>8, Others DEF Current
    <2>5. GoalsAreKnown'
      BY <1>3, <1>5, <1>8, <2>1, <2>4 DEF Inv, GoalsAreKnown, Current
    <2>6. QED
      BY <1>4, <2>3, <2>5 DEF Inv
  <1>9. CASE g.gen = generation /\ g.server # "rejected"
    <2>1. /\ UNCHANGED <<unsendable, phase, bt, generation, fsm, index, run>>
          /\ handle' = generation
      BY <1>9 DEF machine
    <2>2. phase = "ACTIVE" /\ g.target = index /\ g.gen > runStart
      BY <1>1, <1>9 DEF Inv, GoalsAreKnown, Current
    <2>3. LeafType' /\ LeafIsCurrent'
      BY <1>6, <2>1, <2>2 DEF Inv, LeafType, LeafIsCurrent, run
    <2>4. \A k \in goals \ {g} : ~Current(k)
      BY <1>1, <1>9, Others DEF Current
    <2>5. GoalsAreKnown'
      BY <1>1, <1>2, <1>3, <1>5, <1>9, <2>1, <2>2, <2>4 DEF Inv, GoalsAreKnown, Current, run
    <2>6. QED
      BY <1>4, <2>3, <2>5 DEF Inv
  <1>10. QED
    BY <1>7, <1>8, <1>9

LEMMA ResultInv ==
  ASSUME Inv, NEW g \in goals, OnResult(g)
  PROVE  Inv'
  <1>. USE DEF OnResult
  <1>1. g \in Goals /\ g.gen # 0 /\ g.heard /\ g.target \in Nat
    BY GoalFields DEF Inv, LeafType, GoalsAreKnown
  <1>2. goals' = goals \ {g}
    BY DEF Forget
  <1>3. reached \subseteq reached' /\ reached' \subseteq Nat
    BY <1>1 DEF Inv, LeafType
  <1>4. StartType' /\ StartStands'
    BY DEF Inv, pendingStart, StartType, StartStands
  <1>5. Mission'
    BY <1>3, SmoothKeeps DEF Inv, Mission, Smooth, MachineType, machine
  <1>6. CASE g.gen # generation
    <2>1. UNCHANGED <<handle, phase, bt, unsendable, generation, fsm, index, runStart>>
      BY <1>6 DEF machine
    <2>2. LeafType' /\ LeafIsCurrent'
      BY <1>2, <1>3, <2>1 DEF Inv, LeafType, LeafIsCurrent
    <2>3. GoalsAreKnown'
      BY <1>2, <2>1 DEF Inv, GoalsAreKnown, Current
    <2>4. QED
      BY <1>4, <1>5, <2>2, <2>3 DEF Inv, Mission
  <1>7. CASE g.gen = generation
    <2>1. /\ UNCHANGED <<bt, unsendable, generation, fsm, index, runStart>>
          /\ handle' = 0 /\ phase' = Reported(g)
      BY <1>7 DEF machine
    <2>2. phase = "ACTIVE" /\ g.target = index /\ g.gen > runStart
      BY <1>1, <1>7 DEF Inv, GoalsAreKnown, Current
    <2>3. /\ phase' \in {"SUCCEEDED", "FAILED"}
          /\ phase' = "SUCCEEDED" => index \in reached'
      BY <2>1, <2>2 DEF Reported
    <2>4. LeafType' /\ LeafIsCurrent'
      BY <1>2, <1>3, <2>1, <2>2, <2>3 DEF Inv, LeafType, LeafIsCurrent
    <2>5. \A k \in goals' : ~Current(k)
      BY <1>1, <1>2, <1>7, Others DEF Current
    <2>6. GoalsAreKnown'
      BY <1>2, <2>1, <2>5 DEF Inv, GoalsAreKnown, Current
    <2>7. QED
      BY <1>4, <1>5, <2>4, <2>6 DEF Inv, Mission
  <1>8. QED
    BY <1>6, <1>7

LEMMA RestartInv ==
  ASSUME Inv, Restart
  PROVE  Inv'
  <1>0. /\ fsm' = "IDLE" /\ haltTarget' = "PAUSED" /\ resumeTarget' = "RUNNING"
        /\ returnToDock' = FALSE /\ plan' = NoPlan /\ index' = 0
        /\ ClearPendingStart /\ safety' = "UNKNOWN" /\ consent' = FALSE
        /\ bt' = NoGoal /\ phase' = "IDLE" /\ handle' = 0 /\ unsendable' = FALSE
        /\ generation' = 0 /\ reached' = {} /\ runStart' = 0
    BY DEF Restart
  <1>1. MachineType'
    <2>1. NoPlan.waypoints = 0
      BY DEF NoPlan
    <2>2. fsm' \in MissionStates /\ resumeTarget' \in Active
      BY <1>0 DEF MissionStates, Active
    <2>3. index' \in Nat /\ plan'.waypoints \in Nat /\ index' <= plan'.waypoints
      BY <1>0, <2>1
    <2>4. QED
      BY <1>0, <2>2, <2>3 DEF MachineType
  <1>2. StartType' /\ StartStands' /\ Planned' /\ PhaseMatchesCheckpoint' /\ CheckpointBacked'
    BY <1>0 DEF StartType, StartStands, ClearPendingStart, SafetyViews, Planned,
           PhaseMatchesCheckpoint, CheckpointBacked, Active
  <1>3. ASSUME NEW h \in goals' PROVE h \in Goals /\ h.gen = 0 /\ ~h.heard
    <2>1. PICK g \in goals : h = [g EXCEPT !.gen = 0, !.heard = FALSE]
      BY DEF Restart, Orphaned
    <2>2. g \in Goals
      BY DEF Inv, LeafType
    <2>3. QED
      BY <2>1, <2>2, GoalOrphaned
  <1>4. LeafType'
    <2>1. goals' \subseteq Goals
      BY <1>3
    <2>2. QED
      BY <1>0, <2>1 DEF LeafType, NoGoal
  <1>5. LeafIsCurrent'
    BY <1>0 DEF LeafIsCurrent
  <1>6. GoalsAreKnown'
    BY <1>0, <1>3 DEF GoalsAreKnown, Current
  <1>7. QED
    BY <1>1, <1>2, <1>4, <1>5, <1>6 DEF Inv

LEMMA InvNext == Inv /\ [Next]_vars => Inv'
  <1>. SUFFICES ASSUME Inv, [Next]_vars PROVE Inv'
    OBVIOUS
  <1>1. CASE Operate
    BY <1>1, OperateInv
  <1>2. CASE Listen
    BY <1>2, SafetyInv DEF Listen
  <1>3. CASE Tick
    BY <1>3, TickInv
  <1>4. CASE \E g \in goals : Answer(g)
    BY <1>4, ResponseInv, ResultInv DEF Answer
  <1>5. CASE Nav2
    BY <1>5, Nav2Inv
  <1>6. CASE Restart
    BY <1>6, RestartInv
  <1>7. CASE UNCHANGED vars
    BY <1>7, StartOnly DEF vars, Inv, StartType, StartStands, pendingStart
  <1>8. QED
    BY <1>1, <1>2, <1>3, <1>4, <1>5, <1>6, <1>7 DEF Next

\* Moves by ordinary events neither start a mission nor forget a stop.
LEMMA OrdinaryMoves ==
  ASSUME Inv, NEW e \in Ordinary, Move(e)
  PROVE  /\ fsm = "READY" => fsm' # "RUNNING"
         /\ fsm = "PAUSING" /\ haltTarget = "IDLE" =>
              fsm' = "IDLE" \/ (fsm' = "PAUSING" /\ haltTarget' = "IDLE")
  <1>1. fsm = "READY" => fsm' # "RUNNING"
    BY TargetOf DEF Inv, Move, Accepts
  <1>2. ASSUME fsm = "PAUSING", haltTarget = "IDLE"
        PROVE  fsm' = "IDLE" \/ (fsm' = "PAUSING" /\ haltTarget' = "IDLE")
    <2>1. fsm \notin Active /\ fsm \notin Terminal
      BY <1>2 DEF Active, Terminal
    <2>2. CASE e \in Holds \cup {"StopRequested", "FatalStepFailure"}
      BY <1>2, <2>1, <2>2 DEF Move, Accepts, Target, HaltTargetAfter, Holds, Active
    <2>3. CASE e \in {"ResumeRequested", "ResetRequested", "MotionQuiesced", "RecoveryReady"}
      BY <1>2, <2>1, <2>3 DEF Move, Accepts, Target, HaltTargetAfter, Holds, Active
    <2>4. QED
      BY <2>2, <2>3 DEF Ordinary, Holds
  <1>3. QED
    BY <1>1, <1>2

\* One step of the two action properties.
LEMMA StepIsLawful ==
  ASSUME Inv, Next
  PROVE  /\ fsm = "READY" /\ fsm' = "RUNNING" => consent
         /\ fsm = "PAUSING" /\ haltTarget = "IDLE" =>
              fsm' = "IDLE" \/ (fsm' = "PAUSING" /\ haltTarget' = "IDLE")
  <1>1. ASSUME NEW e \in Ordinary, Dispatch(e) \/ Move(e)
        PROVE  /\ fsm = "READY" => fsm' # "RUNNING"
               /\ fsm = "PAUSING" /\ haltTarget = "IDLE" =>
                    fsm' = "IDLE" \/ (fsm' = "PAUSING" /\ haltTarget' = "IDLE")
    BY <1>1, OrdinaryMoves DEF Dispatch
  <1>2. CASE Operate
    <2>1. CASE \E p \in Plans : OnConfigure(p)
      BY <2>1 DEF OnConfigure, Terminal
    <2>2. CASE OnStart \/ OnResumeRefused
      BY <2>2 DEF OnStart, OnResumeRefused, machine
    <2>3. CASE \E e \in {"PauseRequested", "ResumeRequested"} : OnPauseOrResume(e)
      BY <2>3, <1>1 DEF OnPauseOrResume, Ordinary
    <2>4. CASE OnStop
      <3>1. Dispatch("ResetRequested") \/ Dispatch("StopRequested")
        BY <2>4 DEF OnStop
      <3>2. QED
        BY <3>1, <1>1 DEF Ordinary
    <2>5. CASE OnReset
      BY <2>5, <1>1 DEF OnReset, Ordinary
    <2>6. QED
      BY <1>2, <2>1, <2>2, <2>3, <2>4, <2>5 DEF Operate
  <1>3. CASE Listen
    <2>1. Move("SafetyStop") \/ UNCHANGED <<fsm, haltTarget>>
      BY <1>3 DEF Listen, OnSafety
    <2>2. QED
      BY <2>1, <1>1 DEF Ordinary
  <1>4. CASE Tick
    <2>1. CASE \E ready \in BOOLEAN : TickPendingStart(ready)
      <3>1. fsm = "READY" /\ consent
        BY <2>1 DEF TickPendingStart, Inv, StartStands
      <3>2. QED
        BY <3>1
    <2>2. CASE \E still \in BOOLEAN : TickPausing(still)
      BY <2>2, <1>1 DEF TickPausing, Ordinary
    <2>3. CASE \E ready \in BOOLEAN : TickRecovering(ready)
      BY <2>3, <1>1 DEF TickRecovering, Ordinary
    <2>4. CASE \E ready \in BOOLEAN : TickActive(ready)
      BY <2>4 DEF TickActive, Active
    <2>5. QED
      BY <1>4, <2>1, <2>2, <2>3, <2>4 DEF Tick
  <1>5. CASE \E g \in goals : Answer(g)
    BY <1>5 DEF Answer, OnGoalResponse, OnResult, machine
  <1>6. CASE Nav2
    BY <1>6 DEF Nav2, NavAccept, NavReject, NavFinish, NavRestart, node, machine
  <1>7. CASE Restart
    BY <1>7 DEF Restart
  <1>8. QED
    BY <1>2, <1>3, <1>4, <1>5, <1>6, <1>7 DEF Next

LEMMA Invariance == Spec => []Inv
  BY InvInit, InvNext, PTL DEF Spec

\* The node's state has its types, and the checkpoint stays within the plan.
THEOREM MissionTypes == Spec => []TypeOK
  BY Invariance, InvTypes, PTL

\* No goal is left to itself while the node lives (send_goal's response callback,
\* cancel_navigation and goal_generation_).
THEOREM NoGoalIsForgotten == Spec => []NoGoalForgotten
  BY Invariance, InvGoals, PTL

\* The checkpoint and the completion rest on results of this run (execute_active and the
\* result callback).
THEOREM CheckpointIsBacked == Spec => []CheckpointBacked
  <1>1. Inv => CheckpointBacked
    BY DEF Inv
  <1>2. QED
    BY <1>1, Invariance, PTL

\* An interruption resumes the interrupted phase at the interrupted waypoint
\* (StateMachine's resume target with the checkpoint).
THEOREM PhaseIsTheCheckpoints == Spec => []PhaseMatchesCheckpoint
  <1>1. Inv => PhaseMatchesCheckpoint
    BY DEF Inv
  <1>2. QED
    BY <1>1, Invariance, PTL

\* A mission starts only under a standing START (on_start, on_safety, tick_pending_start).
THEOREM StartIsAuthorised == Spec => StartAuthorised
  <1>1. Inv /\ [Next]_vars => [fsm = "READY" /\ fsm' = "RUNNING" => consent]_vars
    BY StepIsLawful
  <1>2. QED
    BY <1>1, Invariance, PTL DEF Spec, StartAuthorised

\* A stop accepted while halting stands (StateMachine's halt target).
THEOREM StopIsNotUndone == Spec => StopNotUndone
  <1>1. Inv /\ [Next]_vars =>
          [fsm = "PAUSING" /\ haltTarget = "IDLE" =>
             fsm' = "IDLE" \/ (fsm' = "PAUSING" /\ haltTarget' = "IDLE")]_vars
    BY StepIsLawful
  <1>2. QED
    BY <1>1, Invariance, PTL DEF Spec, StopNotUndone

-----------------------------------------------------------------------------
(* The itinerary.  Two more facts are invariant, given Inv.                *)

\* Nothing is under way before the safety state is heard.
NotUnheard == safety = "UNKNOWN" => fsm \in {"IDLE", "READY"}

\* What Nav2 may still reach for this run is a leg of the plan that is done or due.
GoalsOnTour ==
    fsm \notin {"IDLE", "READY"} =>
        \A g \in goals : g.gen > runStart =>
            g.target <= index /\ (g.target = plan.waypoints => plan.dock)

TourInv == Inv /\ NotUnheard /\ GoalsOnTour

tour == <<plan, NextLeg, Visited, Stage, safety # "UNKNOWN">>

\* The goals after a step, but for a new one, are goals from before it.
GoalsCarried == \A h \in goals' : \E g \in goals : h.gen = g.gen /\ h.target = g.target

LEMMA CancelCarries ==
  ASSUME Inv, CancelNavigation
  PROVE  GoalsCarried
  <1>1. CASE handle = 0
    BY <1>1 DEF CancelNavigation, GoalsCarried
  <1>2. CASE handle # 0
    <2>1. ASSUME NEW h \in goals' PROVE \E g \in goals : h.gen = g.gen /\ h.target = g.target
      <3>1. PICK g \in goals : h = IF g.gen = handle THEN [g EXCEPT !.cancel = TRUE] ELSE g
        BY <1>2 DEF CancelNavigation, Cancelled
      <3>2. g \in Goals
        BY DEF Inv, LeafType
      <3>3. QED
        BY <3>1, <3>2, GoalCancelled
    <2>2. QED
      BY <2>1 DEF GoalsCarried
  <1>3. QED
    BY <1>1, <1>2

LEMMA HaltCarries ==
  ASSUME Inv, Halt
  PROVE  GoalsCarried
  <1>1. CASE bt # NoGoal
    BY <1>1, CancelCarries DEF Halt
  <1>2. CASE bt = NoGoal
    BY <1>2 DEF Halt, GoalsCarried
  <1>3. QED
    BY <1>1, <1>2

\* A mission that goes on without a new goal stays on its tour.
LEMMA TourGoesOn ==
  ASSUME TourInv, Inv', GoalsCarried, UNCHANGED <<plan, runStart>>, index <= index',
         fsm' \notin {"IDLE", "READY"} => fsm \notin {"IDLE", "READY"}
  PROVE  GoalsOnTour'
  <1>1. SUFFICES ASSUME fsm' \notin {"IDLE", "READY"}, NEW h \in goals', h.gen > runStart'
                 PROVE  h.target <= index' /\ (h.target = plan'.waypoints => plan'.dock)
    BY DEF GoalsOnTour
  <1>2. PICK g \in goals : h.gen = g.gen /\ h.target = g.target
    BY DEF GoalsCarried
  <1>3. g.target <= index /\ (g.target = plan.waypoints => plan.dock)
    BY <1>1, <1>2 DEF TourInv, GoalsOnTour
  <1>4. g.target \in Nat /\ index \in Nat /\ index' \in Nat
    BY GoalFields DEF TourInv, Inv, LeafType, MachineType
  <1>5. QED
    BY <1>2, <1>3, <1>4

\* What an ordinary move that does not clear the mission is on the itinerary.
LEMMA MoveOnTour ==
  ASSUME MachineType, NEW e \in Ordinary, e = "FatalStepFailure" => fsm \in Active,
         Move(e), Target(e) # "IDLE", UNCHANGED <<plan, index, reached>>
  PROVE  /\ Tour!Interrupt \/ UNCHANGED <<plan, NextLeg, Visited, Stage>>
         /\ fsm' \in {"IDLE", "READY"} <=> fsm \in {"IDLE", "READY"}
  <1>. USE DEF MachineType, Active, MissionStates
  <1>1. CASE Target(e) = "rejected"
    <2>1. UNCHANGED <<fsm, haltTarget>>
      BY <1>1 DEF Move, Accepts
    <2>2. QED
      BY <2>1 DEF NextLeg, Visited, Stage
  <1>2. CASE Target(e) # "rejected"
    <2>1. /\ fsm' = Target(e)
          /\ haltTarget' = IF Target(e) = "PAUSING" THEN HaltTargetAfter(e) ELSE haltTarget
      BY <1>2 DEF Move, Accepts
    <2>2. fsm \in {"RUNNING", "RETURNING", "PAUSING", "PAUSED", "RECOVERING"}
      BY <1>2, TargetOf
    <2>3. fsm' \in {"RUNNING", "RETURNING", "PAUSING", "PAUSED", "RECOVERING", "FAILED"}
      BY <1>2, <2>1, TargetOf
    <2>4. UNCHANGED <<plan, NextLeg, Visited>>
      BY <2>2, <2>3 DEF NextLeg, Visited
    <2>5. Stage' = Stage \/ <<Stage, Stage'>> \in Tour!Moves
      <3>1. CASE e \in Holds
        BY <2>1, <2>2, <2>3, <3>1 DEF Target, HaltTargetAfter, Holds, Stage, Tour!Moves
      <3>2. CASE e \in {"ResumeRequested", "ResetRequested", "RecoveryReady"}
        BY <1>2, <2>1, <2>2, <2>3, <3>2 DEF Target, Holds, Terminal, Stage, Tour!Moves
      <3>3. CASE e \in {"StopRequested", "FatalStepFailure"}
        BY <2>1, <2>2, <2>3, <3>3 DEF Target, HaltTargetAfter, Holds, Stage, Tour!Moves
      <3>4. CASE e = "MotionQuiesced"
        BY <1>2, <2>1, <2>2, <2>3, <3>4 DEF Target, Holds, Stage, Tour!Moves
      <3>5. QED
        BY <3>1, <3>2, <3>3, <3>4 DEF Ordinary, Holds
    <2>6. QED
      BY <2>2, <2>3, <2>4, <2>5 DEF Tour!Interrupt
  <1>3. QED
    BY <1>1, <1>2

\* A step is on the itinerary, and what else TourInv says stays true.
OnTour == [Tour!Next]_tour /\ NotUnheard' /\ GoalsOnTour'

\* A step the itinerary does not see.
LEMMA OffTour ==
  ASSUME TourInv, Inv', GoalsCarried, UNCHANGED <<machine, plan, index, reached, runStart>>,
         safety' = safety
  PROVE  OnTour
  <1>1. UNCHANGED <<plan, NextLeg, Visited, Stage>>
    BY DEF machine, NextLeg, Visited, Stage
  <1>2. NotUnheard'
    BY DEF TourInv, NotUnheard, machine
  <1>3. GoalsOnTour'
    BY TourGoesOn DEF machine, TourInv, Inv, MachineType
  <1>4. QED
    BY <1>1, <1>2, <1>3 DEF OnTour, tour

\* An ordinary move is on the itinerary.
LEMMA CarryMove ==
  ASSUME TourInv, Inv', NEW e \in Ordinary, e = "FatalStepFailure" => fsm \in Active,
         Move(e), Target(e) # "IDLE", UNCHANGED <<plan, index, run, safety>>, GoalsCarried
  PROVE  OnTour
  <1>. USE DEF run
  <1>1. /\ Tour!Interrupt \/ UNCHANGED <<plan, NextLeg, Visited, Stage>>
        /\ fsm' \in {"IDLE", "READY"} <=> fsm \in {"IDLE", "READY"}
    BY MoveOnTour DEF TourInv, Inv
  <1>2. NotUnheard'
    BY <1>1 DEF TourInv, NotUnheard
  <1>3. GoalsOnTour'
    BY <1>1, TourGoesOn DEF TourInv, Inv, MachineType
  <1>4. QED
    BY <1>1, <1>2, <1>3 DEF OnTour, tour, Tour!Next, Tour!Carry

LEMMA DispatchOnTour ==
  ASSUME TourInv, Inv', NEW e \in Ordinary, e # "FatalStepFailure", Accepts(e), Dispatch(e)
  PROVE  OnTour
  <1>. USE DEF Dispatch
  <1>1. CASE Target(e) = "IDLE"
    <2>1. fsm' = "IDLE" /\ plan' = NoPlan /\ index' = 0 /\ UNCHANGED safety
      BY <1>1 DEF Move, Accepts
    <2>2. Tour!Cleared
      BY <2>1 DEF Tour!Cleared, Stage, NextLeg, Visited, Active
    <2>3. Stage \notin {"driving", "halting", "failing"}
      <3>1. CASE e \in Holds
        BY <1>1, <3>1 DEF Target, Holds
      <3>2. CASE e \in {"ResumeRequested", "ResetRequested", "RecoveryReady"}
        BY <1>1, <3>2 DEF Target, Holds, Terminal, Active, Stage, TourInv, Inv, MachineType
      <3>3. CASE e = "StopRequested"
        BY <1>1, <3>3
        DEF Target, Holds, Active, Stage, TourInv, Inv, MachineType, MissionStates
      <3>4. CASE e = "MotionQuiesced"
        BY <1>1, <3>4 DEF Target, Holds, Active, Stage, TourInv, Inv, MachineType
      <3>5. QED
        BY <3>1, <3>2, <3>3, <3>4 DEF Ordinary, Holds
    <2>4. NotUnheard' /\ GoalsOnTour'
      BY <2>1 DEF NotUnheard, GoalsOnTour
    <2>5. QED
      BY <2>1, <2>2, <2>3, <2>4 DEF OnTour, Tour!Next, Tour!Carry, Tour!Clear
  <1>2. CASE Target(e) # "IDLE"
    <2>1. GoalsCarried
      <3>1. CASE Target(e) = "PAUSING"
        BY <3>1, HaltCarries DEF TourInv
      <3>2. CASE Target(e) # "PAUSING"
        BY <3>2 DEF GoalsCarried
      <3>3. QED
        BY <3>1, <3>2
    <2>2. QED
      BY <1>2, <2>1, CarryMove
  <1>3. QED
    BY <1>1, <1>2

LEMMA OperateOnTour ==
  ASSUME TourInv, Inv', Operate
  PROVE  OnTour
  <1>1. ASSUME NEW p \in Plans, OnConfigure(p) PROVE OnTour
    <2>1. fsm' = "READY" /\ plan' = p /\ index' = 0 /\ UNCHANGED safety
      BY <1>1 DEF OnConfigure
    <2>2. Stage' = "ready" /\ NextLeg' = 0 /\ Visited' = {}
      BY <2>1 DEF Stage, NextLeg, Visited, Active
    <2>3. Stage \in {"none", "ready", "completed", "failed"}
      BY <1>1 DEF OnConfigure, Stage, Terminal, Active
    <2>4. Tour!Configure(p)
      BY <2>1, <2>2, <2>3 DEF Tour!Configure, Tour!Over
    <2>5. NotUnheard' /\ GoalsOnTour'
      BY <2>1 DEF NotUnheard, GoalsOnTour
    <2>6. QED
      BY <2>1, <2>4, <2>5 DEF OnTour, Tour!Next, Tour!Carry
  <1>2. CASE OnStart \/ OnResumeRefused
    BY <1>2, OffTour DEF OnStart, OnResumeRefused, GoalsCarried, run
  <1>3. CASE \E e \in {"PauseRequested", "ResumeRequested"} : OnPauseOrResume(e)
    BY <1>3, DispatchOnTour DEF OnPauseOrResume, Ordinary
  <1>4. CASE OnStop
    <2>1. /\ fsm \in Terminal => Accepts("ResetRequested") /\ Dispatch("ResetRequested")
          /\ fsm \notin Terminal => Accepts("StopRequested") /\ Dispatch("StopRequested")
      BY <1>4 DEF OnStop, Accepts, Target, Holds, Terminal
    <2>2. QED
      BY <2>1, DispatchOnTour DEF Ordinary
  <1>5. CASE OnReset
    BY <1>5, DispatchOnTour DEF OnReset, Ordinary
  <1>6. QED
    BY <1>1, <1>2, <1>3, <1>4, <1>5 DEF Operate

\* The first safety state is heard before anything is under way.
LEMMA SafetyOnTour ==
  ASSUME TourInv, Inv', NEW s \in SafetyViews \ {"UNKNOWN"}, NEW changed \in BOOLEAN,
         OnSafety(s, changed)
  PROVE  OnTour
  <1>. USE DEF OnSafety, run
  <1>1. safety' = s /\ safety' # "UNKNOWN" /\ UNCHANGED <<plan, index, reached, runStart>>
    OBVIOUS
  <1>2. NotUnheard'
    BY <1>1 DEF NotUnheard
  <1>3. CASE s # "NORMAL" /\ fsm \in Active \cup {"RECOVERING"}
    <2>1. Move("SafetyStop") /\ Target("SafetyStop") # "IDLE" /\ "SafetyStop" \in Ordinary
      BY <1>3 DEF Target, Holds, Active, Ordinary
    <2>2. GoalsCarried
      <3>1. CASE fsm \in Active
        BY <1>3, <3>1, HaltCarries DEF TourInv
      <3>2. CASE fsm \notin Active
        BY <1>3, <3>2 DEF GoalsCarried
      <3>3. QED
        BY <3>1, <3>2
    <2>3. /\ Tour!Interrupt \/ UNCHANGED <<plan, NextLeg, Visited, Stage>>
          /\ fsm' \in {"IDLE", "READY"} <=> fsm \in {"IDLE", "READY"}
      BY <1>1, <2>1, MoveOnTour DEF TourInv, Inv
    <2>4. GoalsOnTour'
      BY <1>1, <2>2, <2>3, TourGoesOn DEF TourInv, Inv, MachineType
    <2>5. safety # "UNKNOWN"
      BY <1>3 DEF TourInv, NotUnheard, Active
    <2>6. QED
      BY <1>1, <1>2, <2>3, <2>4, <2>5 DEF OnTour, tour, Tour!Next, Tour!Carry
  <1>4. CASE ~(s # "NORMAL" /\ fsm \in Active \cup {"RECOVERING"})
    <2>1. UNCHANGED <<fsm, haltTarget, goals>>
      BY <1>4
    <2>2. UNCHANGED <<plan, NextLeg, Visited, Stage>>
      BY <1>1, <2>1 DEF NextLeg, Visited, Stage
    <2>3. GoalsOnTour'
      BY <1>1, <2>1, TourGoesOn DEF TourInv, Inv, MachineType, GoalsCarried
    <2>4. CASE safety = "UNKNOWN"
      BY <1>1, <1>2, <2>2, <2>3, <2>4 DEF OnTour, Tour!Next, Tour!Hear
    <2>5. CASE safety # "UNKNOWN"
      BY <1>1, <1>2, <2>2, <2>3, <2>5 DEF OnTour, tour
    <2>6. QED
      BY <2>4, <2>5
  <1>5. QED
    BY <1>3, <1>4

LEMMA StartOnTour ==
  ASSUME TourInv, Inv', NEW ready \in BOOLEAN, TickPendingStart(ready)
  PROVE  OnTour
  <1>. USE DEF TickPendingStart
  <1>1. CASE DependenciesReady(ready)
    <2>1. /\ fsm = "READY" /\ fsm' = "RUNNING" /\ index' = 0 /\ reached' = {}
          /\ runStart' = generation /\ UNCHANGED <<plan, safety, goals>> /\ safety = "NORMAL"
      BY <1>1 DEF Move, Target, Accepts, Holds, DependenciesReady
    <2>2. Tour!Start
      BY <2>1 DEF Tour!Start, Stage, NextLeg, Visited, Active
    <2>3. NotUnheard'
      BY <2>1 DEF NotUnheard
    <2>4. \A g \in goals' : g.gen \in Nat /\ g.gen <= runStart'
      BY <2>1, GoalFields DEF TourInv, Inv, LeafType, GoalsAreKnown
    <2>5. GoalsOnTour'
      BY <2>1, <2>4 DEF GoalsOnTour, TourInv, Inv, LeafType
    <2>6. QED
      BY <2>1, <2>2, <2>3, <2>5 DEF OnTour, Tour!Next, Tour!Carry
  <1>2. CASE ~DependenciesReady(ready)
    BY <1>2, OffTour DEF GoalsCarried, machine, run
  <1>3. QED
    BY <1>1, <1>2

\* A waypoint, or the dock, is done.
LEMMA SucceedsOnTour ==
  ASSUME TourInv, Inv', fsm \in Active, LeafSucceeds,
         UNCHANGED <<returnToDock, plan, run, safety>>
  PROVE  OnTour
  <1>. USE DEF LeafSucceeds
  <1>1. /\ index \in reached /\ index \in Nat /\ (returnToDock <=> plan.dock)
        /\ plan.dock \in BOOLEAN /\ plan.waypoints \in Nat /\ index <= plan.waypoints
        /\ Stage = "driving" /\ NextLeg = index /\ Visited = reached /\ Visited' = reached
        /\ fsm = "RUNNING" <=> index < plan.waypoints
        /\ fsm = "RETURNING" => plan.dock
    <2>1. plan \in Plans
      BY DEF TourInv, Inv, Planned, Active
    <2>2. plan.dock \in BOOLEAN
      BY <2>1, Zenon
    <2>3. fsm' \notin {"IDLE", "READY"}
      BY DEF Move, Target, Accepts, Holds, Active
    <2>4. Stage = "driving" /\ NextLeg = index /\ Visited = reached /\ Visited' = reached
      BY <2>3 DEF Stage, NextLeg, Visited, Active, run
    <2>5. QED
      BY <2>2, <2>4 DEF TourInv, Inv, LeafIsCurrent, MachineType, Planned, Active,
                        PhaseMatchesCheckpoint, Phase
  <1>2. DEFINE dock == IF plan.dock THEN 1 ELSE 0
  <1>3. Tour!DoLeg /\ fsm' \notin {"IDLE", "READY"} /\ index <= index'
    <2>1. CASE fsm = "RUNNING" /\ index + 1 < plan.waypoints
      <3>1. fsm' = fsm /\ index' = index + 1
        BY <1>1, <2>1
      <3>2. NextLeg' = index + 1 /\ Stage' = "driving" /\ index + 1 # plan.waypoints + dock
        BY <1>1, <2>1, <3>1 DEF NextLeg, Stage, Active
      <3>3. QED
        BY <1>1, <2>1, <3>1, <3>2 DEF Tour!DoLeg, Tour!Legs
    <2>2. CASE fsm = "RUNNING" /\ index + 1 = plan.waypoints
      <3>1. fsm' = (IF plan.dock THEN "RETURNING" ELSE "COMPLETED") /\ index' = index + 1
        BY <1>1, <2>2 DEF Move, Target, Accepts, Holds
      <3>2. /\ NextLeg' = index + 1
            /\ Stage' = IF plan.dock THEN "driving" ELSE "completed"
            /\ index + 1 = plan.waypoints + dock <=> ~plan.dock
        BY <1>1, <2>2, <3>1 DEF NextLeg, Stage, Active
      <3>3. QED
        BY <1>1, <3>1, <3>2 DEF Tour!DoLeg, Tour!Legs
    <2>3. CASE fsm = "RETURNING"
      <3>1. fsm' = "COMPLETED" /\ index' = index /\ index = plan.waypoints /\ plan.dock
        BY <1>1, <2>3 DEF Move, Target, Accepts, Holds
      <3>2. NextLeg' = index + 1 /\ Stage' = "completed" /\ index + 1 = plan.waypoints + dock
        BY <1>1, <3>1 DEF NextLeg, Stage, Active
      <3>3. QED
        BY <1>1, <3>1, <3>2 DEF Tour!DoLeg, Tour!Legs
    <2>4. QED
      BY <1>1, <2>1, <2>2, <2>3 DEF Active
  <1>4. NotUnheard'
    BY DEF TourInv, NotUnheard, Active
  <1>5. GoalsOnTour'
    BY <1>3, TourGoesOn DEF LeafDone, GoalsCarried, run, Active
  <1>6. QED
    BY <1>3, <1>4, <1>5 DEF OnTour, Tour!Next, Tour!Carry

LEMMA ActiveOnTour ==
  ASSUME TourInv, Inv', NEW serverReady \in BOOLEAN, TickActive(serverReady)
  PROVE  OnTour
  <1>. USE DEF TickActive
  <1>1. ~(fsm = "RUNNING" /\ index >= plan.waypoints)
    BY DEF TourInv, Inv, MachineType, PhaseMatchesCheckpoint, Phase, Active
  <1>2. bt \in {NoGoal, index}
    BY DEF TourInv, Inv, LeafIsCurrent
  <1>3. CASE LeafSucceeds
    BY <1>3, SucceedsOnTour
  <1>4. CASE LeafFails \/ LeafUnavailable
    <2>1. PICK e \in {"PauseRequested", "FatalStepFailure"} : Move(e)
      BY <1>4 DEF LeafFails, LeafUnavailable
    <2>2. e \in Ordinary /\ Target(e) # "IDLE"
      BY <2>1, TargetOf DEF Ordinary, TourInv, Inv
    <2>3. GoalsCarried /\ UNCHANGED index
      BY <1>4 DEF LeafFails, LeafUnavailable, LeafDone, GoalsCarried
    <2>4. QED
      BY <2>1, <2>2, <2>3, CarryMove
  <1>5. CASE SendGoal
    <2>1. UNCHANGED <<plan, NextLeg, Visited, Stage>>
      BY <1>5 DEF SendGoal, NextLeg, Visited, Stage, run
    <2>2. NotUnheard'
      BY DEF TourInv, NotUnheard, Active
    <2>3. ASSUME NEW h \in goals', h.gen > runStart'
          PROVE  h.target <= index' /\ (h.target = plan'.waypoints => plan'.dock)
      <3>1. CASE h \in goals
        BY <1>5, <2>3, <3>1 DEF SendGoal, TourInv, GoalsOnTour, Active, run
      <3>2. CASE h \notin goals
        <4>1. h.target = index
          BY <1>5, <3>2 DEF SendGoal
        <4>2. index = plan.waypoints => plan.dock
          BY DEF TourInv, Inv, PhaseMatchesCheckpoint, Phase, Active
        <4>3. QED
          BY <1>5, <4>1, <4>2 DEF SendGoal, TourInv, Inv, MachineType
      <3>3. QED
        BY <3>1, <3>2
    <2>4. QED
      BY <2>1, <2>2, <2>3 DEF OnTour, GoalsOnTour, tour
  <1>6. QED
    BY <1>1, <1>2, <1>3, <1>4, <1>5

LEMMA TickOnTour ==
  ASSUME TourInv, Inv', Tick
  PROVE  OnTour
  <1>1. CASE \E ready \in BOOLEAN : TickPendingStart(ready)
    BY <1>1, StartOnTour
  <1>2. CASE \E still \in BOOLEAN : TickPausing(still)
    <2>1. Accepts("MotionQuiesced") /\ Dispatch("MotionQuiesced")
      BY <1>2 DEF TickPausing, Accepts, Target, Holds, TourInv, Inv, MachineType
    <2>2. QED
      BY <2>1, DispatchOnTour DEF Ordinary
  <1>3. CASE \E ready \in BOOLEAN : TickRecovering(ready)
    <2>1. Accepts("RecoveryReady") /\ Dispatch("RecoveryReady")
      BY <1>3 DEF TickRecovering, Accepts, Target, Holds, TourInv, Inv, MachineType, Active
    <2>2. QED
      BY <2>1, DispatchOnTour DEF Ordinary
  <1>4. CASE \E ready \in BOOLEAN : TickActive(ready)
    BY <1>4, ActiveOnTour
  <1>5. QED
    BY <1>1, <1>2, <1>3, <1>4 DEF Tick

LEMMA ResponseOnTour ==
  ASSUME TourInv, Inv', NEW g \in goals, OnGoalResponse(g)
  PROVE  OnTour
  <1>1. g \in Goals
    BY DEF TourInv, Inv, LeafType
  <1>2. GoalsCarried
    <2>. DEFINE h == [g EXCEPT !.heard = TRUE, !.cancel = (g.gen # generation)]
    <2>1. h.gen = g.gen /\ h.target = g.target
      BY <1>1, GoalHeard
    <2>. HIDE DEF h
    <2>2. goals' \subseteq (goals \ {g}) \cup {h}
      BY DEF OnGoalResponse, Becomes, Forget, h
    <2>3. QED
      BY <2>1, <2>2 DEF GoalsCarried
  <1>3. QED
    BY <1>2, OffTour DEF OnGoalResponse, run

\* A place is visited when its result arrives, in time or after a halt.
LEMMA ResultOnTour ==
  ASSUME TourInv, Inv', NEW g \in goals, OnResult(g)
  PROVE  OnTour
  <1>. USE DEF OnResult
  <1>1. goals' = goals \ {g} /\ GoalsCarried
    BY DEF Forget, GoalsCarried
  <1>2. UNCHANGED <<fsm, haltTarget, plan, index, runStart, safety, NextLeg, Stage>>
    BY DEF machine, NextLeg, Stage
  <1>3. NotUnheard' /\ GoalsOnTour'
    BY <1>1, <1>2, TourGoesOn DEF TourInv, Inv, MachineType, NotUnheard
  <1>4. CASE fsm \in {"IDLE", "READY"} \/ reached' = reached
    BY <1>2, <1>3, <1>4 DEF OnTour, tour, Visited
  <1>5. CASE fsm \notin {"IDLE", "READY"} /\ reached' # reached
    <2>1. Visited' = Visited \cup {g.target} /\ g.gen > runStart
      BY <1>2, <1>5 DEF Visited
    <2>2. g.target <= index /\ (g.target = plan.waypoints => plan.dock)
      BY <1>5, <2>1 DEF TourInv, GoalsOnTour
    <2>3. g.target \in Nat /\ index \in Nat /\ plan.waypoints \in Nat /\ index <= plan.waypoints
      BY GoalFields DEF TourInv, Inv, LeafType, MachineType
    <2>4. NextLeg \in Nat /\ g.target <= NextLeg
      BY <2>2, <2>3 DEF NextLeg
    <2>5. g.target < Tour!Legs(plan)
      BY <2>2, <2>3 DEF Tour!Legs
    <2>6. Stage \notin {"none", "ready"}
      BY <1>5 DEF Stage, Active, TourInv, Inv, MachineType, MissionStates
    <2>7. Tour!Visit(g.target) /\ g.target \in 0..NextLeg
      BY <1>2, <2>1, <2>3, <2>4, <2>5, <2>6 DEF Tour!Visit
    <2>8. QED
      BY <1>2, <1>3, <2>7 DEF OnTour, Tour!Next, Tour!Carry
  <1>6. QED
    BY <1>4, <1>5

LEMMA Nav2OnTour ==
  ASSUME TourInv, Inv', Nav2
  PROVE  OnTour
  <1>1. UNCHANGED node
    BY DEF Nav2, NavAccept, NavReject, NavFinish, NavRestart
  <1>2. ASSUME NEW h \in goals' PROVE \E g \in goals : h.gen = g.gen /\ h.target = g.target
    <2>0. h \in goals \/ \E g \in goals, s \in {"rejected", "executing", "succeeded", "failed"} :
                           h = [g EXCEPT !.server = s]
      BY <1>2 DEF Nav2, NavAccept, NavReject, NavFinish, NavRestart, Becomes, Forget
    <2>1. CASE h \in goals
      BY <2>1
    <2>2. ASSUME NEW g \in goals, NEW s \in {"rejected", "executing", "succeeded", "failed"},
                 h = [g EXCEPT !.server = s]
          PROVE  h.gen = g.gen /\ h.target = g.target
      <3>1. g \in Goals
        BY DEF TourInv, Inv, LeafType
      <3>2. QED
        BY <2>2, <3>1, GoalServed
    <2>3. QED
      BY <2>0, <2>1, <2>2
  <1>3. GoalsCarried
    BY <1>2 DEF GoalsCarried
  <1>4. QED
    BY <1>1, <1>3, OffTour DEF node, run

LEMMA RestartOnTour ==
  ASSUME TourInv, Restart
  PROVE  OnTour
  <1>1. fsm' = "IDLE" /\ plan' = NoPlan /\ index' = 0 /\ safety' = "UNKNOWN"
    BY DEF Restart
  <1>2. Tour!Forget
    BY <1>1 DEF Tour!Forget, Tour!Cleared, Stage, NextLeg, Visited, Active
  <1>3. QED
    BY <1>1, <1>2 DEF OnTour, Tour!Next, NotUnheard, GoalsOnTour

LEMMA NextOnTour == TourInv /\ Inv' /\ [Next]_vars => OnTour
  <1>. SUFFICES ASSUME TourInv, Inv', [Next]_vars PROVE OnTour
    OBVIOUS
  <1>1. CASE Operate
    BY <1>1, OperateOnTour
  <1>2. CASE Listen
    BY <1>2, SafetyOnTour DEF Listen
  <1>3. CASE Tick
    BY <1>3, TickOnTour
  <1>4. CASE \E g \in goals : Answer(g)
    BY <1>4, ResponseOnTour, ResultOnTour DEF Answer
  <1>5. CASE Nav2
    BY <1>5, Nav2OnTour
  <1>6. CASE Restart
    BY <1>6, RestartOnTour
  <1>7. CASE UNCHANGED vars
    BY <1>7, OffTour DEF vars, GoalsCarried, run
  <1>8. QED
    BY <1>1, <1>2, <1>3, <1>4, <1>5, <1>6, <1>7 DEF Next

\* mission_manager implements the itinerary: the checkpoint moves one leg at a time and only
\* over places visited in this run, a halt keeps it, and a mission that is stopped ends.
THEOREM ItineraryRefinement == Spec => ImplementsItinerary
  <1>1. Init => Tour!Init /\ NotUnheard /\ GoalsOnTour
    BY DEF Init, Tour!Init, NextLeg, Visited, Stage, Active, NotUnheard, GoalsOnTour
  <1>2. Inv /\ Inv' /\ NotUnheard /\ GoalsOnTour /\ [Next]_vars =>
          [Tour!Next]_tour /\ NotUnheard' /\ GoalsOnTour'
    BY NextOnTour DEF TourInv, OnTour
  <1>3. QED
    BY <1>1, <1>2, Invariance, PTL DEF Spec, ImplementsItinerary, Tour!Spec, tour

\* The promise is worth having: whoever keeps to the itinerary has done the legs behind it.
LegsBehind ==
    /\ NextLeg \in Nat
    /\ 0..(NextLeg - 1) \subseteq Visited
    /\ Stage = "completed" => NextLeg = Tour!Legs(plan)

LEMMA ItineraryStep == LegsBehind /\ [Tour!Next]_tour => LegsBehind'
  <1>. SUFFICES ASSUME LegsBehind, [Tour!Next]_tour PROVE LegsBehind'
    OBVIOUS
  <1>. USE DEF LegsBehind
  <1>1. CASE Tour!Cleared
    BY <1>1 DEF Tour!Cleared
  <1>2. CASE \E p \in Plans : Tour!Configure(p)
    BY <1>2 DEF Tour!Configure
  <1>3. CASE Tour!Start
    BY <1>3 DEF Tour!Start
  <1>4. ASSUME NEW leg \in 0..NextLeg, Tour!Visit(leg) PROVE LegsBehind'
    BY <1>4 DEF Tour!Visit
  <1>5. CASE Tour!DoLeg
    <2>1. NextLeg' = NextLeg + 1 /\ NextLeg \in Visited /\ UNCHANGED <<plan, Visited>>
          /\ Stage' = IF NextLeg' = Tour!Legs(plan) THEN "completed" ELSE "driving"
      BY <1>5 DEF Tour!DoLeg
    <2>2. NextLeg' \in Nat /\ 0..(NextLeg' - 1) = 0..(NextLeg - 1) \cup {NextLeg}
      BY <2>1
    <2>3. QED
      BY <2>1, <2>2 DEF Tour!Legs
  <1>6. CASE Tour!Interrupt
    BY <1>6 DEF Tour!Interrupt, Tour!Moves
  <1>7. CASE Tour!Hear \/ UNCHANGED tour
    BY <1>7 DEF Tour!Hear, tour
  <1>8. QED
    BY <1>1, <1>2, <1>3, <1>4, <1>5, <1>6, <1>7
    DEF Tour!Next, Tour!Carry, Tour!Clear, Tour!Forget

\* The itinerary alone backs the checkpoint: a node with this state that keeps to it counts
\* only what was reached, and completes only what it was asked to do.
THEOREM ItineraryBacksCheckpoint == []TypeOK /\ ImplementsItinerary => []CheckpointBacked
  <1>1. Tour!Init => LegsBehind
    BY DEF Tour!Init, LegsBehind
  <1>2. TypeOK /\ LegsBehind => CheckpointBacked
    <2>. SUFFICES ASSUME TypeOK, LegsBehind PROVE CheckpointBacked
      OBVIOUS
    <2>1. index \in Nat /\ plan.waypoints \in Nat
      <3>1. plan \in Plans \cup {NoPlan}
        BY DEF TypeOK
      <3>2. plan.waypoints \in Nat
        BY <3>1 DEF NoPlan
      <3>3. QED
        BY <3>2 DEF TypeOK
    <2>2. fsm \in MissionStates \ {"IDLE", "READY"} => Passed \subseteq reached
      BY <2>1 DEF LegsBehind, NextLeg, Visited, Passed
    <2>3. fsm = "COMPLETED" =>
            index = plan.waypoints /\ (plan.dock => plan.waypoints \in reached)
      BY <2>1 DEF LegsBehind, NextLeg, Visited, Stage, Active, Tour!Legs
    <2>4. QED
      BY <2>2, <2>3 DEF CheckpointBacked
  <1>3. QED
    BY <1>1, <1>2, ItineraryStep, PTL DEF ImplementsItinerary, Tour!Spec, tour
=============================================================================
