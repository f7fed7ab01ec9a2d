------------------------- MODULE SafetyManagerProofs -------------------------
(***************************************************************************)
(* Proofs about safety_manager, for every set of request ids, every cache  *)
(* size and every timeout: the inductive invariant, the properties it      *)
(* gives, and the refinement of MotionPermit.                              *)
(***************************************************************************)
EXTENDS SafetyManager, TLAPS

(* What the invariants need beyond themselves: the published sample is the *)
(* current state, NORMAL is only kept with a live heartbeat, and a live    *)
(* heartbeat is no older than its timeout and the timer's present lateness. *)
TopicInv ==
    /\ topic \in Messages
    /\ topic.state = state
    /\ topic.permitted = (state = "NORMAL")

LatchInv ==
    /\ state \in SafetyStates
    /\ faultLatched \in BOOLEAN /\ physical \in BOOLEAN /\ software \in BOOLEAN
    /\ EStopMirrorsInputs
    /\ FaultHeld

HeartbeatInv ==
    /\ alive \in BOOLEAN /\ hbAge \in Nat /\ tickAge \in 0..TickPeriod
    /\ RequireHeartbeat /\ state = "NORMAL" => alive
    /\ RequireHeartbeat /\ alive => hbAge <= HeartbeatTimeout + tickAge

CacheInv == cache \in Seq(Entries) /\ Len(cache) <= CacheLimit

SafetyInv == TopicInv /\ LatchInv /\ HeartbeatInv /\ CacheInv /\ boot \in BOOLEAN

USE DEF SafetyStates, Operations, Messages

-----------------------------------------------------------------------------
(* Remembering a response keeps the cache a bounded sequence of entries.   *)
LEMMA RememberTyped ==
    ASSUME CacheInv, NEW entry \in Entries, Remember(entry)
    PROVE  CacheInv'
  <1> USE SafetyConstants DEF CacheInv
  <1>1. CASE Len(cache) < CacheLimit
    BY <1>1 DEF Remember
  <1>2. CASE ~(Len(cache) < CacheLimit)
    <2>1. cache # <<>>
      BY <1>2
    <2>2. Tail(cache) \in Seq(Entries) /\ Len(Tail(cache)) = Len(cache) - 1
      BY <2>1
    <2>3. cache' = Append(Tail(cache), entry)
      BY <1>2 DEF Remember
    <2>4. QED
      BY <2>2, <2>3
  <1>3. QED
    BY <1>1, <1>2

(* A published sample shows the state it was published in.                 *)
LEMMA PublishShowsState ==
    ASSUME Publish, state' \in SafetyStates, physical' \in BOOLEAN, software' \in BOOLEAN
    PROVE  TopicInv'
  BY Zenon DEF Publish, MessageFor, TopicInv

(* What an event does: it is accepted and moves the machine, or it is      *)
(* dropped; either way the topic shows the state.                          *)
LEMMA DispatchEffect ==
    ASSUME TopicInv, LatchInv, physical' \in BOOLEAN, software' \in BOOLEAN,
           NEW e \in Events, Dispatch(e)
    PROVE  /\ TopicInv'
           /\ \/ Accepts(e) /\ state' = Target(e) /\ faultLatched' = LatchAfter(e)
              \/ ~Accepts(e) /\ UNCHANGED latches
  <1>1. CASE Accepts(e)
    <2>1. state' = Target(e) /\ faultLatched' = LatchAfter(e) /\ Publish
      BY <1>1 DEF Dispatch
    <2>2. state' \in SafetyStates
      BY <2>1 DEF Target
    <2>3. QED
      BY <1>1, <2>1, <2>2, PublishShowsState
  <1>2. CASE ~Accepts(e)
    <2>1. UNCHANGED latches /\ UNCHANGED topic
      BY <1>2 DEF Dispatch
    <2>2. QED
      BY <1>2, <2>1 DEF TopicInv, latches
  <1>3. QED
    BY <1>1, <1>2

LEMMA InitEstablishesInv == Init => SafetyInv
  <1> SUFFICES ASSUME Init
               PROVE  SafetyInv
    OBVIOUS
  <1>1. /\ state \in {"INITIALIZING", "CONTROLLED_STOP"}
        /\ physical \in BOOLEAN /\ ~physical
        /\ software \in BOOLEAN /\ ~software
        /\ alive \in BOOLEAN /\ ~alive
        /\ faultLatched \in BOOLEAN /\ ~faultLatched
    BY Zenon DEF Init
  <1>2. TopicInv
    <2>1. topic = [state |-> state, permitted |-> state = "NORMAL",
                   physical |-> physical, software |-> software]
      BY Zenon DEF Init, MessageFor
    <2>2. QED
      BY <1>1, <2>1, Zenon DEF TopicInv
  <1>3. CacheInv /\ hbAge = 0 /\ tickAge = 0
    BY SafetyConstants DEF Init, CacheInv
  <1>4. LatchInv /\ HeartbeatInv
    BY <1>1, <1>3, SafetyConstants
    DEF LatchInv, HeartbeatInv, EStopMirrorsInputs, FaultHeld
  <1>5. boot \in BOOLEAN
    BY DEF Init
  <1>6. QED
    BY <1>2, <1>3, <1>4, <1>5 DEF SafetyInv

-----------------------------------------------------------------------------
(* Each handler keeps the invariant.                                       *)
LEMMA CommandKeepsInv ==
    ASSUME SafetyInv, boot' \in BOOLEAN,
           NEW id \in RequestIds, NEW op \in Operations, OnCommand(id, op)
    PROVE  SafetyInv'
  <1> USE DEF SafetyInv
  <1>1. UNCHANGED <<physical, alive, hbAge, tickAge>>
    BY DEF OnCommand, clocks
  <1>2. CacheInv'
    <2> DEFINE entry == [id |-> id, op |-> op, accepted |-> Accepted(op)]
    <2>1. Accepted(op) \in BOOLEAN
      BY DEF Accepted, ResumeGuard, ClearGuard, Accepts, LatchInv
    <2>2. entry \in Entries
      BY <2>1 DEF Entries
    <2>3. Remember(entry)
      BY DEF OnCommand
    <2>4. QED
      BY <2>2, <2>3, RememberTyped
  <1>3. CASE op = "ENGAGE_SOFTWARE_ESTOP" /\ EngageSoftware
    <2>1. software' = TRUE /\ Dispatch("EmergencyStopEngaged")
      BY <1>3 DEF EngageSoftware
    <2>2. /\ TopicInv'
          /\ state' = "E_STOP_LATCHED" /\ faultLatched' = (faultLatched \/ state = "FAULT")
      BY <1>1, <2>1, DispatchEffect DEF Events, Accepts, Target, LatchAfter, LatchInv
    <2>3. LatchInv' /\ HeartbeatInv'
      BY <1>1, <2>1, <2>2 DEF LatchInv, HeartbeatInv, EStopMirrorsInputs, FaultHeld
    <2>4. QED
      BY <1>2, <2>2, <2>3
  <1>4. CASE op = "RELEASE_SOFTWARE_ESTOP" /\ ReleaseSoftware
    <2>1. software' = FALSE
      BY <1>4 DEF ReleaseSoftware
    <2>2. CASE ~physical /\ state = "E_STOP_LATCHED"
      <3>1. Dispatch("EmergencyStopReleased")
        BY <1>4, <2>2 DEF ReleaseSoftware
      <3>2. /\ TopicInv'
            /\ state' = (IF faultLatched THEN "FAULT" ELSE "CONTROLLED_STOP")
            /\ faultLatched' = faultLatched
        BY <1>1, <2>1, <2>2, <3>1, DispatchEffect
        DEF Events, Accepts, Target, LatchAfter, LatchInv
      <3>3. LatchInv' /\ HeartbeatInv'
        BY <1>1, <2>1, <2>2, <3>2 DEF LatchInv, HeartbeatInv, EStopMirrorsInputs, FaultHeld
      <3>4. QED
        BY <1>2, <3>2, <3>3
    <2>3. CASE ~(~physical /\ state = "E_STOP_LATCHED")
      <3>1. UNCHANGED <<state, faultLatched, topic>>
        BY <1>4, <2>3 DEF ReleaseSoftware, Quiet, latches
      <3>2. LatchInv' /\ HeartbeatInv' /\ TopicInv'
        BY <1>1, <2>1, <2>3, <3>1
        DEF LatchInv, HeartbeatInv, TopicInv, EStopMirrorsInputs, FaultHeld
      <3>3. QED
        BY <1>2, <3>2
    <2>4. QED
      BY <2>2, <2>3
  <1>5. ASSUME NEW guard \in {ResumeGuard, ClearGuard}, NEW e \in {"ResumeRequested", "ClearFault"},
               Guarded(guard, e),
               e = "ResumeRequested" => guard = ResumeGuard
        PROVE  SafetyInv'
    <2>1. UNCHANGED software
      BY <1>5 DEF Guarded
    <2>2. CASE guard /\ Accepts(e)
      <3>1. Dispatch(e)
        BY <1>5, <2>2 DEF Guarded
      <3>2. TopicInv' /\ state' = Target(e) /\ faultLatched' = LatchAfter(e)
        BY <1>1, <2>1, <2>2, <3>1, DispatchEffect DEF Events, LatchInv
      <3>3. LatchInv' /\ HeartbeatInv'
        BY <1>1, <1>5, <2>1, <2>2, <3>2
        DEF LatchInv, HeartbeatInv, EStopMirrorsInputs, FaultHeld, ResumeGuard,
            Accepts, Target, LatchAfter
      <3>4. QED
        BY <1>2, <3>2, <3>3
    <2>3. CASE ~(guard /\ Accepts(e))
      <3>1. UNCHANGED <<state, faultLatched, topic>>
        BY <1>5, <2>3 DEF Guarded, Dispatch, Quiet, latches
      <3>2. QED
        BY <1>1, <1>2, <2>1, <3>1
        DEF LatchInv, HeartbeatInv, TopicInv, EStopMirrorsInputs, FaultHeld
    <2>4. QED
      BY <2>2, <2>3
  <1>6. QED
    BY <1>3, <1>4, <1>5 DEF OnCommand

LEMMA TopicsKeepInv ==
    ASSUME SafetyInv, boot' \in BOOLEAN,
           \/ \E e \in {"StopRequested", "HealthFault"} : OnEvent(e)
           \/ \E active \in BOOLEAN : OnPhysicalEstop(active)
           \/ OnHeartbeatAlive
           \/ OnHeartbeatDead
    PROVE  SafetyInv'
  <1> USE DEF SafetyInv
  <1>1. ASSUME NEW e \in {"StopRequested", "HealthFault"}, OnEvent(e)
        PROVE  SafetyInv'
    <2>1. UNCHANGED <<physical, software, alive, hbAge, tickAge, cache>> /\ Dispatch(e)
      BY <1>1 DEF OnEvent, inputs, clocks
    <2>2. /\ TopicInv'
          /\ \/ Accepts(e) /\ state' = Target(e) /\ faultLatched' = LatchAfter(e)
             \/ ~Accepts(e) /\ UNCHANGED latches
      BY <2>1, DispatchEffect DEF Events, LatchInv
    <2>3. CASE e = "StopRequested"
      <3>1. /\ \/ state \in {"CONTROLLED_STOP", "NORMAL"} /\ state' = "CONTROLLED_STOP"
               \/ UNCHANGED state
            /\ UNCHANGED faultLatched
        BY <2>2, <2>3 DEF Accepts, Target, LatchAfter, latches
      <3>2. LatchInv' /\ HeartbeatInv'
        BY <2>1, <3>1 DEF LatchInv, HeartbeatInv, EStopMirrorsInputs, FaultHeld
      <3>3. QED
        BY <2>1, <2>2, <3>2 DEF CacheInv
    <2>4. CASE e = "HealthFault"
      <3>1. /\ state' = IF state = "E_STOP_LATCHED" THEN "E_STOP_LATCHED" ELSE "FAULT"
            /\ faultLatched'
        BY <2>2, <2>4 DEF Accepts, Target, LatchAfter
      <3>2. faultLatched' \in BOOLEAN
        BY <2>2, <2>4 DEF Accepts, LatchAfter
      <3>3. LatchInv' /\ HeartbeatInv'
        BY <2>1, <3>1, <3>2 DEF LatchInv, HeartbeatInv, EStopMirrorsInputs, FaultHeld
      <3>4. QED
        BY <2>1, <2>2, <3>3 DEF CacheInv
    <2>5. QED
      BY <2>3, <2>4
  <1>2. ASSUME NEW active \in BOOLEAN, OnPhysicalEstop(active)
        PROVE  SafetyInv'
    <2>1. physical' = active /\ UNCHANGED <<software, alive, hbAge, tickAge, cache>>
      BY <1>2 DEF OnPhysicalEstop, clocks
    <2>2. CASE active \/ software
      <3>1. Dispatch("EmergencyStopEngaged")
        BY <1>2, <2>2 DEF OnPhysicalEstop
      <3>2. /\ TopicInv'
            /\ state' = "E_STOP_LATCHED" /\ faultLatched' = (faultLatched \/ state = "FAULT")
        BY <2>1, <3>1, DispatchEffect DEF Events, Accepts, Target, LatchAfter, LatchInv
      <3>3. LatchInv' /\ HeartbeatInv'
        BY <2>1, <2>2, <3>2 DEF LatchInv, HeartbeatInv, EStopMirrorsInputs, FaultHeld
      <3>4. QED
        BY <2>1, <3>2, <3>3 DEF CacheInv
    <2>3. CASE ~active /\ ~software /\ state = "E_STOP_LATCHED"
      <3>1. Dispatch("EmergencyStopReleased")
        BY <1>2, <2>3 DEF OnPhysicalEstop
      <3>2. /\ TopicInv'
            /\ state' = (IF faultLatched THEN "FAULT" ELSE "CONTROLLED_STOP")
            /\ faultLatched' = faultLatched
        BY <2>1, <2>3, <3>1, DispatchEffect DEF Events, Accepts, Target, LatchAfter, LatchInv
      <3>3. LatchInv' /\ HeartbeatInv'
        BY <2>1, <2>3, <3>2 DEF LatchInv, HeartbeatInv, EStopMirrorsInputs, FaultHeld
      <3>4. QED
        BY <2>1, <3>2, <3>3 DEF CacheInv
    <2>4. CASE ~active /\ ~software /\ state # "E_STOP_LATCHED"
      <3>1. UNCHANGED <<state, faultLatched, topic>>
        BY <1>2, <2>4 DEF OnPhysicalEstop, Quiet, latches
      <3>2. QED
        BY <2>1, <2>4, <3>1
        DEF LatchInv, HeartbeatInv, TopicInv, CacheInv, EStopMirrorsInputs, FaultHeld
    <2>5. QED
      BY <2>2, <2>3, <2>4
  <1>3. ASSUME OnHeartbeatAlive \/ OnHeartbeatDead
        PROVE  SafetyInv'
    <2> DEFINE e == IF OnHeartbeatAlive THEN "InputsReady" ELSE "LinkLost"
    <2>1. UNCHANGED <<physical, software, tickAge, cache>>
      BY <1>3 DEF OnHeartbeatAlive, OnHeartbeatDead, inputs, clocks
    <2>2. CASE OnHeartbeatAlive
      <3>1. alive' = TRUE /\ hbAge' = 0
        BY <2>2 DEF OnHeartbeatAlive
      <3>2. \/ Dispatch("InputsReady") /\ state = "INITIALIZING"
            \/ UNCHANGED <<state, faultLatched, topic>>
        BY <2>2 DEF OnHeartbeatAlive, Quiet, latches
      <3>3. /\ TopicInv'
            /\ \/ /\ state = "INITIALIZING" /\ state' = "CONTROLLED_STOP"
                  /\ faultLatched' = faultLatched
               \/ UNCHANGED <<state, faultLatched>>
        BY <2>1, <3>2, DispatchEffect
        DEF Events, Accepts, Target, LatchAfter, LatchInv, TopicInv
      <3>4. LatchInv' /\ HeartbeatInv'
        BY <2>1, <3>1, <3>3, SafetyConstants
        DEF LatchInv, HeartbeatInv, EStopMirrorsInputs, FaultHeld
      <3>5. QED
        BY <2>1, <3>3, <3>4 DEF CacheInv
    <2>3. CASE OnHeartbeatDead
      <3>1. alive' \in BOOLEAN /\ ~alive' /\ hbAge' = hbAge
        BY <2>3, Zenon DEF OnHeartbeatDead, clocks
      <3>2. \/ Dispatch("LinkLost") /\ alive
            \/ UNCHANGED <<state, faultLatched, topic>> /\ ~alive
        BY <2>3 DEF OnHeartbeatDead, Quiet, latches
      <3>3. /\ TopicInv'
            /\ \/ /\ state \in {"CONTROLLED_STOP", "NORMAL"} /\ state' = "CONTROLLED_STOP"
                  /\ faultLatched' = faultLatched
               \/ /\ UNCHANGED <<state, faultLatched>>
                  /\ state = "NORMAL" => ~alive
        BY <2>1, <3>2, DispatchEffect
        DEF Events, Accepts, Target, LatchAfter, LatchInv, TopicInv, latches
      <3>4. LatchInv' /\ HeartbeatInv'
        BY <2>1, <3>1, <3>3 DEF LatchInv, HeartbeatInv, EStopMirrorsInputs, FaultHeld
      <3>5. QED
        BY <2>1, <3>3, <3>4 DEF CacheInv
    <2>4. QED
      BY <1>3, <2>2, <2>3
  <1>4. QED
    BY <1>1, <1>2, <1>3

LEMMA TimeKeepsInv ==
    ASSUME SafetyInv, boot' \in BOOLEAN, Tick \/ Advance
    PROVE  SafetyInv'
  <1> USE DEF SafetyInv
  <1>1. CASE Tick
    <2>1. UNCHANGED <<physical, software, hbAge, cache>> /\ tickAge' = 0
      BY <1>1 DEF Tick, inputs
    <2>2. /\ alive' \in BOOLEAN
          /\ alive' <=> alive /\ ~WatchdogExpired
      BY <1>1, Zenon DEF Tick
    <2>3. /\ \/ UNCHANGED state
             \/ state \in {"CONTROLLED_STOP", "NORMAL"} /\ state' = "CONTROLLED_STOP"
          /\ UNCHANGED faultLatched
          /\ WatchdogExpired => state' # "NORMAL"
      BY <1>1 DEF Tick, Accepts, Target, LatchAfter, latches, LatchInv
    <2>4. LatchInv'
      BY <2>1, <2>3 DEF LatchInv, EStopMirrorsInputs, FaultHeld
    <2>5. TopicInv'
      BY <1>1, <2>4, PublishShowsState DEF Tick, LatchInv
    <2>6. HeartbeatInv'
      BY <2>1, <2>2, <2>3, SafetyConstants DEF HeartbeatInv, WatchdogExpired, LatchInv
    <2>7. QED
      BY <2>1, <2>4, <2>5, <2>6 DEF CacheInv
  <1>2. CASE Advance
    <2>1. /\ UNCHANGED <<state, faultLatched, physical, software, alive, cache, topic>>
          /\ tickAge < TickPeriod /\ tickAge' = tickAge + 1
          /\ hbAge' = IF hbAge <= HeartbeatTimeout + TickPeriod THEN hbAge + 1 ELSE hbAge
      BY <1>2 DEF Advance, latches, inputs
    <2>2. HeartbeatInv'
      BY <2>1, SafetyConstants DEF HeartbeatInv
    <2>3. QED
      BY <2>1, <2>2 DEF LatchInv, TopicInv, CacheInv, EStopMirrorsInputs, FaultHeld
  <1>3. QED
    BY <1>1, <1>2

LEMMA RestartKeepsInv ==
    ASSUME SafetyInv, boot' \in BOOLEAN, Restart
    PROVE  SafetyInv'
  <1>1. /\ state' \in {"INITIALIZING", "CONTROLLED_STOP"}
        /\ physical' \in BOOLEAN /\ ~physical'
        /\ software' \in BOOLEAN /\ ~software'
        /\ alive' \in BOOLEAN /\ ~alive'
        /\ faultLatched' \in BOOLEAN /\ ~faultLatched'
        /\ hbAge' = 0 /\ tickAge' = 0 /\ cache' = <<>>
    BY Zenon DEF Restart
  <1>2. TopicInv'
    BY <1>1, PublishShowsState DEF Restart
  <1>3. QED
    BY <1>1, <1>2, SafetyConstants
    DEF SafetyInv, LatchInv, HeartbeatInv, CacheInv, EStopMirrorsInputs, FaultHeld

LEMMA StepKeepsInv == SafetyInv /\ [Next]_vars => SafetyInv'
  <1> SUFFICES ASSUME SafetyInv, [Next]_vars
               PROVE  SafetyInv'
    OBVIOUS
  <1>1. CASE Next
    <2>1. boot' \in BOOLEAN
      BY <1>1 DEF Next, Restart, SafetyInv
    <2>2. QED
      BY <1>1, <2>1, CommandKeepsInv, TopicsKeepInv, TimeKeepsInv, RestartKeepsInv
      DEF Next, Handle
  <1>2. CASE UNCHANGED vars
    BY <1>2 DEF vars, SafetyInv, TopicInv, LatchInv, HeartbeatInv, CacheInv,
                EStopMirrorsInputs, FaultHeld
  <1>3. QED
    BY <1>1, <1>2

(* The invariant holds in every reachable state.                           *)
THEOREM SafetyInvariant == Spec => []SafetyInv
  BY InitEstablishesInv, StepKeepsInv, PTL DEF Spec

-----------------------------------------------------------------------------

(* Every variable of the node keeps its type.                              *)
THEOREM TypeCorrect == Spec => []TypeOK
  <1>1. SafetyInv => TypeOK
    BY DEF SafetyInv, TopicInv, LatchInv, HeartbeatInv, CacheInv, TypeOK
  <1>2. QED
    BY <1>1, SafetyInvariant, PTL

(* The E-stop latch stands exactly while an E-stop input does.             *)
THEOREM EStopLatchedWhileEngaged == Spec => []EStopMirrorsInputs
  <1>1. SafetyInv => EStopMirrorsInputs
    BY DEF SafetyInv, LatchInv
  <1>2. QED
    BY <1>1, SafetyInvariant, PTL

(* A fault outlives every E-stop engaged and released around it.           *)
THEOREM FaultIsHeld == Spec => []FaultHeld
  <1>1. SafetyInv => FaultHeld
    BY DEF SafetyInv, LatchInv
  <1>2. QED
    BY <1>1, SafetyInvariant, PTL

(* Motion is permitted only without E-stop or fault and, where a heartbeat *)
(* is required, within its timeout and one timer period of the last one.   *)
THEOREM PermitIsBacked == Spec => []PermitBacked
  <1>1. SafetyInv => PermitBacked
    <2> SUFFICES ASSUME SafetyInv, topic.permitted
                 PROVE  /\ state = "NORMAL"
                        /\ ~physical /\ ~software /\ ~faultLatched
                        /\ RequireHeartbeat =>
                             alive /\ hbAge <= HeartbeatTimeout + TickPeriod
      BY DEF PermitBacked
    <2>1. state = "NORMAL"
      BY DEF SafetyInv, TopicInv
    <2>2. ~physical /\ ~software /\ ~faultLatched
      BY <2>1 DEF SafetyInv, LatchInv, EStopMirrorsInputs, FaultHeld
    <2>3. RequireHeartbeat => alive /\ hbAge <= HeartbeatTimeout + TickPeriod
      BY <2>1, SafetyConstants DEF SafetyInv, HeartbeatInv
    <2>4. QED
      BY <2>1, <2>2, <2>3
  <1>2. QED
    BY <1>1, SafetyInvariant, PTL

-----------------------------------------------------------------------------
(* Action properties and the refinement of MotionPermit.                   *)

(* A request served in this step carries an id the cache did not hold, and *)
(* it is the newest entry of the cache.                                    *)
LEMMA ServedIsNewest ==
    ASSUME SafetyInv, NEW entry \in Entries, Remember(entry)
    PROVE  cache' # <<>> /\ cache'[Len(cache')] = entry
  <1> USE SafetyConstants DEF SafetyInv, CacheInv
  <1>1. CASE Len(cache) < CacheLimit
    BY <1>1 DEF Remember
  <1>2. CASE ~(Len(cache) < CacheLimit)
    <2>1. Tail(cache) \in Seq(Entries) /\ cache' = Append(Tail(cache), entry)
      BY <1>2 DEF Remember
    <2>2. QED
      BY <2>1
  <1>3. QED
    BY <1>1, <1>2

(* Only an event that reaches NORMAL can grant the permit, and only the    *)
(* service's RESUME dispatches it.                                         *)
LEMMA OnlyResumeReachesNormal ==
    ASSUME SafetyInv, Next, state # "NORMAL", state' = "NORMAL"
    PROVE  \E id \in RequestIds :
             OnCommand(id, "RESUME") /\ Accepted("RESUME")
  <1> USE DEF SafetyInv, LatchInv, Dispatch, Accepts, Target, latches, Quiet
  <1>1. ASSUME NEW id \in RequestIds, NEW op \in Operations, OnCommand(id, op)
        PROVE  op = "RESUME" /\ Accepted("RESUME")
    <2>1. CASE op = "ENGAGE_SOFTWARE_ESTOP" /\ EngageSoftware
      BY <2>1 DEF EngageSoftware
    <2>2. CASE op = "RELEASE_SOFTWARE_ESTOP" /\ ReleaseSoftware
      BY <2>2 DEF ReleaseSoftware
    <2>3. CASE op = "RESUME" /\ Guarded(ResumeGuard, "ResumeRequested")
      BY <2>3 DEF Guarded, Accepted
    <2>4. CASE op = "CLEAR_FAULT" /\ Guarded(ClearGuard, "ClearFault")
      BY <2>4 DEF Guarded
    <2>5. QED
      BY <1>1, <2>1, <2>2, <2>3, <2>4 DEF OnCommand
  <1>2. ASSUME NEW e \in {"StopRequested", "HealthFault"}, OnEvent(e)
        PROVE  FALSE
    BY <1>2 DEF OnEvent
  <1>3. ASSUME NEW active \in BOOLEAN, OnPhysicalEstop(active)
        PROVE  FALSE
    BY <1>3 DEF OnPhysicalEstop
  <1>4. ~OnHeartbeatAlive /\ ~OnHeartbeatDead
    BY DEF OnHeartbeatAlive, OnHeartbeatDead
  <1>5. ~Tick /\ ~Advance /\ ~Restart
    BY DEF Tick, Advance, Restart
  <1>6. QED
    BY <1>1, <1>2, <1>3, <1>4, <1>5 DEF Next, Handle

(* Motion becomes permitted only in the step that serves a new RESUME.     *)
THEOREM ResumeIsRequired == Spec => OnlyNewResumePermits
  <1>1. SafetyInv /\ SafetyInv' /\ [Next]_vars =>
          [topic'.permitted /\ ~topic.permitted => ServedNow("RESUME")]_vars
    <2> SUFFICES ASSUME SafetyInv, SafetyInv', [Next]_vars, ~UNCHANGED vars,
                        topic'.permitted, ~topic.permitted
                 PROVE  ServedNow("RESUME")
      OBVIOUS
    <2>1. state # "NORMAL" /\ state' = "NORMAL"
      BY DEF SafetyInv, TopicInv
    <2>2. PICK id \in RequestIds : OnCommand(id, "RESUME") /\ Accepted("RESUME")
      BY <2>1, OnlyResumeReachesNormal
    <2> DEFINE entry == [id |-> id, op |-> "RESUME", accepted |-> Accepted("RESUME")]
    <2>3. entry \in Entries
      BY <2>2 DEF Entries, Accepted, ResumeGuard, Accepts
    <2>4. Remember(entry) /\ id \notin CachedIds
      BY <2>2 DEF OnCommand
    <2>5. cache' # <<>> /\ cache'[Len(cache')] = entry
      BY <2>3, <2>4, ServedIsNewest
    <2>6. QED
      BY <2>2, <2>4, <2>5 DEF ServedNow
  <1>2. QED
    BY <1>1, SafetyInvariant, PTL DEF Spec, OnlyNewResumePermits

(* A fault latch opens only in a restart and in a CLEAR_FAULT it accepts.   *)
LEMMA OnlyClearOpensFault ==
    ASSUME SafetyInv, Next, faultLatched, ~faultLatched'
    PROVE  \/ \E id \in RequestIds :
                OnCommand(id, "CLEAR_FAULT") /\ Accepted("CLEAR_FAULT")
           \/ Restart
  <1> USE DEF Dispatch, Quiet, latches, LatchAfter
  <1>1. ASSUME NEW id \in RequestIds, NEW op \in Operations, OnCommand(id, op)
        PROVE  op = "CLEAR_FAULT" /\ Accepted("CLEAR_FAULT")
    <2>1. CASE op = "ENGAGE_SOFTWARE_ESTOP" /\ EngageSoftware
      BY <2>1 DEF EngageSoftware
    <2>2. CASE op = "RELEASE_SOFTWARE_ESTOP" /\ ReleaseSoftware
      BY <2>2 DEF ReleaseSoftware
    <2>3. CASE op = "RESUME" /\ Guarded(ResumeGuard, "ResumeRequested")
      BY <2>3 DEF Guarded
    <2>4. CASE op = "CLEAR_FAULT" /\ Guarded(ClearGuard, "ClearFault")
      BY <2>4 DEF Guarded, Accepted
    <2>5. QED
      BY <1>1, <2>1, <2>2, <2>3, <2>4 DEF OnCommand
  <1>2. ASSUME NEW e \in {"StopRequested", "HealthFault"}, OnEvent(e)
        PROVE  FALSE
    BY <1>2 DEF OnEvent
  <1>3. ASSUME NEW active \in BOOLEAN, OnPhysicalEstop(active)
        PROVE  FALSE
    BY <1>3 DEF OnPhysicalEstop
  <1>4. ~OnHeartbeatAlive /\ ~OnHeartbeatDead
    BY DEF OnHeartbeatAlive, OnHeartbeatDead
  <1>5. ~Tick /\ ~Advance
    BY DEF Tick, Advance
  <1>6. QED
    BY <1>1, <1>2, <1>3, <1>4, <1>5 DEF Next, Handle

(* A held fault is dropped only by a new CLEAR_FAULT, or with the process.  *)
THEOREM ClearIsRequired == Spec => OnlyClearDropsFault
  <1>1. SafetyInv /\ SafetyInv' /\ [Next]_vars =>
          [faultLatched /\ ~faultLatched' =>
             ServedNow("CLEAR_FAULT") \/ boot' # boot]_vars
    <2> SUFFICES ASSUME SafetyInv, SafetyInv', [Next]_vars, ~UNCHANGED vars,
                        faultLatched, ~faultLatched'
                 PROVE  ServedNow("CLEAR_FAULT") \/ boot' # boot
      OBVIOUS
    <2>1. CASE Restart
      BY <2>1 DEF Restart, SafetyInv, TypeOK
    <2>2. CASE \E id \in RequestIds :
                 OnCommand(id, "CLEAR_FAULT") /\ Accepted("CLEAR_FAULT")
      <3>1. PICK id \in RequestIds :
                   OnCommand(id, "CLEAR_FAULT") /\ Accepted("CLEAR_FAULT")
        BY <2>2
      <3> DEFINE entry == [id |-> id, op |-> "CLEAR_FAULT",
                           accepted |-> Accepted("CLEAR_FAULT")]
      <3>2. entry \in Entries
        BY <3>1 DEF Entries, Accepted, ClearGuard, Accepts
      <3>3. Remember(entry) /\ id \notin CachedIds
        BY <3>1 DEF OnCommand
      <3>4. cache' # <<>> /\ cache'[Len(cache')] = entry
        BY <3>2, <3>3, ServedIsNewest
      <3>5. QED
        BY <3>1, <3>3, <3>4 DEF ServedNow
    <2>3. QED
      BY <2>1, <2>2, OnlyClearOpensFault
  <1>2. QED
    BY <1>1, SafetyInvariant, PTL DEF Spec, OnlyClearDropsFault

(* How one step moves the two latches: at most one of them, unless the     *)
(* process restarts, and never a fault under an E-stop.                    *)
LatchMove ==
    \/ UNCHANGED <<state, faultLatched>>
    \/ state' = "E_STOP_LATCHED" /\ faultLatched' = faultLatched
    \/ state' = "E_STOP_LATCHED" /\ state = "E_STOP_LATCHED" /\ faultLatched'
    \/ state # "E_STOP_LATCHED" /\ state' = "FAULT" /\ faultLatched'
    \/ state = "E_STOP_LATCHED" /\ state' \in {"FAULT", "CONTROLLED_STOP"}
         /\ faultLatched' = faultLatched
    \/ state \in {"FAULT", "CONTROLLED_STOP", "INITIALIZING", "NORMAL"}
         /\ state' = "CONTROLLED_STOP" /\ ~faultLatched'
    \/ state = "CONTROLLED_STOP" /\ state' = "NORMAL" /\ faultLatched' = faultLatched

LEMMA EventMovesLatches ==
    ASSUME LatchInv, NEW e \in Events, Dispatch(e)
    PROVE  LatchMove
  <1>1. CASE ~Accepts(e)
    BY <1>1 DEF Dispatch, latches, LatchMove
  <1>2. CASE Accepts(e)
    <2>1. state' = Target(e) /\ faultLatched' = LatchAfter(e)
      BY <1>2 DEF Dispatch
    <2>2. CASE e = "EmergencyStopEngaged"
      BY <2>1, <2>2 DEF Target, LatchAfter, LatchMove, LatchInv, FaultHeld
    <2>3. CASE e = "HealthFault"
      BY <2>1, <2>3 DEF Target, LatchAfter, LatchMove, LatchInv
    <2>4. CASE e = "EmergencyStopReleased"
      BY <1>2, <2>1, <2>4 DEF Accepts, Target, LatchAfter, LatchMove, LatchInv
    <2>5. CASE e = "ResumeRequested"
      BY <1>2, <2>1, <2>5 DEF Accepts, Target, LatchAfter, LatchMove, LatchInv
    <2>6. CASE e = "ClearFault"
      BY <1>2, <2>1, <2>6 DEF Accepts, Target, LatchAfter, LatchMove
    <2>7. CASE e \in {"InputsReady", "StopRequested", "LinkLost", "WatchdogTimeout"}
      <3>1. state \in {"INITIALIZING", "CONTROLLED_STOP", "NORMAL"} /\ ~faultLatched
        BY <1>2, <2>7 DEF Accepts, LatchInv, FaultHeld
      <3>2. state' = "CONTROLLED_STOP" /\ faultLatched' = faultLatched
        BY <2>1, <2>7 DEF Target, LatchAfter
      <3>3. QED
        BY <3>1, <3>2 DEF LatchMove
    <2>8. QED
      BY <2>2, <2>3, <2>4, <2>5, <2>6, <2>7 DEF Events
  <1>3. QED
    BY <1>1, <1>2

LEMMA HandlersMoveLatches ==
    ASSUME SafetyInv, Handle
    PROVE  LatchMove
  <1> USE EventMovesLatches DEF SafetyInv
  <1>1. ASSUME Quiet
        PROVE  LatchMove
    BY <1>1 DEF Quiet, latches, LatchMove
  <1>2. ASSUME NEW id \in RequestIds, NEW op \in Operations, OnCommand(id, op)
        PROVE  LatchMove
    BY <1>1, <1>2 DEF OnCommand, EngageSoftware, ReleaseSoftware, Guarded, Events
  <1>3. ASSUME NEW e \in {"StopRequested", "HealthFault"}, OnEvent(e)
        PROVE  LatchMove
    BY <1>3 DEF OnEvent, Events
  <1>4. ASSUME NEW active \in BOOLEAN, OnPhysicalEstop(active)
        PROVE  LatchMove
    BY <1>1, <1>4 DEF OnPhysicalEstop, Events
  <1>5. CASE OnHeartbeatAlive \/ OnHeartbeatDead
    BY <1>1, <1>5 DEF OnHeartbeatAlive, OnHeartbeatDead, Events
  <1>6. CASE Tick
    <2>1. CASE WatchdogExpired /\ Accepts("WatchdogTimeout")
      <3>1. state' = "CONTROLLED_STOP" /\ faultLatched' = faultLatched
        BY <1>6, <2>1 DEF Tick, Target, LatchAfter
      <3>2. state \in {"CONTROLLED_STOP", "NORMAL"} /\ ~faultLatched
        BY <2>1 DEF Accepts, LatchInv, FaultHeld
      <3>3. QED
        BY <3>1, <3>2 DEF LatchMove
    <2>2. CASE ~(WatchdogExpired /\ Accepts("WatchdogTimeout"))
      BY <1>6, <2>2 DEF Tick, latches, LatchMove
    <2>3. QED
      BY <2>1, <2>2
  <1>7. CASE Advance
    BY <1>7 DEF Advance, latches, LatchMove
  <1>8. QED
    BY <1>2, <1>3, <1>4, <1>5, <1>6, <1>7 DEF Handle

(* A step of the node is a step of the two-latch permit, or a stutter.     *)
LEMMA StepImplementsPermit ==
    ASSUME SafetyInv, SafetyInv', [Next]_vars
    PROVE  [Permit!Next]_<<topic.permitted, Holds, boot>>
  <1> USE DEF Permit!Next, Permit!Decide, Permit!Grant, Permit!Withdraw, Permit!Hold,
              Permit!LiftEStop, Permit!LiftFault, Permit!Forget
  <1>1. /\ topic.permitted = (state = "NORMAL")
        /\ topic'.permitted = (state' = "NORMAL")
        /\ state = "NORMAL" => ~faultLatched
        /\ state' = "NORMAL" => ~faultLatched'
        /\ state = "E_STOP_LATCHED" => ~topic.permitted
    BY DEF SafetyInv, TopicInv, LatchInv, FaultHeld
  <1>2. CASE Restart
    <2>1. state' # "NORMAL" /\ state' # "E_STOP_LATCHED" /\ ~faultLatched' /\ boot' = ~boot
      BY <1>2 DEF Restart
    <2>2. Holds' = {}
      BY <2>1 DEF Holds
    <2>3. QED
      BY <1>1, <2>1, <2>2
  <1>3. CASE Handle /\ UNCHANGED boot
    <2>1. LatchMove
      BY <1>3, HandlersMoveLatches
    <2>2. CASE UNCHANGED <<state, faultLatched>>
      BY <1>1, <1>3, <2>2 DEF Holds
    <2>3. CASE state' = "E_STOP_LATCHED" /\ faultLatched' = faultLatched
      <3>1. Holds' = Holds \cup {"estop"}
        BY <2>3 DEF Holds
      <3>2. QED
        BY <1>1, <1>3, <2>3, <3>1
    <2>4. CASE /\ faultLatched'
               /\ \/ state' = "E_STOP_LATCHED" /\ state = "E_STOP_LATCHED"
                  \/ state # "E_STOP_LATCHED" /\ state' = "FAULT"
      <3>1. Holds' = Holds \cup {"fault"}
        BY <2>4 DEF Holds
      <3>2. QED
        BY <1>1, <1>3, <2>4, <3>1
    <2>5. CASE /\ state = "E_STOP_LATCHED" /\ state' \in {"FAULT", "CONTROLLED_STOP"}
               /\ faultLatched' = faultLatched
      <3>1. Holds' = Holds \ {"estop"}
        BY <2>5 DEF Holds
      <3>2. UNCHANGED topic.permitted
        BY <1>1, <2>5
      <3>3. QED
        BY <1>3, <3>1, <3>2
    <2>6. CASE /\ state \in {"FAULT", "CONTROLLED_STOP", "INITIALIZING", "NORMAL"}
               /\ state' = "CONTROLLED_STOP" /\ ~faultLatched'
      <3>1. Holds' = {} /\ "estop" \notin Holds
        BY <2>6 DEF Holds
      <3>2. CASE state = "FAULT"
        BY <1>1, <1>3, <2>6, <3>1, <3>2
      <3>3. CASE state # "FAULT"
        <4>1. Holds = {}
          BY <2>6, <3>3 DEF Holds, SafetyInv, LatchInv, FaultHeld
        <4>2. QED
          BY <1>1, <1>3, <2>6, <3>1, <4>1
      <3>4. QED
        BY <3>2, <3>3
    <2>7. CASE /\ state = "CONTROLLED_STOP" /\ state' = "NORMAL"
               /\ faultLatched' = faultLatched
      <3>1. Holds = {} /\ Holds' = {}
        BY <1>1, <2>7 DEF Holds
      <3>2. topic'.permitted = TRUE
        BY <1>1, <2>7
      <3>3. QED
        BY <1>3, <3>1, <3>2
    <2>8. QED
      BY <2>1, <2>2, <2>3, <2>4, <2>5, <2>6, <2>7 DEF LatchMove
  <1>4. CASE UNCHANGED vars
    BY <1>4 DEF vars, Holds
  <1>5. QED
    BY <1>2, <1>3, <1>4 DEF Next

(* safety_manager implements the two-latch permit.                         *)
THEOREM PermitRefinement == Spec => ImplementsPermit
  <1>1. Init => Permit!Init
    <2> SUFFICES ASSUME Init
                 PROVE  Permit!Init
      OBVIOUS
    <2>1. SafetyInv
      BY InitEstablishesInv
    <2>2. state \in {"INITIALIZING", "CONTROLLED_STOP"} /\ ~faultLatched /\ boot = FALSE
      BY DEF Init
    <2>3. topic.permitted = FALSE
      BY <2>1, <2>2 DEF SafetyInv, TopicInv
    <2>4. Holds = {}
      BY <2>2 DEF Holds
    <2>5. QED
      BY <2>2, <2>3, <2>4 DEF Permit!Init
  <1>2. SafetyInv /\ SafetyInv' /\ [Next]_vars =>
          [Permit!Next]_<<topic.permitted, Holds, boot>>
    BY StepImplementsPermit
  <1>3. QED
    BY <1>1, <1>2, SafetyInvariant, PTL DEF Spec, ImplementsPermit, Permit!Spec

=============================================================================
