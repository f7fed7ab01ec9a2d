---------------------------- MODULE SafetyManager ----------------------------
(***************************************************************************)
(* The safety_manager node: the safety state machine, the two E-stop       *)
(* inputs, the external-heartbeat watchdog, the command service with its   *)
(* bounded idempotency cache and the latched /safety/state topic.          *)
(*                                                                         *)
(* One callback runs at a time (a single-threaded executor), so a handler  *)
(* is one action.  Time is counted in watchdog units: Advance moves the    *)
(* clock and Tick is the node's own periodic timer, which the executor     *)
(* serves at least once per TickPeriod.                                    *)
(*                                                                         *)
(* Source texts (operator id, reason and detail strings) are left out; a   *)
(* cached response is represented by the request it answers.               *)
(***************************************************************************)
EXTENDS Integers, Sequences

CONSTANTS
    RequestIds,         \* non-empty request ids clients may send, and resend
    CacheLimit,         \* responses remembered (128 in the code)
    HeartbeatTimeout,   \* heartbeat_timeout_ms
    TickPeriod,         \* period of the node's timer (50 ms)
    RequireHeartbeat    \* require_external_heartbeat

ASSUME SafetyConstants ==
    /\ CacheLimit \in Nat \ {0}
    /\ HeartbeatTimeout \in Nat
    /\ TickPeriod \in Nat \ {0}
    /\ RequireHeartbeat \in BOOLEAN

SafetyStates ==
    {"INITIALIZING", "CONTROLLED_STOP", "NORMAL", "E_STOP_LATCHED", "FAULT"}

Events ==
    {"InputsReady", "StopRequested", "LinkLost", "WatchdogTimeout", "HealthFault",
     "EmergencyStopEngaged", "EmergencyStopReleased", "ClearFault", "ResumeRequested"}

Operations ==
    {"ENGAGE_SOFTWARE_ESTOP", "RELEASE_SOFTWARE_ESTOP", "RESUME", "CLEAR_FAULT"}

VARIABLES
    state,          \* fsm_.state()
    faultLatched,   \* fault_latched_
    physical,       \* physical_estop_active_
    software,       \* software_estop_active_
    alive,          \* heartbeat_alive_
    hbAge,          \* time since last_heartbeat_
    tickAge,        \* time since the timer last ran
    cache,          \* command_order_ with its responses, oldest first
    topic,          \* the sample /safety/state holds (depth 1, transient local)
    boot            \* which run of the process this is, as a bit

latches == <<state, faultLatched>>
inputs == <<physical, software>>
clocks == <<hbAge, tickAge>>
vars == <<state, faultLatched, physical, software, alive, hbAge, tickAge, cache, topic, boot>>

Entries == [id : RequestIds, op : Operations, accepted : BOOLEAN]
Messages == [state : SafetyStates, permitted : BOOLEAN,
             physical : BOOLEAN, software : BOOLEAN]

CachedIds == {cache[i].id : i \in DOMAIN cache}

MessageFor(s, p, w) ==
    [state |-> s, permitted |-> s = "NORMAL", physical |-> p, software |-> w]

Publish == topic' = MessageFor(state', physical', software')

-----------------------------------------------------------------------------
(* The state machine.                                                      *)

Accepts(e) ==
    \/ e \in {"EmergencyStopEngaged", "HealthFault"}
    \/ state = "E_STOP_LATCHED" /\ e = "EmergencyStopReleased"
    \/ state = "INITIALIZING" /\ e = "InputsReady"
    \/ state = "CONTROLLED_STOP" /\ e = "ResumeRequested"
    \/ state = "FAULT" /\ e = "ClearFault"
    \/ /\ state \in {"CONTROLLED_STOP", "NORMAL"}
       /\ e \in {"StopRequested", "LinkLost", "WatchdogTimeout"}

\* Wrong variant: a release forgets the fault it was hiding.
TargetForgetsFault(e) ==
    CASE e = "EmergencyStopEngaged" -> "E_STOP_LATCHED"
      [] e = "HealthFault" -> IF state = "E_STOP_LATCHED" THEN "E_STOP_LATCHED" ELSE "FAULT"
      [] e = "ResumeRequested" -> "NORMAL"
      [] OTHER -> "CONTROLLED_STOP"

\* Wrong variant: a release goes straight back to NORMAL.
TargetResumesOnRelease(e) ==
    CASE e = "EmergencyStopEngaged" -> "E_STOP_LATCHED"
      [] e = "HealthFault" -> IF state = "E_STOP_LATCHED" THEN "E_STOP_LATCHED" ELSE "FAULT"
      [] e = "EmergencyStopReleased" -> IF faultLatched THEN "FAULT" ELSE "NORMAL"
      [] e = "ResumeRequested" -> "NORMAL"
      [] OTHER -> "CONTROLLED_STOP"

Target(e) ==
    CASE e = "EmergencyStopEngaged" -> "E_STOP_LATCHED"
      [] e = "HealthFault" -> IF state = "E_STOP_LATCHED" THEN "E_STOP_LATCHED" ELSE "FAULT"
      [] e = "EmergencyStopReleased" -> IF faultLatched THEN "FAULT" ELSE "CONTROLLED_STOP"
      [] e = "ResumeRequested" -> "NORMAL"
      [] OTHER -> "CONTROLLED_STOP"

\* Wrong variant: leaving the E-stop clears the latch.
LatchAfterReleaseClears(e) ==
    CASE e = "HealthFault" -> TRUE
      [] e = "EmergencyStopEngaged" -> faultLatched \/ state = "FAULT"
      [] e \in {"ClearFault", "EmergencyStopReleased"} -> FALSE
      [] OTHER -> faultLatched

LatchAfter(e) ==
    CASE e = "HealthFault" -> TRUE
      [] e = "EmergencyStopEngaged" -> faultLatched \/ state = "FAULT"
      [] e = "ClearFault" -> FALSE
      [] OTHER -> faultLatched

\* An accepted event moves the machine and publishes; a rejected one is dropped.
Dispatch(e) ==
    IF Accepts(e)
    THEN state' = Target(e) /\ faultLatched' = LatchAfter(e) /\ Publish
    ELSE UNCHANGED <<latches, topic>>

Quiet == UNCHANGED <<latches, topic>>

-----------------------------------------------------------------------------
(* The /safety/command service.                                            *)

Remember(entry) ==
    cache' = IF Len(cache) < CacheLimit
             THEN Append(cache, entry)
             ELSE Append(Tail(cache), entry)

EngageSoftware ==
    /\ software' = TRUE
    /\ Dispatch("EmergencyStopEngaged")

\* Releasing outside E_STOP_LATCHED is accepted and only clears the flag.
ReleaseSoftware ==
    /\ software' = FALSE
    /\ IF ~physical /\ state = "E_STOP_LATCHED"
       THEN Dispatch("EmergencyStopReleased")
       ELSE Quiet

ResumeGuard == (RequireHeartbeat => alive) /\ ~physical /\ ~software

ClearGuard == ~physical /\ ~software

\* A guard that fails leaves the state alone, and so does a rejected event.
Guarded(guard, e) ==
    /\ UNCHANGED software
    /\ IF guard THEN Dispatch(e) ELSE Quiet

Accepted(op) ==
    CASE op = "ENGAGE_SOFTWARE_ESTOP" -> TRUE
      [] op = "RELEASE_SOFTWARE_ESTOP" -> ~physical
      [] op = "RESUME" -> ResumeGuard /\ Accepts("ResumeRequested")
      [] op = "CLEAR_FAULT" -> ClearGuard /\ Accepts("ClearFault")

\* Wrong variant: a retry is executed again.
OnCommandWithoutCache(id, op) ==
    /\ UNCHANGED <<physical, alive, clocks>>
    /\ \/ op = "ENGAGE_SOFTWARE_ESTOP" /\ EngageSoftware
       \/ op = "RELEASE_SOFTWARE_ESTOP" /\ ReleaseSoftware
       \/ op = "RESUME" /\ Guarded(ResumeGuard, "ResumeRequested")
       \/ op = "CLEAR_FAULT" /\ Guarded(ClearGuard, "ClearFault")
    /\ Remember([id |-> id, op |-> op, accepted |-> Accepted(op)])

\* A request whose id is still cached is answered from the cache and does
\* nothing else: that retry is a stuttering step, as an empty id is.
OnCommand(id, op) ==
    /\ id \notin CachedIds
    /\ UNCHANGED <<physical, alive, clocks>>
    /\ \/ op = "ENGAGE_SOFTWARE_ESTOP" /\ EngageSoftware
       \/ op = "RELEASE_SOFTWARE_ESTOP" /\ ReleaseSoftware
       \/ op = "RESUME" /\ Guarded(ResumeGuard, "ResumeRequested")
       \/ op = "CLEAR_FAULT" /\ Guarded(ClearGuard, "ClearFault")
    /\ Remember([id |-> id, op |-> op, accepted |-> Accepted(op)])

-----------------------------------------------------------------------------
(* Topics the node subscribes to, and its timer.                           *)

OnEvent(e) ==
    /\ UNCHANGED <<inputs, alive, clocks, cache>>
    /\ Dispatch(e)

\* Wrong variant: the physical release ignores the software E-stop.
OnPhysicalEstopAlone(active) ==
    /\ physical' = active
    /\ UNCHANGED <<software, alive, clocks, cache>>
    /\ IF active THEN Dispatch("EmergencyStopEngaged")
       ELSE IF state = "E_STOP_LATCHED" THEN Dispatch("EmergencyStopReleased")
       ELSE Quiet

OnPhysicalEstop(active) ==
    /\ physical' = active
    /\ UNCHANGED <<software, alive, clocks, cache>>
    /\ IF active \/ software THEN Dispatch("EmergencyStopEngaged")
       ELSE IF state = "E_STOP_LATCHED" THEN Dispatch("EmergencyStopReleased")
       ELSE Quiet

OnHeartbeatAlive ==
    /\ alive' = TRUE
    /\ hbAge' = 0
    /\ UNCHANGED <<inputs, tickAge, cache>>
    /\ IF state = "INITIALIZING" THEN Dispatch("InputsReady") ELSE Quiet

OnHeartbeatDead ==
    /\ alive' = FALSE
    /\ UNCHANGED <<inputs, clocks, cache>>
    /\ IF alive THEN Dispatch("LinkLost") ELSE Quiet

\* Wrong variant: the watchdog fires a timer period late.
WatchdogExpiredLate ==
    RequireHeartbeat /\ alive /\ hbAge > HeartbeatTimeout + TickPeriod

WatchdogExpired == RequireHeartbeat /\ alive /\ hbAge > HeartbeatTimeout

\* The timer checks the watchdog and republishes the state every time.
Tick ==
    /\ IF WatchdogExpired /\ Accepts("WatchdogTimeout")
       THEN state' = Target("WatchdogTimeout") /\ faultLatched' = LatchAfter("WatchdogTimeout")
       ELSE UNCHANGED latches
    /\ alive' = (alive /\ ~WatchdogExpired)
    /\ tickAge' = 0
    /\ UNCHANGED <<inputs, hbAge, cache>>
    /\ Publish

\* Time passes; the timer is never more than TickPeriod late.  The heartbeat
\* age stops growing one unit after the watchdog must have seen it.
Advance ==
    /\ tickAge < TickPeriod
    /\ tickAge' = tickAge + 1
    /\ hbAge' = IF hbAge <= HeartbeatTimeout + TickPeriod THEN hbAge + 1 ELSE hbAge
    /\ UNCHANGED <<latches, inputs, alive, cache, topic>>

\* The process dies and is started again: nothing it knew survives.
Restart ==
    /\ state' = IF RequireHeartbeat THEN "INITIALIZING" ELSE "CONTROLLED_STOP"
    /\ faultLatched' = FALSE
    /\ physical' = FALSE /\ software' = FALSE /\ alive' = FALSE
    /\ hbAge' = 0 /\ tickAge' = 0
    /\ cache' = <<>>
    /\ Publish
    /\ boot' = ~boot

Init ==
    /\ state = IF RequireHeartbeat THEN "INITIALIZING" ELSE "CONTROLLED_STOP"
    /\ faultLatched = FALSE
    /\ physical = FALSE /\ software = FALSE /\ alive = FALSE
    /\ hbAge = 0 /\ tickAge = 0
    /\ cache = <<>>
    /\ topic = MessageFor(state, physical, software)
    /\ boot = FALSE

Handle ==
    \/ \E id \in RequestIds, op \in Operations : OnCommand(id, op)
    \/ \E e \in {"StopRequested", "HealthFault"} : OnEvent(e)
    \/ \E active \in BOOLEAN : OnPhysicalEstop(active)
    \/ OnHeartbeatAlive
    \/ OnHeartbeatDead
    \/ Tick
    \/ Advance

Next ==
    \/ Handle /\ UNCHANGED boot
    \/ Restart

Spec == Init /\ [][Next]_vars

-----------------------------------------------------------------------------
(* Properties.                                                             *)

\* Types of every variable of the node.
TypeOK ==
    /\ state \in SafetyStates
    /\ faultLatched \in BOOLEAN
    /\ physical \in BOOLEAN /\ software \in BOOLEAN /\ alive \in BOOLEAN
    /\ hbAge \in Nat
    /\ tickAge \in 0..TickPeriod
    /\ cache \in Seq(Entries) /\ Len(cache) <= CacheLimit
    /\ topic \in Messages
    /\ boot \in BOOLEAN

\* The machine is in E_STOP_LATCHED exactly while one of the two E-stop inputs
\* is engaged: no order of engage, release, fault, clear and resume leaves the
\* latch without an input, or an input without the latch.
EStopMirrorsInputs == state = "E_STOP_LATCHED" <=> physical \/ software

\* A health fault is never forgotten: it is held in FAULT, or under an E-stop
\* from which only FAULT is reachable, and nothing else holds a fault.
FaultHeld ==
    /\ state = "FAULT" => faultLatched
    /\ faultLatched => state \in {"FAULT", "E_STOP_LATCHED"}

\* While the topic permits motion, no E-stop input and no fault stands, and the
\* external heartbeat was alive within its timeout plus one timer period.
PermitBacked ==
    topic.permitted =>
        /\ state = "NORMAL"
        /\ ~physical /\ ~software /\ ~faultLatched
        /\ RequireHeartbeat => alive /\ hbAge <= HeartbeatTimeout + TickPeriod

\* A request with a fresh id, served and accepted in this step.
ServedNow(op) ==
    LET last == cache'[Len(cache')]
    IN  /\ cache' # <<>>
        /\ last.op = op /\ last.accepted /\ last.id \notin CachedIds

\* Motion becomes permitted only in the step that serves a new RESUME: release,
\* clear, a restored link, a restart or a resent RESUME never permits it.
OnlyNewResumePermits ==
    [][topic'.permitted /\ ~topic.permitted => ServedNow("RESUME")]_vars

\* A held fault is dropped only by a new CLEAR_FAULT, or with the process.
OnlyClearDropsFault ==
    [][faultLatched /\ ~faultLatched' => ServedNow("CLEAR_FAULT") \/ boot' # boot]_vars

-----------------------------------------------------------------------------
(* The permit the node promises to the rest of the robot.                  *)

Holds ==
    {h \in {"estop", "fault"} :
        IF h = "estop" THEN state = "E_STOP_LATCHED" ELSE faultLatched}

Permit == INSTANCE MotionPermit WITH permitted <- topic.permitted, holds <- Holds, life <- boot

\* The node implements the two-latch permit of MotionPermit.
ImplementsPermit == Permit!Spec
=============================================================================
