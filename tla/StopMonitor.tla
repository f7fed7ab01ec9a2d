----------------------------- MODULE StopMonitor -----------------------------
(***************************************************************************)
(* base_motion_monitor: the BaseStopDetector, fed by the final command and *)
(* the measured velocity of the base, and the timer that asks it whether   *)
(* the base has stopped and publishes the answer on /motion/stopped.       *)
(*                                                                         *)
(* A command is zero or not and a velocity is within its thresholds or     *)
(* not.  An input never received is as old as one that timed out: the      *)
(* detector treats both alike.                                             *)
(***************************************************************************)
EXTENDS Integers

CONSTANTS
    CommandTimeout,   \* command_timeout_ms
    OdometryTimeout,  \* odometry_timeout_ms
    SettleTime,       \* settle_time_ms
    TickPeriod        \* the timer's period, 1 / output_hz

ASSUME MonitorConstants ==
    /\ CommandTimeout \in Nat /\ OdometryTimeout \in Nat
    /\ SettleTime \in Nat
    /\ TickPeriod \in Nat \ {0}

VARIABLES
    zero, commandAge,         \* command_zero_, time since last_command_
    slow, odometryAge,        \* both speeds within thresholds, time since last_odometry_
    candidate, candidateAge,  \* whether candidate_since_ is set, and for how long
    tickAge,                  \* time since the timer last ran
    stopped,                  \* the last MotionStopped published
    quietFor                  \* history: time since a sample last showed motion

inputs == <<zero, commandAge, slow, odometryAge>>
settling == <<candidate, candidateAge>>
vars == <<inputs, settling, tickAge, stopped, quietFor>>

Conditions ==
    /\ zero /\ commandAge <= CommandTimeout
    /\ slow /\ odometryAge <= OdometryTimeout

\* Ages stop growing one unit after the last value a guard tells apart.
Older(age, limit) == IF age <= limit THEN age + 1 ELSE age

\* Wrong variant: the candidate is dropped and its time kept.
NoCandidateKeepsTime == candidate' = FALSE /\ UNCHANGED candidateAge

NoCandidate == candidate' = FALSE /\ candidateAge' = 0

\* Wrong variant: a command other than zero leaves the candidate standing.
OnCommandKeepsCandidate(isZero) ==
    /\ zero' = isZero /\ commandAge' = 0
    /\ UNCHANGED <<slow, odometryAge, settling, tickAge, stopped>>
    /\ quietFor' = IF isZero THEN quietFor ELSE 0

OnCommand(isZero) ==
    /\ zero' = isZero /\ commandAge' = 0
    /\ IF isZero THEN UNCHANGED settling ELSE NoCandidate
    /\ UNCHANGED <<slow, odometryAge, tickAge, stopped>>
    /\ quietFor' = IF isZero THEN quietFor ELSE 0

OnOdometry(isSlow) ==
    /\ slow' = isSlow /\ odometryAge' = 0
    /\ IF isSlow THEN UNCHANGED settling ELSE NoCandidate
    /\ UNCHANGED <<zero, commandAge, tickAge, stopped>>
    /\ quietFor' = IF isSlow THEN quietFor ELSE 0

\* Wrong variant: every tick starts settling anew.
SettleAnew ==
    /\ candidate' = TRUE /\ candidateAge' = 0
    /\ stopped' = (SettleTime = 0)

Settle ==
    IF candidate
    THEN stopped' = (candidateAge >= SettleTime) /\ UNCHANGED settling
    ELSE stopped' = (SettleTime = 0) /\ candidate' = TRUE /\ candidateAge' = 0

Tick ==
    /\ tickAge' = 0
    /\ IF Conditions THEN Settle ELSE NoCandidate /\ stopped' = FALSE
    /\ UNCHANGED <<inputs, quietFor>>

\* The timer is never more than TickPeriod late.
Advance ==
    /\ tickAge < TickPeriod
    /\ tickAge' = tickAge + 1
    /\ commandAge' = Older(commandAge, CommandTimeout)
    /\ odometryAge' = Older(odometryAge, OdometryTimeout)
    /\ candidateAge' = IF candidate THEN Older(candidateAge, SettleTime) ELSE 0
    /\ quietFor' = Older(quietFor, SettleTime)
    /\ UNCHANGED <<zero, slow, candidate, stopped>>

Init ==
    /\ zero = FALSE /\ commandAge = CommandTimeout + 1
    /\ slow = TRUE /\ odometryAge = OdometryTimeout + 1
    /\ candidate = FALSE /\ candidateAge = 0
    /\ tickAge = 0
    /\ stopped = FALSE
    /\ quietFor = 0

Observe ==
    \/ \E isZero \in BOOLEAN : OnCommand(isZero)
    \/ \E isSlow \in BOOLEAN : OnOdometry(isSlow)

Next ==
    \/ Observe
    \/ Tick
    \/ Advance

Spec == Init /\ [][Next]_vars

\* Time passes and the timer is served.
FairSpec == Spec /\ WF_vars(Tick) /\ WF_vars(Advance)

-----------------------------------------------------------------------------
(* Properties.                                                             *)

\* Types of every variable.
TypeOK ==
    /\ zero \in BOOLEAN /\ slow \in BOOLEAN
    /\ candidate \in BOOLEAN /\ stopped \in BOOLEAN
    /\ commandAge \in 0..(CommandTimeout + 1)
    /\ odometryAge \in 0..(OdometryTimeout + 1)
    /\ candidateAge \in 0..(SettleTime + 1) /\ (candidate \/ candidateAge = 0)
    /\ tickAge \in 0..TickPeriod
    /\ quietFor \in 0..(SettleTime + 1)

\* The monitor reports a stop only when both inputs are fresh and say so now, and
\* no sample has shown motion for the whole settling time, however commands and
\* velocities interleave with the ticks.
StopIsSettled ==
    [][Tick /\ stopped' => Conditions /\ quietFor >= SettleTime]_vars

\* A base whose inputs stay fresh and still is reported stopped in the end.
StopIsReported == (<>[]Conditions) => <>[]stopped
=============================================================================
