-------------------------- MODULE StopMonitorProofs --------------------------
(***************************************************************************)
(* Proofs about base_motion_monitor, for every timeout, settling time and  *)
(* timer period.                                                           *)
(***************************************************************************)
EXTENDS StopMonitor, TLAPS

(* A standing candidate is no older than the last sample that showed       *)
(* motion: every such sample drops it.                                     *)
CandidateInv == candidate => candidateAge <= quietFor

MonitorInv == TypeOK /\ CandidateInv

USE MonitorConstants

LEMMA OlderStays ==
    ASSUME NEW limit \in Nat, NEW age \in 0..(limit + 1)
    PROVE  Older(age, limit) \in 0..(limit + 1)
  BY DEF Older

LEMMA OlderKeepsOrder ==
    ASSUME NEW limit \in Nat, NEW a \in 0..(limit + 1), NEW b \in 0..(limit + 1), a <= b
    PROVE  Older(a, limit) <= Older(b, limit)
  BY DEF Older

(* TypeOK in two parts, what is true or false and what is a number.        *)
Flags == zero \in BOOLEAN /\ slow \in BOOLEAN /\ candidate \in BOOLEAN /\ stopped \in BOOLEAN

Ages ==
    /\ commandAge \in 0..(CommandTimeout + 1)
    /\ odometryAge \in 0..(OdometryTimeout + 1)
    /\ candidateAge \in 0..(SettleTime + 1)
    /\ tickAge \in 0..TickPeriod
    /\ quietFor \in 0..(SettleTime + 1)

LEMMA TypeParts == TypeOK <=> Flags /\ Ages /\ (candidate \/ candidateAge = 0)
  BY Zenon DEF TypeOK, Flags, Ages

LEMMA InitEstablishesInv == Init => MonitorInv
  <1> SUFFICES ASSUME Init PROVE MonitorInv
    OBVIOUS
  <1>1. Flags /\ ~candidate
    BY Zenon DEF Init, Flags
  <1>2. Ages /\ candidateAge = 0
    BY DEF Init, Ages
  <1>3. QED
    BY <1>1, <1>2, TypeParts, Zenon DEF MonitorInv, CandidateInv

(* What dropping the candidate and keeping it do to the invariant.         *)
LEMMA DroppedCandidate ==
    ASSUME NoCandidate
    PROVE  /\ candidate' \in BOOLEAN /\ ~candidate' /\ candidateAge' = 0
           /\ CandidateInv'
  BY Zenon DEF NoCandidate, CandidateInv

LEMMA CommandKeepsInv ==
    ASSUME MonitorInv, NEW isZero \in BOOLEAN, OnCommand(isZero)
    PROVE  MonitorInv'
  <1> USE DEF MonitorInv
  <1>1. Flags'
    BY TypeParts, DroppedCandidate, Zenon DEF OnCommand, Flags, settling
  <1>2. candidateAge' \in {0, candidateAge}
    BY DroppedCandidate, Zenon DEF OnCommand, settling
  <1>3. quietFor' \in {0, quietFor}
    BY Zenon DEF OnCommand
  <1>4. Ages'
    BY <1>2, <1>3, TypeParts DEF OnCommand, Ages
  <1>5. (candidate' \/ candidateAge' = 0) /\ CandidateInv'
    <2>1. CASE isZero
      BY <2>1, TypeParts, Zenon DEF OnCommand, CandidateInv, settling
    <2>2. CASE ~isZero
      BY <2>2, DroppedCandidate, Zenon DEF OnCommand
    <2>3. QED
      BY <2>1, <2>2
  <1>6. QED
    BY <1>1, <1>4, <1>5, Zenon DEF TypeOK, Flags, Ages

LEMMA OdometryKeepsInv ==
    ASSUME MonitorInv, NEW isSlow \in BOOLEAN, OnOdometry(isSlow)
    PROVE  MonitorInv'
  <1> USE DEF MonitorInv
  <1>1. Flags'
    BY TypeParts, DroppedCandidate, Zenon DEF OnOdometry, Flags, settling
  <1>2. candidateAge' \in {0, candidateAge}
    BY DroppedCandidate, Zenon DEF OnOdometry, settling
  <1>3. quietFor' \in {0, quietFor}
    BY Zenon DEF OnOdometry
  <1>4. Ages'
    BY <1>2, <1>3, TypeParts DEF OnOdometry, Ages
  <1>5. (candidate' \/ candidateAge' = 0) /\ CandidateInv'
    <2>1. CASE isSlow
      BY <2>1, TypeParts, Zenon DEF OnOdometry, CandidateInv, settling
    <2>2. CASE ~isSlow
      BY <2>2, DroppedCandidate, Zenon DEF OnOdometry
    <2>3. QED
      BY <2>1, <2>2
  <1>6. QED
    BY <1>1, <1>4, <1>5, Zenon DEF TypeOK, Flags, Ages

(* A candidate that starts now, and one that goes on.                      *)
LEMMA SettleEffect ==
    ASSUME MonitorInv, Settle
    PROVE  /\ candidate' \in BOOLEAN /\ candidate' /\ stopped' \in BOOLEAN
           /\ candidateAge' \in {0, candidateAge}
           /\ candidateAge' = 0 \/ (candidate /\ candidateAge' = candidateAge)
           /\ stopped' => SettleTime = 0 \/ (candidate /\ candidateAge >= SettleTime)
  <1>1. candidate \in BOOLEAN
    BY TypeParts, Zenon DEF MonitorInv, Flags
  <1>2. (SettleTime = 0) \in BOOLEAN /\ (candidateAge >= SettleTime) \in BOOLEAN
    OBVIOUS
  <1>3. CASE candidate
    BY <1>1, <1>2, <1>3, Zenon DEF Settle, settling
  <1>4. CASE ~candidate
    BY <1>2, <1>4, Zenon DEF Settle
  <1>5. QED
    BY <1>3, <1>4

LEMMA TickKeepsInv ==
    ASSUME MonitorInv, Tick
    PROVE  MonitorInv'
  <1> USE DEF MonitorInv
  <1>1. zero' = zero /\ slow' = slow /\ commandAge' = commandAge
        /\ odometryAge' = odometryAge /\ tickAge' = 0
        /\ quietFor' = quietFor
    BY Zenon DEF Tick, inputs
  <1>2. CASE Conditions
    <2>1. Settle
      BY <1>2, Zenon DEF Tick
    <2>2. Flags'
      BY <1>1, <2>1, SettleEffect, TypeParts, Zenon DEF Flags
    <2>3. Ages'
      BY <1>1, <2>1, SettleEffect, TypeParts DEF Ages
    <2>4. CandidateInv'
      BY <1>1, <2>1, SettleEffect, TypeParts DEF CandidateInv, Ages
    <2>5. QED
      BY <2>1, <2>2, <2>3, <2>4, SettleEffect, Zenon DEF TypeOK, Flags, Ages
  <1>3. CASE ~Conditions
    <2>1. NoCandidate /\ stopped' \in BOOLEAN
      BY <1>3, Zenon DEF Tick
    <2>2. Flags'
      BY <1>1, <2>1, DroppedCandidate, TypeParts, Zenon DEF Flags
    <2>3. Ages'
      BY <1>1, <2>1, DroppedCandidate, TypeParts DEF Ages
    <2>4. QED
      BY <2>1, <2>2, <2>3, DroppedCandidate, Zenon DEF TypeOK, Flags, Ages
  <1>4. QED
    BY <1>2, <1>3

LEMMA AdvanceKeepsInv ==
    ASSUME MonitorInv, Advance
    PROVE  MonitorInv'
  <1> USE DEF MonitorInv
  <1>1. TypeOK'
    <2>1. /\ commandAge' \in 0..(CommandTimeout + 1)
          /\ odometryAge' \in 0..(OdometryTimeout + 1)
          /\ quietFor' \in 0..(SettleTime + 1)
      BY OlderStays DEF Advance, TypeOK
    <2>2. candidateAge' \in 0..(SettleTime + 1) /\ (candidate' \/ candidateAge' = 0)
      BY OlderStays DEF Advance, TypeOK
    <2>3. QED
      BY <2>1, <2>2 DEF Advance, TypeOK
  <1>2. CandidateInv'
    BY OlderKeepsOrder DEF Advance, CandidateInv, TypeOK
  <1>3. QED
    BY <1>1, <1>2

LEMMA StepKeepsInv == MonitorInv /\ [Next]_vars => MonitorInv'
  <1> SUFFICES ASSUME MonitorInv, [Next]_vars
               PROVE  MonitorInv'
    OBVIOUS
  <1>1. CASE Observe
    BY <1>1, CommandKeepsInv, OdometryKeepsInv DEF Observe
  <1>2. CASE Tick
    BY <1>2, TickKeepsInv
  <1>3. CASE Advance
    BY <1>3, AdvanceKeepsInv
  <1>4. CASE UNCHANGED vars
    BY <1>4 DEF vars, inputs, settling, MonitorInv, TypeOK, CandidateInv
  <1>5. QED
    BY <1>1, <1>2, <1>3, <1>4 DEF Next

-----------------------------------------------------------------------------
(* The candidate is always at most as old as the quiet it stands for.      *)
THEOREM MonitorInvariant == Spec => []MonitorInv
  <1>1. QED
    BY InitEstablishesInv, StepKeepsInv, PTL DEF Spec

(* Every variable of the monitor keeps its type, the candidate's time      *)
(* included.                                                               *)
THEOREM TypeCorrect == Spec => []TypeOK
  <1>1. MonitorInv => TypeOK
    BY DEF MonitorInv
  <1>2. QED
    BY <1>1, MonitorInvariant, PTL

(* A stop is reported only on fresh inputs that say so, after a settling   *)
(* time in which no sample showed motion.                                  *)
THEOREM ReportedStopIsSettled == Spec => StopIsSettled
  <1>1. MonitorInv /\ [Next]_vars =>
          [Tick /\ stopped' => Conditions /\ quietFor >= SettleTime]_vars
    <2> SUFFICES ASSUME MonitorInv, Tick, stopped'
                 PROVE  Conditions /\ quietFor >= SettleTime
      OBVIOUS
    <2>1. Conditions /\ Settle
      BY Zenon DEF Tick
    <2>2. SettleTime = 0 \/ (candidate /\ candidateAge >= SettleTime)
      BY <2>1, SettleEffect
    <2>3. Ages /\ CandidateInv
      BY TypeParts, Zenon DEF MonitorInv
    <2>4. QED
      BY <2>1, <2>2, <2>3 DEF Ages, CandidateInv
  <1>2. QED
    BY <1>1, MonitorInvariant, PTL DEF Spec, StopIsSettled
=============================================================================
