-------------------------- MODULE CommandPathProofs --------------------------
(***************************************************************************)
(* Proofs about the way of a velocity to the base, for every lease, every  *)
(* driver timeout and every sequence number.                               *)
(***************************************************************************)
EXTENDS CommandPath, TLAPS

USE PathConstants

(* Types, part by part.                                                    *)
Flags ==
    /\ going \in BOOLEAN /\ udpDeadman \in BOOLEAN /\ rosDeadman \in BOOLEAN
    /\ draining \in BOOLEAN /\ authority \in BOOLEAN /\ holding \in BOOLEAN
InputType == inputAge \in 0..(Lease + MuxLease + 1) /\ lastSeq \in 0..MaxSeq
MuxType == teleopAge \in 0..(MuxLease + 1) /\ holdAge \in 0..(MuxLease + 1)
BaseType == base \in Velocities /\ baseAge \in 0..(GateLease + 1)
StateType == safety \in {"pass", "zero", "block"} /\ safetyAge \in 0..(StateLease + 1)
DrivenType == driven \in Velocities /\ drivenAge \in 0..DriverLease
DueType == due \subseteq Timers
HistoryType ==
    /\ heldFor \in 0..(DriverLease + 2) /\ barredFor \in 0..(DriverLease + 1)
    /\ released \in 0..MaxSeq

LEMMA TypeParts ==
    TypeOK <=> /\ Flags /\ InputType /\ MuxType /\ BaseType
               /\ StateType /\ DrivenType /\ DueType /\ HistoryType
  BY Zenon DEF TypeOK, Flags, InputType, MuxType, BaseType, StateType, DrivenType, DueType,
               HistoryType

LEMMA OlderStays ==
    ASSUME NEW limit \in Nat, NEW age \in 0..(limit + 1)
    PROVE  Older(age, limit) \in 0..(limit + 1)
  BY DEF Older

LEMMA AgedStays == ASSUME NEW v \in Velocities PROVE Aged(v) \in Velocities
  <1>1. CASE v = Zero
    BY <1>1, Zenon DEF Aged, Velocities
  <1>2. CASE v # Zero
    <2>1. v \in [from : {"teleop", "nav"}, age : 0..(InputLimit + 1)]
      BY <1>2, Zenon DEF Velocities
    <2>2. InputLimit \in Nat
      BY DEF InputLimit
    <2>3. Older(v.age, InputLimit) \in 0..(InputLimit + 1)
      BY <2>1, <2>2, OlderStays
    <2>4. [v EXCEPT !.age = Older(v.age, InputLimit)]
            \in [from : {"teleop", "nav"}, age : 0..(InputLimit + 1)]
      BY <2>1, <2>3
    <2>5. Aged(v) = [v EXCEPT !.age = Older(v.age, InputLimit)]
      BY <1>2, Zenon DEF Aged
    <2>6. QED
      BY <2>4, <2>5, Zenon DEF Velocities
  <1>3. QED
    BY <1>1, <1>2

LEMMA FreshVelocity ==
    ASSUME NEW source \in {"teleop", "nav"}, NEW age \in 0..Lease
    PROVE  /\ Velocity(source, age) \in Velocities
           /\ Velocity(source, age).age = age
           /\ Velocity(source, age).from = source
           /\ Velocity(source, age) # Zero
  <1>1. age \in 0..(InputLimit + 1)
    BY DEF InputLimit
  <1>2. QED
    BY <1>1 DEF Velocity, Velocities, Zero

(* Growing old keeps a velocity's source and, short of the limit, adds one *)
(* unit to its age.                                                        *)
LEMMA AgedIsOlder ==
    ASSUME NEW v \in Velocities
    PROVE  /\ Aged(v).from = v.from
           /\ (Aged(v) = Zero) <=> (v = Zero)
           /\ v # Zero => Aged(v).age <= v.age + 1
  <1>1. CASE v = Zero
    BY <1>1 DEF Aged, Zero
  <1>2. CASE v # Zero
    <2>1. v \in [from : {"teleop", "nav"}, age : 0..(InputLimit + 1)]
      BY <1>2, Zenon DEF Velocities
    <2>2. Aged(v) = [v EXCEPT !.age = Older(v.age, InputLimit)]
      BY <1>2, Zenon DEF Aged
    <2>3. Older(v.age, InputLimit) <= v.age + 1
      BY <2>1 DEF Older, InputLimit
    <2>4. Aged(v).from = v.from /\ Aged(v).age = Older(v.age, InputLimit)
      BY <2>1, <2>2
    <2>5. Aged(v) # Zero
      BY <2>1, <2>4 DEF Zero
    <2>6. QED
      BY <1>2, <2>3, <2>4, <2>5
  <1>3. QED
    BY <1>1, <1>2

(* What a step does, one disjunct for each handler or timer.               *)
Handlers ==
    \/ \E p \in Packets : DrainUdp(p)
    \/ TeleopTick
    \/ \E go \in BOOLEAN : OnRosCommand(go)
    \/ \E on \in BOOLEAN : OnRosDeadman(on)
    \/ FromNav
    \/ \E on \in BOOLEAN : SetHolding(on)
    \/ TickSafety
    \/ \E state \in {"pass", "zero", "block"} : OnSafety(state)
    \/ \E isBase \in BOOLEAN : OnAuthority(isBase)
    \/ GateTick
    \/ RestartGate

LEMMA NextIsHandlerOrTime == Next <=> Handlers \/ Advance
  BY Zenon DEF Next, Command, Supervise, Handlers

-----------------------------------------------------------------------------
(* Types.                                                                  *)

LEMMA FlagsStep == ASSUME Flags, [Next]_vars PROVE Flags'
  <1> USE DEF Flags
  <1>1. CASE \E p \in Packets : DrainUdp(p)
    <2>1. PICK p \in Packets : DrainUdp(p)
      BY <1>1, Zenon
    <2>2. p.go \in BOOLEAN
      BY Zenon DEF Packets
    <2>3. /\ going' \in {going, p.go, going \/ p.go, FALSE}
          /\ udpDeadman' \in {udpDeadman, p.go}
          /\ draining' = TRUE /\ UNCHANGED <<rosDeadman, authority, holding>>
      BY <2>1, Zenon DEF DrainUdp, TakeFields, TakeCommand, gate
    <2>4. (going \/ p.go) \in BOOLEAN
      BY Zenon
    <2>5. QED
      BY <2>2, <2>3, <2>4, Zenon
  <1>2. CASE TeleopTick
    BY <1>2, Zenon DEF TeleopTick, LetGo, Forget, FromTeleop, Forward, gate
  <1>3. CASE \E go \in BOOLEAN : OnRosCommand(go)
    BY <1>3, Zenon DEF OnRosCommand, TakeCommand, gate
  <1>4. CASE \E on \in BOOLEAN : OnRosDeadman(on)
    BY <1>4, Zenon DEF OnRosDeadman, gate
  <1>5. CASE \E on \in BOOLEAN : SetHolding(on)
    BY <1>5, Zenon DEF SetHolding, link, gate
  <1>6. CASE \E isBase \in BOOLEAN : OnAuthority(isBase)
    BY <1>6, Zenon DEF OnAuthority, link
  <1>7. CASE RestartGate
    BY <1>7, Zenon DEF RestartGate, link
  <1>8. CASE UNCHANGED <<going, udpDeadman, rosDeadman, draining, authority, holding>>
    BY <1>8, Zenon
  <1>9. QED
    BY <1>1, <1>2, <1>3, <1>4, <1>5, <1>6, <1>7, <1>8, NextIsHandlerOrTime, Zenon
      DEF Handlers, FromNav, TickSafety, FromHold, Forward, OnSafety, GateTick, Advance,
          vars, link, gate

(* What a packet does to the numbers: one that is not late sets lastSeq,   *)
(* and a release is noted.                                                 *)
LEMMA DrainNumbers ==
    ASSUME NEW p \in Packets, DrainUdp(p)
    PROVE  /\ inputAge' \in {0, inputAge}
           /\ IF p.seq > lastSeq THEN lastSeq' = p.seq ELSE lastSeq' = lastSeq
           /\ \/ released' = released
              \/ released' = p.seq
  BY Zenon DEF DrainUdp, TakeFields, TakeCommand, NoteRelease

LEMMA InputTypeStep == ASSUME InputType, [Next]_vars PROVE InputType'
  <1> USE DEF InputType
  <1>1. CASE \E p \in Packets : DrainUdp(p)
    BY <1>1, DrainNumbers DEF Packets
  <1>2. CASE TeleopTick
    <2>1. inputAge' = inputAge /\ lastSeq' \in {0, lastSeq}
      BY <1>2, Zenon DEF TeleopTick, LetGo, Forget
    <2>2. QED
      BY <2>1
  <1>3. CASE \E go \in BOOLEAN : OnRosCommand(go)
    BY <1>3 DEF OnRosCommand, TakeCommand
  <1>4. CASE UNCHANGED <<inputAge, lastSeq>>
    BY <1>4
  <1>5. CASE Advance
    <2>1. Older(inputAge, Lease + MuxLease) \in 0..(Lease + MuxLease + 1)
      BY DEF Older
    <2>2. inputAge' = Older(inputAge, Lease + MuxLease) /\ lastSeq' = lastSeq
      BY <1>5, Zenon DEF Advance
    <2>3. QED
      BY <2>1, <2>2
  <1>6. QED
    BY <1>1, <1>2, <1>3, <1>4, <1>5, NextIsHandlerOrTime, Zenon
      DEF Handlers, OnRosDeadman, FromNav, SetHolding, TickSafety, OnSafety, OnAuthority,
          GateTick, RestartGate, vars, link

LEMMA MuxTypeStep == ASSUME MuxType, [Next]_vars PROVE MuxType'
  <1> USE DEF MuxType
  <1>1. CASE TeleopTick
    BY <1>1 DEF TeleopTick, LetGo, FromTeleop, mux
  <1>2. CASE TickSafety
    BY <1>2 DEF TickSafety, FromHold, mux
  <1>3. CASE UNCHANGED mux
    BY <1>3 DEF mux
  <1>4. CASE Advance
    BY <1>4, OlderStays DEF Advance
  <1>5. QED
    BY <1>1, <1>2, <1>3, <1>4, NextIsHandlerOrTime, Zenon
      DEF Handlers, DrainUdp, OnRosCommand, OnRosDeadman, FromNav, SetHolding, OnSafety,
          OnAuthority, GateTick, RestartGate, vars

(* What reaches the gate is a velocity.                                    *)
LEMMA ForwardedType ==
    ASSUME NEW v \in Velocities, Forward(v)
    PROVE  BaseType'
  BY DEF Forward, BaseType

LEMMA ZeroIsVelocity == Zero \in Velocities
  BY Zenon DEF Velocities

LEMMA BaseTypeStep == ASSUME BaseType, InputType, [Next]_vars PROVE BaseType'
  <1>1. CASE TeleopTick
    <2>1. CASE Deadman /\ Fresh
      <3>1. going => Velocity("teleop", inputAge) \in Velocities
        BY <2>1, FreshVelocity DEF InputType, Fresh
      <3>2. (IF going THEN Velocity("teleop", inputAge) ELSE Zero) \in Velocities
        BY <3>1, ZeroIsVelocity
      <3>3. QED
        BY <1>1, <2>1, <3>2, ForwardedType, Zenon DEF TeleopTick, FromTeleop
    <2>2. CASE ~(Deadman /\ Fresh)
      BY <1>1, <2>2 DEF TeleopTick, LetGo, gate, BaseType
    <2>3. QED
      BY <2>1, <2>2
  <1>2. CASE TickSafety
    <2>1. CASE UNCHANGED gate
      BY <2>1 DEF gate, BaseType
    <2>2. CASE Forward(Zero)
      BY <2>2, ForwardedType, ZeroIsVelocity
    <2>3. QED
      BY <1>2, <2>1, <2>2, Zenon DEF TickSafety, FromHold
  <1>3. CASE FromNav
    <2>1. CASE UNCHANGED gate
      BY <2>1 DEF gate, BaseType
    <2>2. CASE Forward(Velocity("nav", 0))
      <3>1. Velocity("nav", 0) \in Velocities
        BY FreshVelocity
      <3>2. QED
        BY <2>2, <3>1, ForwardedType
    <2>3. QED
      BY <1>3, <2>1, <2>2, Zenon DEF FromNav
  <1>4. CASE RestartGate
    BY <1>4, ZeroIsVelocity DEF RestartGate, BaseType
  <1>5. CASE UNCHANGED <<base, baseAge>>
    BY <1>5 DEF BaseType
  <1>6. CASE Advance
    <2>1. Aged(base) \in Velocities /\ Older(baseAge, GateLease) \in 0..(GateLease + 1)
      BY AgedStays, OlderStays DEF BaseType
    <2>2. base' = Aged(base) /\ baseAge' \in {0, Older(baseAge, GateLease)}
      BY <1>6 DEF Advance
    <2>3. QED
      BY <2>1, <2>2 DEF BaseType
  <1>7. QED
    BY <1>1, <1>2, <1>3, <1>4, <1>5, <1>6, NextIsHandlerOrTime, Zenon
      DEF Handlers, DrainUdp, OnRosCommand, OnRosDeadman, SetHolding, OnSafety,
          OnAuthority, GateTick, vars, gate

LEMMA StateTypeStep == ASSUME StateType, [Next]_vars PROVE StateType'
  <1> USE DEF StateType
  <1>1. CASE \E state \in {"pass", "zero", "block"} : OnSafety(state)
    BY <1>1 DEF OnSafety
  <1>2. CASE RestartGate
    <2>1. safety' = "zero" /\ safetyAge' = StateLease + 1
      BY <1>2, Zenon DEF RestartGate
    <2>2. QED
      BY <2>1
  <1>3. CASE Advance
    <2>1. safety' = safety /\ safetyAge' = Older(safetyAge, StateLease)
      BY <1>3, Zenon DEF Advance
    <2>2. QED
      BY <2>1, OlderStays
  <1>4. CASE UNCHANGED <<safety, safetyAge>>
    BY <1>4
  <1>5. QED
    BY <1>1, <1>2, <1>3, <1>4, NextIsHandlerOrTime, Zenon
      DEF Handlers, DrainUdp, TeleopTick, LetGo, FromTeleop, FromNav, FromHold, Forward,
          OnRosCommand, OnRosDeadman, SetHolding, TickSafety, OnAuthority, GateTick, vars, gate

LEMMA DrivenTypeStep == ASSUME DrivenType, BaseType, [Next]_vars PROVE DrivenType'
  <1>1. CASE GateTick
    <2>1. Output \in Velocities
      BY ZeroIsVelocity DEF Output, BaseType
    <2>2. QED
      BY <1>1, <2>1 DEF GateTick, DrivenType, driver
  <1>2. CASE Advance
    BY <1>2, AgedStays, ZeroIsVelocity DEF Advance, DrivenType
  <1>3. CASE UNCHANGED driver
    BY <1>3 DEF DrivenType, driver
  <1>4. QED
    BY <1>1, <1>2, <1>3, NextIsHandlerOrTime, Zenon
      DEF Handlers, DrainUdp, TeleopTick, FromNav, OnRosCommand, OnRosDeadman, SetHolding,
          TickSafety, OnSafety, OnAuthority, RestartGate, vars

LEMMA DueTypeStep == ASSUME DueType, [Next]_vars PROVE DueType'
  <1> USE DEF DueType
  <1>1. CASE TeleopTick \/ TickSafety \/ GateTick \/ Advance
    BY <1>1, Zenon DEF TeleopTick, TickSafety, GateTick, Advance
  <1>2. CASE UNCHANGED due
    BY <1>2, Zenon
  <1>3. QED
    BY <1>1, <1>2, NextIsHandlerOrTime, Zenon
      DEF Handlers, DrainUdp, FromNav, OnRosCommand, OnRosDeadman, SetHolding, OnSafety,
          OnAuthority, RestartGate, vars

LEMMA HistoryTypeStep == ASSUME HistoryType, [Next]_vars PROVE HistoryType'
  <1> USE DEF HistoryType
  <1>1. CASE \E p \in Packets : DrainUdp(p)
    <2>1. PICK p \in Packets : DrainUdp(p)
      BY <1>1, Zenon
    <2>2. UNCHANGED <<heldFor, barredFor>>
      BY <2>1, Zenon DEF DrainUdp
    <2>3. QED
      BY <2>1, <2>2, DrainNumbers DEF Packets
  <1>2. CASE TeleopTick
    BY <1>2 DEF TeleopTick, LetGo, Forget
  <1>3. CASE \E on \in BOOLEAN : SetHolding(on)
    BY <1>3 DEF SetHolding
  <1>4. CASE \/ \E state \in {"pass", "zero", "block"} : OnSafety(state)
             \/ \E isBase \in BOOLEAN : OnAuthority(isBase)
    <2>1. UNCHANGED <<heldFor, released>> /\ NoteLeave
      BY <1>4, Zenon DEF OnSafety, OnAuthority
    <2>2. QED
      BY <2>1 DEF NoteLeave
  <1>5. CASE Advance
    <2>1. /\ Older(heldFor, DriverLease + 1) \in 0..(DriverLease + 2)
          /\ Older(barredFor, DriverLease) \in 0..(DriverLease + 1)
      BY DEF Older
    <2>2. /\ heldFor' \in {0, Older(heldFor, DriverLease + 1)}
          /\ barredFor' \in {0, Older(barredFor, DriverLease)}
          /\ released' = released
      BY <1>5 DEF Advance
    <2>3. QED
      BY <2>1, <2>2
  <1>6. CASE UNCHANGED history
    BY <1>6 DEF history
  <1>7. QED
    BY <1>1, <1>2, <1>3, <1>4, <1>5, <1>6, NextIsHandlerOrTime, Zenon
      DEF Handlers, FromNav, OnRosCommand, OnRosDeadman, TickSafety, GateTick, RestartGate, vars

LEMMA InitType == Init => TypeOK
  <1> SUFFICES ASSUME Init PROVE TypeOK
    OBVIOUS
  <1>1. Flags /\ DueType
    BY Zenon DEF Init, Flags, DueType
  <1>2. BaseType /\ DrivenType
    BY ZeroIsVelocity DEF Init, BaseType, DrivenType
  <1>3. InputType /\ MuxType /\ StateType /\ HistoryType
    BY DEF Init, InputType, MuxType, StateType, HistoryType
  <1>4. QED
    BY <1>1, <1>2, <1>3, TypeParts, Zenon

LEMMA StepType == TypeOK /\ [Next]_vars => TypeOK'
  <1>1. ASSUME TypeOK, [Next]_vars
        PROVE  /\ Flags' /\ InputType' /\ MuxType' /\ BaseType'
               /\ StateType' /\ DrivenType' /\ DueType' /\ HistoryType'
    BY <1>1, TypeParts, FlagsStep, InputTypeStep, MuxTypeStep, BaseTypeStep, StateTypeStep,
       DrivenTypeStep, DueTypeStep, HistoryTypeStep, Zenon
  <1>2. QED
    BY <1>1, TypeParts, PTL

(* Every variable of the path keeps its type.                              *)
THEOREM PathTypes == Spec => []TypeOK
  BY InitType, StepType, PTL DEF Spec

-----------------------------------------------------------------------------
(* Numbers and leases of teleop_bridge.                                    *)

(* Since its last reset the bridge has read no release above its sequence. *)
SeqInv == released <= lastSeq

LEMMA SeqStep == ASSUME TypeOK, SeqInv, [Next]_vars PROVE SeqInv'
  <1> USE DEF SeqInv
  <1>0. lastSeq \in Nat /\ released \in Nat
    BY DEF TypeOK
  <1>1. CASE \E p \in Packets : DrainUdp(p)
    BY <1>0, <1>1, DrainNumbers DEF Packets
  <1>2. CASE TeleopTick
    BY <1>0, <1>2 DEF TeleopTick, LetGo, Forget
  <1>3. CASE UNCHANGED <<lastSeq, released>>
    BY <1>3
  <1>4. QED
    BY <1>1, <1>2, <1>3, NextIsHandlerOrTime, Zenon
      DEF Handlers, OnRosCommand, OnRosDeadman, FromNav, SetHolding, TickSafety, OnSafety,
          OnAuthority, GateTick, RestartGate, Advance, vars, link, history

(* The mux hears teleop only while the command it carries is in its lease. *)
YieldInv == TeleopLive => inputAge <= Lease + teleopAge

LEMMA YieldStep == ASSUME TypeOK, YieldInv, [Next]_vars PROVE YieldInv'
  <1> USE DEF YieldInv, TeleopLive
  <1>0. teleopAge \in Nat /\ inputAge \in Nat
    BY DEF TypeOK
  <1>1. CASE \/ \E p \in Packets : DrainUdp(p)
             \/ \E go \in BOOLEAN : OnRosCommand(go)
    <2>1. teleopAge' = teleopAge /\ inputAge' \in {0, inputAge}
      BY <1>1, Zenon DEF DrainUdp, TakeFields, OnRosCommand, TakeCommand, mux
    <2>2. QED
      BY <1>0, <2>1
  <1>2. CASE TeleopTick
    <2>1. inputAge' = inputAge /\ (UNCHANGED teleopAge \/ (teleopAge' = 0 /\ inputAge <= Lease))
      BY <1>2, Zenon DEF TeleopTick, LetGo, FromTeleop, Fresh, mux
    <2>2. QED
      BY <1>0, <2>1
  <1>3. CASE Advance
    <2>1. /\ teleopAge' = Older(teleopAge, MuxLease)
          /\ inputAge' = Older(inputAge, Lease + MuxLease)
      BY <1>3, Zenon DEF Advance
    <2>2. QED
      BY <1>0, <2>1 DEF Older
  <1>4. CASE UNCHANGED <<teleopAge, inputAge>>
    BY <1>4
  <1>5. QED
    BY <1>1, <1>2, <1>3, <1>4, NextIsHandlerOrTime, Zenon
      DEF Handlers, OnRosDeadman, FromNav, SetHolding, TickSafety, FromHold, OnSafety,
          OnAuthority, GateTick, RestartGate, vars, link, mux

-----------------------------------------------------------------------------
(* Ages on the way.                                                        *)

(* While the gate would still pass it, what it holds is no older than the  *)
(* input's lease and the time it has lain there.                           *)
BaseInv == base # Zero /\ baseAge <= GateLease => base.age <= Lease + baseAge

LEMMA VelocityAge == ASSUME NEW v \in Velocities PROVE v.age \in Nat
  BY DEF Velocities, Zero

LEMMA BaseStep == ASSUME TypeOK, BaseInv, [Next]_vars PROVE BaseInv'
  <1> USE DEF BaseInv
  <1>0. base \in Velocities /\ base.age \in Nat /\ baseAge \in Nat /\ inputAge \in Nat
    BY VelocityAge DEF TypeOK
  <1>1. ASSUME NEW v \in Velocities, v # Zero => v.age <= Lease, Forward(v) PROVE BaseInv'
    BY <1>1 DEF Forward
  <1>2. CASE UNCHANGED <<base, baseAge>>
    BY <1>2
  <1>3. CASE TeleopTick
    <2>1. CASE Deadman /\ Fresh
      <3> DEFINE v == IF going THEN Velocity("teleop", inputAge) ELSE Zero
      <3>1. inputAge \in 0..Lease
        BY <1>0, <2>1 DEF Fresh
      <3>2. v \in Velocities /\ (v # Zero => v.age <= Lease)
        BY <3>1, FreshVelocity, ZeroIsVelocity
      <3>3. Forward(v)
        BY <1>3, <2>1, Zenon DEF TeleopTick, FromTeleop
      <3>4. QED
        BY <1>1, <3>2, <3>3
    <2>2. CASE ~(Deadman /\ Fresh)
      BY <1>2, <1>3, <2>2, Zenon DEF TeleopTick, LetGo, gate
    <2>3. QED
      BY <2>1, <2>2
  <1>4. CASE TickSafety
    <2>1. Forward(Zero) \/ UNCHANGED <<base, baseAge>>
      BY <1>4, Zenon DEF TickSafety, FromHold, gate
    <2>2. QED
      BY <1>1, <1>2, <2>1, ZeroIsVelocity
  <1>5. CASE FromNav
    <2>1. Forward(Velocity("nav", 0)) \/ UNCHANGED <<base, baseAge>>
      BY <1>5, Zenon DEF FromNav, gate
    <2>2. Velocity("nav", 0) \in Velocities /\ Velocity("nav", 0).age <= Lease
      BY FreshVelocity
    <2>3. QED
      BY <1>1, <1>2, <2>1, <2>2
  <1>6. CASE RestartGate
    BY <1>6, Zenon DEF RestartGate
  <1>7. CASE Advance
    <2>1. base' = Aged(base) /\ baseAge' = IF base = Zero THEN 0 ELSE Older(baseAge, GateLease)
      BY <1>7, Zenon DEF Advance
    <2>2. (base' = Zero <=> base = Zero) /\ (base # Zero => base'.age <= base.age + 1)
      BY <1>0, <2>1, AgedIsOlder
    <2>3. base'.age \in Nat
      BY <1>0, <2>1, AgedStays, VelocityAge
    <2>4. QED
      BY <1>0, <2>1, <2>2, <2>3 DEF Older
  <1>8. QED
    BY <1>2, <1>3, <1>4, <1>5, <1>6, <1>7, NextIsHandlerOrTime, Zenon
      DEF Handlers, DrainUdp, OnRosCommand, OnRosDeadman, SetHolding, OnSafety, OnAuthority,
          GateTick, vars, gate

(* A gate that has leave is not counted as barred.                         *)
LeaveInv == Leave => barredFor = 0

LEMMA LeaveStep == ASSUME LeaveInv, [Next]_vars PROVE LeaveInv'
  <1> USE DEF LeaveInv
  <1>1. CASE \/ \E state \in {"pass", "zero", "block"} : OnSafety(state)
             \/ \E isBase \in BOOLEAN : OnAuthority(isBase)
    BY <1>1, Zenon DEF OnSafety, OnAuthority, NoteLeave
  <1>2. CASE RestartGate
    BY <1>2, Zenon DEF RestartGate, Leave
  <1>3. CASE Advance
    BY <1>3, Zenon DEF Advance
  <1>4. CASE UNCHANGED <<safety, safetyAge, authority, barredFor>>
    BY <1>4, Zenon DEF Leave
  <1>5. QED
    BY <1>1, <1>2, <1>3, <1>4, NextIsHandlerOrTime, Zenon
      DEF Handlers, DrainUdp, TeleopTick, LetGo, FromTeleop, FromNav, FromHold, Forward,
          OnRosCommand, OnRosDeadman, SetHolding, TickSafety, GateTick, vars, gate, history

(* What drives the base was passed by a gate that had leave, no longer ago *)
(* than the driver has had it.                                             *)
DrivenInv ==
    driven # Zero => /\ driven.age <= Lease + GateLease + drivenAge
                     /\ barredFor <= drivenAge

LEMMA DrivenStep == ASSUME TypeOK, BaseInv, LeaveInv, DrivenInv, [Next]_vars PROVE DrivenInv'
  <1>0. /\ driven \in Velocities /\ driven.age \in Nat /\ drivenAge \in 0..DriverLease
        /\ base.age \in Nat /\ baseAge \in Nat /\ barredFor \in 0..(DriverLease + 1)
    BY VelocityAge DEF TypeOK
  <1>1. CASE UNCHANGED driver /\ barredFor' \in {0, barredFor}
    BY <1>0, <1>1 DEF DrivenInv, driver
  <1>2. CASE GateTick
    <2>1. CASE Decide = "block"
      BY <1>1, <1>2, <2>1, Zenon DEF GateTick, history
    <2>2. CASE Decide # "block" /\ Output = Zero
      BY <1>2, <2>2, Zenon DEF GateTick, DrivenInv
    <2>3. CASE Decide # "block" /\ Output # Zero
      <3>1. /\ base # Zero /\ baseAge <= GateLease
            /\ driven' = base /\ drivenAge' = 0 /\ barredFor' = barredFor
        BY <1>2, <2>3, Zenon DEF GateTick, Output, history
      <3>2. Leave
        <4>1. Decide = "pass" /\ authority
          BY <2>3, Zenon DEF Output
        <4>2. safety = "pass" /\ safetyAge <= StateLease
          BY <4>1 DEF Decide, TypeOK
        <4>3. QED
          BY <4>1, <4>2, Zenon DEF Leave
      <3>3. barredFor = 0 /\ base.age <= Lease + baseAge
        BY <3>1, <3>2, Zenon DEF LeaveInv, BaseInv
      <3>4. QED
        BY <1>0, <3>1, <3>3 DEF DrivenInv
    <2>4. QED
      BY <2>1, <2>2, <2>3
  <1>3. CASE Advance
    <2>1. barredFor' \in {0, Older(barredFor, DriverLease)}
      BY <1>3, Zenon DEF Advance
    <2>2. CASE Moving /\ drivenAge < DriverLease
      <3>1. driven' = Aged(driven) /\ drivenAge' = drivenAge + 1
        BY <1>3, <2>2, Zenon DEF Advance
      <3>2. driven # Zero /\ driven'.age <= driven.age + 1 /\ driven'.age \in Nat
        BY <1>0, <2>2, <3>1, AgedIsOlder, AgedStays, VelocityAge DEF Moving
      <3>3. QED
        BY <1>0, <2>1, <3>1, <3>2 DEF DrivenInv, Older
    <2>3. CASE ~(Moving /\ drivenAge < DriverLease)
      BY <1>3, <2>3, Zenon DEF Advance, DrivenInv
    <2>4. QED
      BY <2>2, <2>3
  <1>4. CASE \/ \E state \in {"pass", "zero", "block"} : OnSafety(state)
             \/ \E isBase \in BOOLEAN : OnAuthority(isBase)
    <2>1. UNCHANGED driver /\ NoteLeave
      BY <1>4, Zenon DEF OnSafety, OnAuthority
    <2>2. QED
      BY <1>1, <2>1 DEF NoteLeave
  <1>5. QED
    BY <1>1, <1>2, <1>3, <1>4, NextIsHandlerOrTime, Zenon
      DEF Handlers, DrainUdp, TeleopTick, FromNav, OnRosCommand, OnRosDeadman, SetHolding,
          TickSafety, RestartGate, vars, history

-----------------------------------------------------------------------------
(* The hold.                                                               *)

(* A velocity of Nav2 is not in the gate while the mux still has teleop.   *)
NavInv == TeleopLive => base.from # "nav"

LEMMA ForwardedSource ==
    ASSUME NEW v, Forward(v)
    PROVE  base'.from = v.from
  BY Zenon DEF Forward

LEMMA NavStep == ASSUME TypeOK, NavInv, [Next]_vars PROVE NavInv'
  <1> USE DEF NavInv
  <1>0. base \in Velocities /\ teleopAge \in Nat /\ Zero.from # "nav"
    BY DEF TypeOK, Zero
  <1>1. CASE TeleopTick
    <2>1. CASE Deadman /\ Fresh
      <3>1. base' = IF going THEN Velocity("teleop", inputAge) ELSE Zero
        BY <1>1, <2>1, Zenon DEF TeleopTick, FromTeleop, Forward
      <3>2. Velocity("teleop", inputAge).from = "teleop"
        BY Zenon DEF Velocity
      <3>3. QED
        BY <1>0, <3>1, <3>2
    <2>2. CASE ~(Deadman /\ Fresh)
      BY <1>1, <2>2, Zenon DEF TeleopTick, LetGo, TeleopLive, gate, mux
    <2>3. QED
      BY <2>1, <2>2
  <1>2. CASE TickSafety
    <2>1. UNCHANGED teleopAge /\ (base' = Zero \/ UNCHANGED base)
      BY <1>2, Zenon DEF TickSafety, FromHold, Forward, gate, mux
    <2>2. QED
      BY <1>0, <2>1, Zenon DEF TeleopLive
  <1>3. CASE FromNav
    <2>1. UNCHANGED teleopAge /\ (TeleopLive => UNCHANGED base)
      BY <1>3, Zenon DEF FromNav, gate, mux
    <2>2. QED
      BY <2>1, Zenon DEF TeleopLive
  <1>4. CASE RestartGate
    BY <1>0, <1>4, Zenon DEF RestartGate
  <1>5. CASE Advance
    <2>1. base' = Aged(base) /\ teleopAge' = Older(teleopAge, MuxLease)
      BY <1>5, Zenon DEF Advance
    <2>2. base'.from = base.from
      BY <1>0, <2>1, AgedIsOlder
    <2>3. TeleopLive' => TeleopLive
      BY <1>0, <2>1 DEF TeleopLive, Older
    <2>4. QED
      BY <2>2, <2>3
  <1>6. CASE UNCHANGED <<base, teleopAge>>
    BY <1>6, Zenon DEF TeleopLive
  <1>7. QED
    BY <1>1, <1>2, <1>3, <1>4, <1>5, <1>6, NextIsHandlerOrTime, Zenon
      DEF Handlers, DrainUdp, OnRosCommand, OnRosDeadman, SetHolding, OnSafety, OnAuthority,
          GateTick, vars, gate, mux

(* The hold has been published since it began: its timer fires once in a   *)
(* period, so a whole period is enough.                                    *)
Firm == holding /\ (heldFor >= 2 \/ (heldFor = 1 /\ "hold" \notin due))

(* From then on the mux keeps Nav2 out, the gate holds nothing of Nav2, and *)
(* what still drives the base came before.                                 *)
HoldInv ==
    Firm => /\ holdAge = 0 \/ (holdAge = 1 /\ "hold" \in due)
            /\ base.from # "nav"
            /\ driven.from = "nav" => heldFor <= drivenAge + 1

(* A node that does not hold has not held.                                 *)
IdleInv == holding \/ heldFor = 0

LEMMA IdleStep == ASSUME IdleInv, [Next]_vars PROVE IdleInv'
  <1> USE DEF IdleInv
  <1>1. CASE \E on \in BOOLEAN : SetHolding(on)
    <2>1. PICK on \in BOOLEAN : SetHolding(on)
      BY <1>1, Zenon
    <2>2. CASE on
      BY <2>1, <2>2, Zenon DEF SetHolding
    <2>3. CASE ~on
      BY <2>1, <2>3, Zenon DEF SetHolding
    <2>4. QED
      BY <2>2, <2>3
  <1>2. CASE Advance
    BY <1>2, Zenon DEF Advance
  <1>3. CASE UNCHANGED <<holding, heldFor>>
    BY <1>3, Zenon
  <1>4. QED
    BY <1>1, <1>2, <1>3, NextIsHandlerOrTime, Zenon
      DEF Handlers, DrainUdp, TeleopTick, OnRosCommand, OnRosDeadman, FromNav, TickSafety,
          OnSafety, OnAuthority, GateTick, RestartGate, vars, history

LEMMA FirmKept ==
    ASSUME UNCHANGED <<holding, heldFor>>, "hold" \in due' <=> "hold" \in due
    PROVE  Firm' <=> Firm
  BY DEF Firm

LEMMA HoldStep == ASSUME TypeOK, NavInv, HoldInv, [Next]_vars PROVE HoldInv'
  <1>0. /\ base \in Velocities /\ driven \in Velocities /\ Zero.from # "nav"
        /\ holdAge \in Nat /\ heldFor \in Nat /\ drivenAge \in Nat
    BY DEF TypeOK, Zero
  <1>1. CASE /\ UNCHANGED <<holdAge, holding, heldFor, driven, drivenAge>>
             /\ "hold" \in due' <=> "hold" \in due
             /\ UNCHANGED base \/ base'.from # "nav"
    BY <1>1, FirmKept DEF HoldInv
  <1>2. CASE TeleopTick
    <2>1. /\ UNCHANGED <<holdAge, holding, heldFor, driven, drivenAge>>
          /\ "hold" \in due' <=> "hold" \in due
      BY <1>2 DEF TeleopTick, LetGo, FromTeleop, mux, driver
    <2>2. CASE Deadman /\ Fresh
      <3>1. base' = IF going THEN Velocity("teleop", inputAge) ELSE Zero
        BY <1>2, <2>2, Zenon DEF TeleopTick, FromTeleop, Forward
      <3>2. Velocity("teleop", inputAge).from = "teleop"
        BY Zenon DEF Velocity
      <3>3. base'.from # "nav"
        BY <1>0, <3>1, <3>2
      <3>4. QED
        BY <1>1, <2>1, <3>3, Zenon
    <2>3. CASE ~(Deadman /\ Fresh)
      <3>1. UNCHANGED base
        BY <1>2, <2>3, Zenon DEF TeleopTick, LetGo, gate
      <3>2. QED
        BY <1>1, <2>1, <3>1, Zenon
    <2>4. QED
      BY <2>2, <2>3
  <1>3. CASE FromNav
    <2>1. Firm => HoldLive
      BY <1>0 DEF HoldInv, HoldLive
    <2>2. /\ UNCHANGED <<holdAge, holding, heldFor, driven, drivenAge, due>>
          /\ HoldLive => UNCHANGED base
      BY <1>3, Zenon DEF FromNav, mux, driver, gate, history
    <2>3. QED
      BY <2>1, <2>2, FirmKept DEF HoldInv
  <1>4. CASE \E on \in BOOLEAN : SetHolding(on)
    <2>1. PICK on \in BOOLEAN : SetHolding(on)
      BY <1>4, Zenon
    <2>2. heldFor' = 0
      BY <2>1, Zenon DEF SetHolding
    <2>3. ~Firm'
      BY <2>2 DEF Firm
    <2>4. QED
      BY <2>3, Zenon DEF HoldInv
  <1>5. CASE TickSafety
    <2>1. /\ "hold" \notin due' /\ UNCHANGED <<holding, heldFor, driven, drivenAge>>
      BY <1>5 DEF TickSafety, driver, history
    <2>2. CASE holding
      <3>1. holdAge' = 0 /\ (base' = Zero \/ (TeleopLive /\ UNCHANGED base))
        BY <1>5, <2>2, Zenon DEF TickSafety, FromHold, Forward, gate
      <3>2. base'.from # "nav"
        BY <1>0, <3>1, Zenon DEF NavInv
      <3>3. Firm' => Firm \/ heldFor = 1
        BY <1>0, <2>1 DEF Firm
      <3>4. Firm' /\ driven'.from = "nav" => heldFor' <= drivenAge' + 1
        BY <1>0, <2>1, <3>3 DEF HoldInv
      <3>5. QED
        BY <3>1, <3>2, <3>4, Zenon DEF HoldInv
    <2>3. CASE ~holding
      BY <2>1, <2>3, Zenon DEF HoldInv, Firm
    <2>4. QED
      BY <2>2, <2>3
  <1>6. CASE GateTick
    <2>1. /\ UNCHANGED <<holdAge, holding, heldFor, base>>
          /\ "hold" \in due' <=> "hold" \in due
      BY <1>6 DEF GateTick, mux, gate, history
    <2>2. UNCHANGED <<driven, drivenAge>> \/ driven' = base \/ driven' = Zero
      BY <1>6, Zenon DEF GateTick, Output, driver
    <2>3. QED
      BY <1>0, <2>1, <2>2, FirmKept DEF HoldInv
  <1>7. CASE RestartGate
    <2>1. base' = Zero /\ UNCHANGED <<holdAge, holding, heldFor, driven, drivenAge, due>>
      BY <1>7, Zenon DEF RestartGate, mux, driver, history
    <2>2. QED
      BY <1>0, <1>1, <2>1
  <1>8. CASE Advance
    <2>1. /\ due = {} /\ due' = Timers /\ holding' = holding
          /\ holdAge' = Older(holdAge, MuxLease)
          /\ heldFor' = IF holding THEN Older(heldFor, DriverLease + 1) ELSE 0
          /\ base' = Aged(base)
      BY <1>8, Zenon DEF Advance
    <2>2. "hold" \in due'
      BY <2>1, Zenon DEF Timers
    <2>3. ASSUME Firm' PROVE Firm /\ heldFor' <= heldFor + 1
      BY <1>0, <2>1, <2>2, <2>3 DEF Firm, Older
    <2>4. Firm' => holdAge' = 1
      BY <2>1, <2>3 DEF HoldInv, Older
    <2>5. base'.from = base.from
      BY <1>0, <2>1, AgedIsOlder
    <2>6. \/ driven'.from = driven.from /\ drivenAge' = drivenAge + 1
          \/ driven'.from # "nav"
      BY <1>0, <1>8, AgedIsOlder DEF Advance
    <2>7. Firm' /\ driven'.from = "nav" => heldFor' <= drivenAge' + 1
      <3>1. SUFFICES ASSUME Firm', driven'.from = "nav" PROVE heldFor' <= drivenAge' + 1
        OBVIOUS
      <3>2. Firm /\ heldFor' <= heldFor + 1
        BY <2>3, <3>1
      <3>3. driven.from = "nav" /\ drivenAge' = drivenAge + 1
        BY <2>6, <3>1
      <3>4. heldFor <= drivenAge + 1
        BY <3>2, <3>3, Zenon DEF HoldInv
      <3>5. heldFor' \in Nat
        BY <1>0, <2>1 DEF Older
      <3>6. QED
        BY <1>0, <3>2, <3>3, <3>4, <3>5
    <2>8. QED
      BY <2>2, <2>3, <2>4, <2>5, <2>7 DEF HoldInv
  <1>9. CASE UNCHANGED <<holdAge, holding, heldFor, driven, drivenAge, due, base>>
    BY <1>1, <1>9
  <1>10. QED
    BY <1>2, <1>3, <1>4, <1>5, <1>6, <1>7, <1>8, <1>9, NextIsHandlerOrTime, Zenon
      DEF Handlers, DrainUdp, OnRosCommand, OnRosDeadman, OnSafety, OnAuthority, vars, mux,
          gate, driver, history

-----------------------------------------------------------------------------
(* The theorems.                                                           *)

PathInv ==
    /\ TypeOK /\ SeqInv /\ YieldInv /\ BaseInv /\ LeaveInv /\ DrivenInv /\ NavInv
    /\ IdleInv /\ HoldInv

LEMMA PathInit == Init => PathInv
  <1> SUFFICES ASSUME Init PROVE PathInv
    OBVIOUS
  <1>1. TypeOK
    BY InitType
  <1>2. SeqInv /\ YieldInv
    BY DEF Init, SeqInv, YieldInv, TeleopLive
  <1>3. BaseInv /\ LeaveInv /\ DrivenInv
    BY Zenon DEF Init, BaseInv, LeaveInv, Leave, DrivenInv
  <1>4. NavInv /\ IdleInv /\ HoldInv
    <2>1. Zero.from # "nav"
      BY DEF Zero
    <2>2. QED
      BY <2>1, Zenon DEF Init, NavInv, IdleInv, HoldInv, Firm
  <1>5. QED
    BY <1>1, <1>2, <1>3, <1>4, Zenon DEF PathInv

LEMMA PathStep == PathInv /\ [Next]_vars => PathInv'
  <1>1. ASSUME PathInv, [Next]_vars
        PROVE  /\ TypeOK' /\ SeqInv' /\ YieldInv' /\ BaseInv'
               /\ LeaveInv' /\ DrivenInv' /\ NavInv' /\ IdleInv' /\ HoldInv'
    <2>1. /\ TypeOK /\ SeqInv /\ YieldInv /\ BaseInv /\ LeaveInv /\ DrivenInv /\ NavInv
          /\ IdleInv /\ HoldInv
      BY <1>1, Zenon DEF PathInv
    <2>2. QED
      BY <1>1, <2>1, StepType, SeqStep, YieldStep, BaseStep, LeaveStep, DrivenStep, NavStep,
         IdleStep, HoldStep, Zenon
  <1>2. QED
    BY <1>1, Zenon DEF PathInv

(* The inductive invariant holds in every state of the path.               *)
THEOREM PathInvariant == Spec => []PathInv
  BY PathInit, PathStep, PTL DEF Spec

(* Whatever the leases, the base moves only on inputs younger than all of  *)
(* them together.                                                          *)
THEOREM MotionIsAlwaysFresh == Spec => []MotionIsFresh
  <1>1. PathInv => MotionIsFresh
    <2> SUFFICES ASSUME PathInv, Moving PROVE driven.age <= Lease + GateLease + DriverLease
      BY DEF MotionIsFresh
    <2>1. /\ driven.age <= Lease + GateLease + drivenAge /\ drivenAge <= DriverLease
      BY DEF PathInv, DrivenInv, Moving
    <2>2. driven.age \in Nat /\ drivenAge \in Nat
      BY VelocityAge DEF PathInv, TypeOK
    <2>3. QED
      BY <2>1, <2>2
  <1>2. QED
    BY <1>1, PathInvariant, PTL

(* A gate without leave stops the base within the driver's timeout.        *)
THEOREM BarredBaseStops == Spec => []StopsInTime
  <1>1. PathInv => StopsInTime
    <2> SUFFICES ASSUME PathInv, Moving PROVE barredFor <= DriverLease
      BY DEF StopsInTime
    <2>1. barredFor <= drivenAge /\ drivenAge <= DriverLease
      BY DEF PathInv, DrivenInv, Moving
    <2>2. barredFor \in Nat /\ drivenAge \in Nat
      BY DEF PathInv, TypeOK
    <2>3. QED
      BY <2>1, <2>2
  <1>2. QED
    BY <1>1, PathInvariant, PTL

(* In manual mode or under an E-stop Nav2 does not drive the base for      *)
(* longer than one period and the driver's timeout.                        *)
THEOREM HoldKeepsNavOut == Spec => []HoldOverNav
  <1>1. PathInv => HoldOverNav
    <2> SUFFICES ASSUME PathInv, Moving, driven.from = "nav"
                 PROVE  heldFor <= DriverLease + 1
      BY DEF HoldOverNav
    <2>1. drivenAge \in 0..DriverLease /\ heldFor \in 0..(DriverLease + 2)
      BY DEF PathInv, TypeOK
    <2>2. CASE Firm
      BY <2>1, <2>2 DEF PathInv, HoldInv
    <2>3. CASE ~Firm /\ holding
      BY <2>1, <2>3 DEF Firm
    <2>4. CASE ~holding
      BY <2>4 DEF PathInv, IdleInv
    <2>5. QED
      BY <2>2, <2>3, <2>4
  <1>2. QED
    BY <1>1, PathInvariant, PTL

(* Teleop's lease at the mux ends with its input's.                        *)
THEOREM TeleopAlwaysYields == Spec => []TeleopYields
  <1>1. PathInv => TeleopYields
    BY DEF PathInv, YieldInv, TypeOK, TeleopYields, TeleopLive
  <1>2. QED
    BY <1>1, PathInvariant, PTL

(* A release outweighs every packet older than it until the lease ends.    *)
THEOREM ReleaseAlwaysStands == Spec => []ReleaseStands
  <1>1. PathInv => ReleaseStands
    BY Zenon DEF PathInv, SeqInv, ReleaseStands
  <1>2. QED
    BY <1>1, PathInvariant, PTL

=============================================================================
