----------------------------- MODULE CommandPath -----------------------------
(***************************************************************************)
(* The way of a velocity from the operator's hand and from Nav2 to the     *)
(* base: teleop_bridge (UDP and ROS inputs, deadman, lease), the hold of   *)
(* hmi_bridge in manual mode, twist_mux, safety_gate and the driver's own  *)
(* command timeout.                                                        *)
(*                                                                         *)
(* One unit of time is the period of the three 20 Hz timers.  Each of them *)
(* fires once in a unit, in any order.  A topic delivers within the unit.  *)
(* UDP loses, repeats, delays and reorders packets, and the HMI that sends *)
(* them may start over: any packet may arrive at any tick.  A velocity is  *)
(* kept as its source and the time since the input it comes from.          *)
(***************************************************************************)
EXTENDS Integers

CONSTANTS
    Lease,        \* command_timeout_ms of teleop_bridge
    MuxLease,     \* timeout of every input of twist_mux
    GateLease,    \* command_timeout_ms of safety_gate
    StateLease,   \* safety_state_timeout_ms of safety_gate
    DriverLease,  \* the base driver's command timeout
    MaxSeq        \* bound: sequence numbers of UDP packets

ASSUME PathConstants ==
    /\ Lease \in Nat /\ GateLease \in Nat /\ StateLease \in Nat /\ DriverLease \in Nat
    /\ MuxLease \in Nat \ {0}
    /\ MaxSeq \in Nat

VARIABLES
    going,       \* teleop_bridge: command_ is not zero
    inputAge,    \* teleop_bridge: time since last_command_
    udpDeadman, rosDeadman,
    lastSeq,     \* teleop_bridge: last_udp_sequence_, 0 for none
    draining,    \* teleop_bridge: in a tick, emptying the socket
    teleopAge,   \* twist_mux: time since teleop was heard
    holdAge,     \* twist_mux: time since manual_hold was heard
    base,        \* safety_gate: base_command_
    baseAge,     \* safety_gate: time since last_base_command_
    safety,      \* safety_gate: what safety_state_ lets it do
    safetyAge,   \* safety_gate: time since last_state_
    authority,   \* safety_gate: authority_ = BASE_ACTIVE
    driven,      \* driver: the last velocity
    drivenAge,   \* driver: time since it came
    holding,     \* hmi_bridge: manualMode_ || estopEngaged_
    due,         \* timers that have not fired in this unit
    heldFor,     \* history: how long hmi_bridge has been holding
    released,    \* history: the highest release packet read since lastSeq was last reset
    barredFor    \* history: time since the gate last had leave to pass a command

link == <<going, inputAge, udpDeadman, rosDeadman, lastSeq, draining>>
mux == <<teleopAge, holdAge>>
gate == <<base, baseAge, safety, safetyAge, authority>>
driver == <<driven, drivenAge>>
history == <<heldFor, barredFor, released>>
vars == <<link, mux, gate, driver, holding, due, history>>

Timers == {"teleop", "hold", "gate"}

\* Ages stop growing one unit after the last value a guard or a property tells apart.
Older(age, limit) == IF age <= limit THEN age + 1 ELSE age
InputLimit == Lease + GateLease + DriverLease

Zero == [from |-> "none", age |-> 0]
Velocity(source, age) == [from |-> source, age |-> age]
Aged(v) == IF v = Zero THEN Zero ELSE [v EXCEPT !.age = Older(@, InputLimit)]

-----------------------------------------------------------------------------
(* twist_mux forwards a message when no input above its own is live.        *)

TeleopLive == teleopAge <= MuxLease
HoldLive == holdAge <= MuxLease

Forward(v) == base' = v /\ baseAge' = 0 /\ UNCHANGED <<safety, safetyAge, authority>>

FromTeleop(v) == teleopAge' = 0 /\ UNCHANGED holdAge /\ Forward(v)

FromHold ==
    /\ holdAge' = 0 /\ UNCHANGED teleopAge
    /\ IF TeleopLive THEN UNCHANGED gate ELSE Forward(Zero)

\* A velocity of Nav2, at any time.
FromNav ==
    /\ IF TeleopLive \/ HoldLive THEN UNCHANGED gate ELSE Forward(Velocity("nav", 0))
    /\ UNCHANGED <<link, mux, driver, holding, due, history>>

-----------------------------------------------------------------------------
(* teleop_bridge.                                                          *)

Packets == [seq : 1..MaxSeq, go : BOOLEAN]

\* A command of the UDP client or of ROS takes the place of the one before.
TakeCommand(go) == going' = go /\ inputAge' = 0

\* History: a release has been read.
NoteRelease(p) == released' = IF p.go \/ p.seq < released THEN released ELSE p.seq

\* The fields are taken one by one.  If json throws at one of the wrong type, those before
\* it are kept: the number, or the deadman too, or some of the velocity too.
TakeFields(p) ==
    /\ lastSeq' = p.seq
    /\ \/ udpDeadman' = p.go /\ TakeCommand(p.go) /\ NoteRelease(p)
       \/ UNCHANGED <<udpDeadman, going, inputAge, released>>
       \/ /\ udpDeadman' = p.go /\ NoteRelease(p)
          /\ going' \in {going, going \/ p.go, FALSE} /\ UNCHANGED inputAge

\* Wrong variant: the packet that came last counts, whatever its number.
DrainUdpInOrderOfArrival(p) ==
    /\ "teleop" \in due /\ draining' = TRUE
    /\ TakeFields(p)
    /\ UNCHANGED <<rosDeadman, mux, gate, driver, holding, due, heldFor, barredFor>>

\* One packet of the loop that empties the socket at the start of a tick.
DrainUdp(p) ==
    /\ "teleop" \in due /\ draining' = TRUE
    /\ IF p.seq > lastSeq THEN TakeFields(p)
       ELSE NoteRelease(p) /\ UNCHANGED <<going, inputAge, lastSeq, udpDeadman>>
    /\ UNCHANGED <<rosDeadman, mux, gate, driver, holding, due, heldFor, barredFor>>

\* A command or the deadman of a joystick on the robot.  Here and below, a value that is
\* repeated changes nothing and is left out.
OnRosCommand(go) ==
    /\ ~draining
    /\ TakeCommand(go)
    /\ UNCHANGED <<udpDeadman, rosDeadman, lastSeq, draining>>
    /\ UNCHANGED <<mux, gate, driver, holding, due, history>>

OnRosDeadman(on) ==
    /\ ~draining /\ on # rosDeadman
    /\ rosDeadman' = on
    /\ UNCHANGED <<going, inputAge, udpDeadman, lastSeq, draining>>
    /\ UNCHANGED <<mux, gate, driver, holding, due, history>>

Deadman == udpDeadman \/ rosDeadman

\* Wrong variant: a deadman that is held is enough.
FreshWhileHeld == Deadman \/ inputAge <= Lease

Fresh == inputAge <= Lease

\* The end of the lease lets an HMI that starts over count from the beginning.
Forget ==
    /\ udpDeadman' = FALSE
    /\ IF Fresh THEN UNCHANGED <<lastSeq, released>> ELSE lastSeq' = 0 /\ released' = 0

\* Wrong variant: a zero is published in place of nothing.
LetGoWithZero == Forget /\ FromTeleop(Zero)

\* Nobody holds a deadman or the last command is too old: nothing is published.
LetGo == Forget /\ UNCHANGED <<mux, gate>>

TeleopTick ==
    /\ "teleop" \in due /\ due' = due \ {"teleop"}
    /\ draining' = FALSE
    /\ IF Deadman /\ Fresh
       THEN /\ FromTeleop(IF going THEN Velocity("teleop", inputAge) ELSE Zero)
            /\ UNCHANGED <<udpDeadman, lastSeq, released>>
       ELSE LetGo
    /\ UNCHANGED <<going, inputAge, rosDeadman, driver, holding, heldFor, barredFor>>

-----------------------------------------------------------------------------
(* hmi_bridge.                                                             *)

\* Manual mode or an E-stop begins, or the last of them ends.
SetHolding(on) ==
    /\ on # holding /\ holding' = on
    /\ heldFor' = 0
    /\ UNCHANGED <<link, mux, gate, driver, due, barredFor, released>>

\* Wrong variant: the hold is published when it begins and not again.
TickSafetyOnce ==
    /\ "hold" \in due /\ due' = due \ {"hold"}
    /\ IF holding /\ heldFor = 0 THEN FromHold ELSE UNCHANGED <<mux, gate>>
    /\ UNCHANGED <<link, driver, holding, history>>

TickSafety ==
    /\ "hold" \in due /\ due' = due \ {"hold"}
    /\ IF holding THEN FromHold ELSE UNCHANGED <<mux, gate>>
    /\ UNCHANGED <<link, driver, holding, history>>

-----------------------------------------------------------------------------
(* safety_gate and the driver.                                             *)

Leave == safety = "pass" /\ safetyAge <= StateLease /\ authority

NoteLeave == barredFor' = IF Leave' THEN 0 ELSE barredFor

\* NORMAL passes, INITIALIZING, CONTROLLED_STOP and FAULT command zero, and an
\* E-stop or a state the gate does not know blocks.
OnSafety(state) ==
    /\ safety' = state /\ safetyAge' = 0
    /\ UNCHANGED <<link, mux, base, baseAge, authority, driver, holding, due, heldFor, released>>
    /\ NoteLeave

OnAuthority(isBase) ==
    /\ isBase # authority /\ authority' = isBase
    /\ UNCHANGED <<link, mux, base, baseAge, safety, safetyAge, driver, holding, due, heldFor,
                   released>>
    /\ NoteLeave

\* Wrong variant: the last state heard counts for ever.
DecideUnaware == safety

Decide == IF safetyAge > StateLease THEN "block" ELSE safety

Output ==
    IF Decide = "pass" /\ authority /\ baseAge <= GateLease THEN base ELSE Zero

GateTick ==
    /\ "gate" \in due /\ due' = due \ {"gate"}
    /\ IF Decide = "block" THEN UNCHANGED driver ELSE driven' = Output /\ drivenAge' = 0
    /\ UNCHANGED <<link, mux, gate, holding, history>>

\* The gate starts over and knows nothing.
RestartGate ==
    /\ base' = Zero /\ baseAge' = 0
    /\ safety' = "zero" /\ safetyAge' = StateLease + 1 /\ authority' = FALSE
    /\ UNCHANGED <<link, mux, driver, holding, due, history>>

Moving == driven # Zero /\ drivenAge <= DriverLease

-----------------------------------------------------------------------------
Advance ==
    /\ due = {} /\ due' = Timers
    /\ inputAge' = Older(inputAge, Lease + MuxLease)
    /\ teleopAge' = Older(teleopAge, MuxLease) /\ holdAge' = Older(holdAge, MuxLease)
    /\ base' = Aged(base) /\ baseAge' = IF base = Zero THEN 0 ELSE Older(baseAge, GateLease)
    /\ safetyAge' = Older(safetyAge, StateLease)
    /\ IF Moving /\ drivenAge < DriverLease
       THEN driven' = Aged(driven) /\ drivenAge' = drivenAge + 1
       ELSE driven' = Zero /\ drivenAge' = 0
    /\ heldFor' = IF holding THEN Older(heldFor, DriverLease + 1) ELSE 0
    /\ UNCHANGED <<going, udpDeadman, rosDeadman, lastSeq, draining>>
    /\ UNCHANGED <<safety, authority, holding, released>>
    /\ barredFor' = IF Leave' THEN 0 ELSE Older(barredFor, DriverLease)

Init ==
    /\ going = FALSE /\ inputAge = Lease + MuxLease + 1
    /\ udpDeadman = FALSE /\ rosDeadman = FALSE /\ lastSeq = 0 /\ draining = FALSE
    /\ teleopAge = MuxLease + 1 /\ holdAge = MuxLease + 1
    /\ base = Zero /\ baseAge = 0
    /\ safety = "zero" /\ safetyAge = StateLease + 1 /\ authority = FALSE
    /\ driven = Zero /\ drivenAge = 0
    /\ holding = FALSE
    /\ due = Timers
    /\ heldFor = 0 /\ barredFor = DriverLease + 1 /\ released = 0

Command ==
    \/ \E p \in Packets : DrainUdp(p)
    \/ TeleopTick
    \/ \E go \in BOOLEAN : OnRosCommand(go)
    \/ \E on \in BOOLEAN : OnRosDeadman(on)
    \/ FromNav

Supervise ==
    \/ \E on \in BOOLEAN : SetHolding(on)
    \/ TickSafety
    \/ \E state \in {"pass", "zero", "block"} : OnSafety(state)
    \/ \E isBase \in BOOLEAN : OnAuthority(isBase)
    \/ GateTick
    \/ RestartGate

Next == Command \/ Supervise \/ Advance

Spec == Init /\ [][Next]_vars

-----------------------------------------------------------------------------
(* Properties.                                                             *)

Velocities == {Zero} \cup [from : {"teleop", "nav"}, age : 0..(InputLimit + 1)]

\* Types of every variable.
TypeOK ==
    /\ going \in BOOLEAN /\ udpDeadman \in BOOLEAN /\ rosDeadman \in BOOLEAN
    /\ draining \in BOOLEAN
    /\ inputAge \in 0..(Lease + MuxLease + 1) /\ lastSeq \in 0..MaxSeq
    /\ teleopAge \in 0..(MuxLease + 1) /\ holdAge \in 0..(MuxLease + 1)
    /\ base \in Velocities /\ baseAge \in 0..(GateLease + 1)
    /\ safety \in {"pass", "zero", "block"} /\ safetyAge \in 0..(StateLease + 1)
    /\ authority \in BOOLEAN
    /\ driven \in Velocities /\ drivenAge \in 0..DriverLease
    /\ holding \in BOOLEAN /\ due \subseteq Timers
    /\ heldFor \in 0..(DriverLease + 2) /\ barredFor \in 0..(DriverLease + 1)
    /\ released \in 0..MaxSeq

\* The base moves only on an input younger than the leases on its way together,
\* however the timers, the sources and the two subscribers interleave.
MotionIsFresh == Moving => driven.age <= Lease + GateLease + DriverLease

\* Once the gate has lost its leave (another safety state, a silent supervisor,
\* authority taken away) the base stands after the driver's timeout.
StopsInTime == Moving => barredFor <= DriverLease

\* Nav2 cannot move a base that hmi_bridge has been holding for a period and the
\* driver's timeout, whatever teleop sends and then stops sending.
HoldOverNav == Moving /\ driven.from = "nav" => heldFor <= DriverLease + 1

\* An operator who lets go, or whose packets stop, does not keep the mux: while
\* teleop's lease there lasts, its last input is no older than the two leases.
TeleopYields == TeleopLive => inputAge <= Lease + MuxLease

\* Until the lease ends, no packet older than a release that has arrived holds
\* the deadman again, late, repeated or out of order as it may come.
ReleaseStands == udpDeadman => released <= lastSeq
=============================================================================
