# TLA+ verification of SHALOM's control plane

SHALOM is an inspection robot: a legged base (B2) with an arm, a stack of ROS 2
nodes that decide whether and how it may move (`src/robot/control`), a gateway
to the operator (`src/robot/gateway`) and a Qt operator station (`src/hmi`).
This directory holds TLA+ models of the nodes that decide about motion and of the
protocols between them and the operator, the TLC configurations that check
them, and TLAPS proofs of their main properties.

The models follow the code. Where the code and
`src/docs/control_architecture_contract.md` ("the contract" below) disagree,
the model has what the code does, and a run shows the disagreement.

## 1. The system

Every ROS node runs a single-threaded executor, so a callback is atomic and
callbacks interleave freely; between nodes there are topics (latest sample or
short queue), services (a reply that arrives later, or not) and Nav2 actions.

| Component | State it keeps | Operations | Talks to |
|---|---|---|---|
| `safety_manager` | safety state, fault latch, two E-stop inputs, heartbeat, 128 remembered responses | `/safety/command` (engage, release, resume, clear), `/safety/event`, physical E-stop, heartbeat, 50 ms timer | publishes `/safety/state` to gate, mission, HMI bridge |
| `motion_interlock_manager` | authority, pending authority, transition timer, 128 remembered responses | `/motion/authority/request`, `/motion/stopped`, 50 ms timer | publishes `/motion/authority`; raises a health fault at `safety_manager` |
| `base_motion_monitor` | last command and odometry with their times, candidate start of a stop | command, odometry, 20 Hz timer | publishes `/motion/stopped` |
| `mission_manager` | mission state, halt and resume targets, plan and checkpoint, pending START, one Nav2 goal | configure and control services, five subscriptions, 100 ms timer, Nav2 callbacks | Nav2; calls RESUME at `safety_manager` and REQUEST_BASE at the interlock |
| `safety_gate` | last safety state, authority and commands | their topics, 20 Hz timer | the only publisher of base commands |
| `twist_mux`, `joint_mux` | newest command per source | select by priority and freshness | feed the gate |
| `estop_bridge` | one TCP client, its last heartbeat | E-stop frames, timeout | heartbeat and E-stop commands to `safety_manager` |
| `teleop_bridge` | deadman, last UDP sequence number | UDP commands, timer | feeds the mux |
| `gateway_transport` | one TCP client, receive and send queues | accept, read, write, drain, on a thread of its own | used by the bridges |
| `hmi_bridge` | last states, pending goto, Nav2 goal, map, plan revision, manual mode | HMI requests, callbacks of services and actions, a 20 Hz manual hold | all of the above |
| HMI and SDK | two connections with a reconnect timer each, the robot's identity, requests that wait; jog controls | user actions, frames, timers | the bridges |

What makes it hard, and what correct means:

- **safety_manager**: two E-stop inputs from different sources, a fault that may
  arrive under an E-stop, retried commands, a watchdog checked only by a timer.
  Correct: motion is permitted only with a live heartbeat, no E-stop and no
  fault; every way back to NORMAL is an explicit new RESUME.
- **motion_interlock_manager**: stop feedback is late, lost, or from before the
  resource moved, and the timeout races with it. Correct: base and arm never
  have authority together, a handover rests on a stop or raises a fault, and
  every handover ends.
- **base_motion_monitor**: samples and ticks interleave. Correct: a reported stop
  means stillness for the settling time, and stillness is reported.
- **mission_manager**: goal responses, results and cancels are asynchronous and
  outlive the mission that caused them. Correct: no goal is forgotten, the
  checkpoint rests on results, a mission starts only with a standing START.
- **safety_gate, estop_bridge**: several timeouts in a row between a dead link and
  a zero command. Correct: the sum is bounded (one second in the contract).
- **teleop_bridge, twist_mux, safety_gate**: UDP packets lost, late or repeated,
  three timers of one period in any order, a lease at every stage. Correct: the
  base moves only on fresh input and only with the gate's leave.
- **transport and estop_bridge**: events of a dead and of a new connection. Correct:
  no command of an old connection takes effect out of order.
- **hmi_bridge**: a request is answered by the callback of another node, when goals,
  maps, missions and E-stops have long moved on. Correct: each request is answered
  once, and what the bridge believes of Nav2, the map and the mission is so.
- **HMI client**: two connections that fail apart from one another, to an address
  where another robot may answer. Correct: each is tried again for ever, the
  operator is shown the robot that is commanded and told the end of each request.
- **jog controls**: mouse and keys overlap, events the panel does not see, and four
  callers that enable and disable it. Correct: what drives is held, and nothing
  drives without a connection or under an E-stop.

`PROJECT.json` lists every component with its status, and every hazard with its
line and the properties that would catch it.

## 2. Modules

| Module | What it is |
|---|---|
| `SafetyManager` | the node `safety_manager` |
| `MotionPermit` | what it promises: a permit and two holds, each lifted by itself |
| `SafetyManagerProofs` | proofs about it |
| `MotionInterlock` | the node `motion_interlock_manager`, with the resources that move and the feedback under way |
| `ExclusiveAuthority` | what it promises: one holder, handed over after a confirmed stop or an alarm |
| `MotionInterlockProofs` | proofs about it |
| `StopMonitor` | the node `base_motion_monitor` |
| `StopMonitorProofs` | proofs about it |
| `MissionManager` | the node `mission_manager`, with Nav2 and the messages between them |
| `Itinerary` | what it promises: the legs of a plan one after the other, each visited in this run, and an end for what is stopped |
| `MissionManagerProofs` | proofs about it |
| `CommandPath` | `teleop_bridge`, the hold of `hmi_bridge`, `twist_mux`, `safety_gate` and the driver's timeout, composed |
| `CommandPathProofs` | proofs about it |
| `EstopLink` | the node `estop_bridge` over the `TcpServer` of `gateway_transport`, with its clients |
| `EstopLinkProofs` | proofs about it |
| `HmiBridge` | the requests of `hmi_bridge`, with Nav2, `map_server`, `mission_manager` and the base driver |
| `HmiBridgeProofs` | proofs about it |
| `OperatorLink` | the `BridgeClient` of the HMI, with the robots it may reach |
| `TeleopPanel` | the jog controls of the HMI: `TeleopPanel`, and `MainWindow` as far as it enables them |
| `StationProofs` | proofs about `OperatorLink` and `TeleopPanel` |
| `MC...` | the small instances TLC checks (the other modules a `.cfg` is named after are their own) |

An operator marked `Wrong variant` is a faulty version of the operator that
follows it. Nothing uses it: put in the place of the right one, it must break
the property named in `PROJECT.json`, which shows that the run can see the fault.

### SafetyManager

| Model | Code |
|---|---|
| `state`, `faultLatched` | `StateMachine::state_`, `fault_latched_` |
| `Accepts`, `Target`, `LatchAfter` | `StateMachine::dispatch` |
| `OnCommand` with `Guarded`, `EngageSoftware`, `ReleaseSoftware`, `Remember` | `on_command`, one branch each, and the cache |
| `OnEvent`, `OnPhysicalEstop`, `OnHeartbeatAlive`, `OnHeartbeatDead` | the subscriptions |
| `Tick`, `WatchdogExpired` | `tick` |
| `topic` | the sample a late subscriber of `/safety/state` finds |
| `Restart`, `boot` | the process dies and starts again |

A request that is still remembered is answered from the cache: a stuttering
step. An unknown operation only takes a place in the cache, as a rejected RESUME
does, and is left out; so is an event with an unknown code.

### MotionInterlock

`OnRequest` is the service, `OnStopped` the feedback with its check of age and
resource, `Tick` the timeout with the fault it raises, `AcceptTransition` the
helper that arms or clears the timer and publishes. Around the node, `moving`
says which resource really moves: only one with authority can start to, as the
gate ensures, and nothing forces it to stop soon. `ReportStopped` is the monitor's tick: it
stamps the present, but judges by odometry up to 500 ms old and commands up to 250 ms
old (`base_stop_detector.cpp:41-49`), so a resource that stood `MonitorLag` ago may be
reported stopped while it moves. The report then ages, waits, is overtaken or is lost.
What the detector's thresholds call standing is standing in this module; what a
verdict of the detector rests on is the subject of `StopMonitor`. `unconfirmed`, `alarmed`, `stoppingFor` and `movingFor` are history
variables: no guard of the node reads them. Feedback stamped in the future,
which the node rejects, does not occur, since the model has one clock.

### StopMonitor

`OnCommand` and `OnOdometry` are `observe_command` and `observe_odometry`; `Tick`
is the node's timer with `stopped(now)`, split into `Conditions` and `Settle`.
`quietFor` is history: how long no sample has shown motion.

### MissionManager

`Target`, `Accepts` and `Move` are `StateMachine::dispatch` with its halt and
resume targets; `Dispatch` is the node's `dispatch`, which halts the leaf or
clears the mission. `OnConfigure`, `OnStart`, `OnPauseOrResume`, `OnStop`,
`OnReset` are the services. The timer is `TickPendingStart`, `TickPausing`,
`TickRecovering` and `TickActive`, the last with the leaf (`Nav2Bt::tick` and
`navigate_to`). `goals` holds every goal Nav2 or a callback still has to finish:
how far Nav2 got with it, whether its response was heard, whether a cancel was
sent. `OnGoalResponse` and `OnResult` are the callbacks, told apart by
`generation`, as in the code.

The subscriptions to authority, odometry, command and stop feedback only store
their input for the timer. The timer therefore finds "ready" and "still" true
or false, by choice. That keeps every behaviour of the code and adds ones in
which the robot does not cooperate. A waypoint is its number and the dock the
number after the last one. `Restart` keeps Nav2's goals and marks them with
generation 0, the goals of a manager that is gone (`Orphaned`). It also forgets the plan
and the checkpoint, as nothing in the node stores them; `Itinerary` promises no more
(`Forget`). The contract does: see the disagreements below.

`ManualTakeover` and `LinkLost` are accepted by the state machine like a pause,
but no code in the node raises them. A mission's answers from its response
caches are stuttering steps and are left out. Plans are valid ones:
`validate_plan` has no effect on state.

### EstopLink

Two threads share `connected` and `events`, which are `connected_` and `events_`
under its lock. `Accept`, `Refuse`, `Announce`, `HandleReadable`, `DrainDecoder`,
`CloseClient` and `ReportClosed` are `runLoop`, cut where it changes what is shared:
`connected_` and the flag in `events_` change one after the other, and the executor
may look in between. `PollLink` is `pollLink` up to its loop over the frames,
`HandleFrame` one turn of that loop, during which the thread goes on. A batch
that is not handled yet keeps the timers waiting, since one executor runs all
callbacks. `PublishHeartbeat` is the 50 ms timer.

Around them, `unread` holds what a client sent and the thread has not read, and
connections wait to be accepted. A connection is a number, in the order clients
connect; a frame is whole and known by its connection and number. `Accept`
stands for the accepted client with any part of what it sent, since
`readInitialBytes` waits for at most 100 ms. `Refuse` also covers a presence
probe and a first frame of which too few bytes arrived. The loop looks at the
listening socket and the client in one turn; the model does either, which adds
orders and removes none. `handled`, `told` and `quiet` are history.

Left out are answers to the client and the queue they wait in, byte counts,
`stop()`, a `poll` that fails and ends the thread, and a crash of the process: its
successor has an empty state, and its clients have lost their connections.

### CommandPath

One unit of time is 50 ms, the period of the three 20 Hz timers; each fires once in
a unit, in any order (`due`), and `Advance` begins the next. A velocity is kept as
its source and the time since the input it comes from, which is what the
properties are about; its size matters only as zero or not.

| Model | Code |
|---|---|
| `DrainUdp` with `TakeFields`, `TeleopTick` with `LetGo`, `Forget` | `drainUdp` packet by packet, and the rest of `tick` of `teleop_bridge` (`draining`: between the two no other callback runs) |
| `OnRosCommand`, `OnRosDeadman` | its subscriptions |
| `SetHolding`, `TickSafety` | manual mode or E-stop in `hmi_bridge`, and the zero it publishes meanwhile |
| `FromTeleop`, `FromHold`, `FromNav`, `TeleopLive`, `HoldLive` | `twist_mux` from its configuration: priorities and leases; external |
| `OnSafety`, `OnAuthority`, `Decide`, `Output`, `GateTick`, `RestartGate` | `safety_gate` |
| `Moving`, `drivenAge` | the command timeout of the base driver; external |

Packets may arrive at any tick with any number, which covers loss, delay,
repetition and an HMI that starts over. Of a packet with a field of the wrong type the
fields before it have been taken over when `json` throws: the number, or the deadman
too, or part of the velocity too (`TakeFields`). What another peer or robot sends is not
delivered, as `drainUdp` drops it. `heldFor`, `barredFor` and `released` are
history. The topics deliver within the unit in which a sample is published.

### HmiBridge

Requests are numbered as they come, and a goal has its request's number. `answers`
counts what each was answered. `call` is the stage of a service call: sent
("load"), served ("loaded" or "unloaded"), delivered ("none"); one service answers in
the order of its calls, different ones in any order.

| Model | Code |
|---|---|
| `AnswerAtOnce`, `Comply`, `HandleCapture`, `RenameMap`, `SetMode`, `SetWaypoints` | requests that are answered where they are handled, with the guards of `handleRequest` and its handlers |
| `StartNavigation`, `OnGoalResponse`, `OnResult`, `CancelNavigation`, `PublishNav` | `startNavigation` and its callbacks, the cancel, and the timeout in `publishNav` |
| `SelectMap`, `OnLoaded`, `LoadMapBundle` | `maps/select` and its callback, which reads the bundle once more |
| `ConfigureAndStartMission`, `MakeMissionPlan`, `OnConfigured` | configure, and START in its callback |
| `SendMissionControl`, `HandleBasePosture`, `OnDone` | the calls with one answer |
| `OnMissionState`, `OnSafety`, `PollLink` | what the bridge hears; of a mission state the guards ask only whether it is idle, over or neither (`heard`) |
| `Crash`, `Restart`, `ReadInitialMap` | the process ends and the launch file starts it again; the constructor reads the initial map |
| `Nav2...`, `Serve...`, `MissionMoves` | the services; external here, and `mission_manager` has its own model |

A frame of a station that has gone since is handled all the same, so `Receive` does
not ask for a connection. Where a handler's check has two outcomes that no
property tells apart (a payload, a service that is not ready), the rejection is
`AnswerAtOnce`. A field of the wrong type is none of these: `request.p.value(...)` throws,
nothing catches it before `main.cpp:12`, and the process ends without an answer. This is
`Crash`, which may come with a request or, for heartbeats and the files of maps, without
one. It empties the memory of the process; goals and calls on their way go on, and answers
to a process that is gone go nowhere (`Becomes`). `born` is the last request of the lives
before, so `Mine` are the requests of this life. The process is started again after two
seconds (`bridge.launch.py:94-95`). `mission_manager` and the driver answer at once and
have done with its calls by then, which the model takes as given; a load of `map_server`
may still be under way. The constructor takes over `initial_map`, or stays with "live"
when it cannot read it, whatever `map_server` serves. `map_server` itself keeps running.

### OperatorLink

`link` is the state of the two sockets, `retry` the timers that run, `pending` the
table of requests. `ConnectToBridge`, `DisconnectFromBridge`, `SetEndpoint`, `Send` are
the client's methods, `Connected`, `Disconnected`, `ConnectFails`, `Retry`, `HandleFrame`,
`HandleResponse`, `CheckTimeouts` its slots; `CloseSockets` is what `closeSockets`,
`resetSession` and an aborted socket have in common. `ports` are the links that have a
port: the E-stop link has none (`estopPort_ == 0`) at an address whose port is the last
one, and is then neither dialled (`Dial`) nor tried again. Around them, `peer` is the robot
at the other end of a connection and `at` the one at the address, which may be
replaced; `wire` holds a request or its answer on the way, lost with its
connection. `connectToHost` on a socket that is still connecting is an error, and
the model has it so.

### TeleopPanel

`enabled`, `heldKey` and `driving` are `enabled_`, `heldKey_` and the velocity with its
timer: the panel publishes while the timer runs, and it runs from `press` to `release`, so
`driving` is the control whose velocity goes out. `Hears` is the condition at the head of
`eventFilter`; `KeyDown` and `KeyUp` are the events of the keyboard, which the panel
acts upon (`HearKeyDown`, `HearKeyUp`) or never sees. `pad` is the pad button that is
down, also when a key has put it there (`setDown`). `ShowView`, `FocusMoves` and
`WindowChanges` are what the operator does besides. That Qt releases a button that is down
when it is disabled or loses the focus is modelled from its documentation (`FocusLost`,
`SetJogEnabled`).

`Connected`, `Disconnected`, `OnTelemetry`, `EngageEstop` and `SetMode` are the slots of
`MainWindow` that call `setJogEnabled`; `OnSafety` is the frame that changes what the
next telemetry shows. `unheard` and `clicked` are history. The sliders, the posture
buttons and auto-repeat, which the filter drops, are left out.

## 3. What the runs show

| Run | Question | Instance |
|---|---|---|
| `safety` | latches, permit, resume and clear; refinement of `MotionPermit` | 3 request ids, cache of 2, timeout of 2 ticks |
| `interlock` | confirmed, bounded, fresh handovers that end; refinement of `ExclusiveAuthority` | 2 ids, cache of 1, feedback valid 1, transition 2, monitor's lag 1, two messages under way |
| `interlock_stale` | *violated*: a resource has stopped when the other gets authority | as before, one message under way, and a monitor without lag |
| `mission` | goals, resumed phase, standing START, stop not undone; refinement of `Itinerary`; goals that were given up end | a mission of two waypoints and one of a waypoint and the dock, 3 generations, 1 goal of a dead process |
| `mission_paused` | *violated*: in PAUSED Nav2 executes nothing | 1 goal |
| `stop_monitor` | a reported stop is settled, stillness is reported | the deployed values in units of 25 ms: 10, 20, 8, tick 2 |
| `estop_link` | losses announced, alive bounded, requests in order, no frame lost in silence | 2 connections, 2 frames each of 3 kinds, timeout 2, periods 1 and 2 |
| `command_path` | motion only on fresh input, with leave, not against a hold or a release | the leases of bridge, mux and driver one period, those of the gate none, 2 sequence numbers |
| `hmi_bridge` | one answer each, no goal out of reach, missions as ordered, one map, over ends of the process | 3 requests, of which 1 may precede the last restart, 2 maps |
| `operator_link` | each link tried for ever, the robot shown, no request vanishes | 2 robots, 1 request followed, addresses with one port or two |
| `teleop_panel` | only what is held drives, under control, and the controls come back | 2 directions |
| `teleop_panel_keys` | *violated*: a key that drives is down | the same |

The properties, in words:

- `EStopMirrorsInputs`: E_STOP_LATCHED exactly while an E-stop input is engaged.
- `FaultHeld`, `OnlyClearDropsFault`: a fault outlives E-stops and ends only by a new
  CLEAR_FAULT or a restart.
- `PermitBacked`: while the topic permits motion nothing stands against it, and
  the heartbeat is at most its timeout and one timer period old.
- `OnlyNewResumePermits`: only a RESUME not answered from the cache permits motion.
- `HandoverConfirmed`: authority with no confirmed stop of the previous holder
  means that a fault was raised.
- `StoppingBounded`, `HandoverEnds`: a stopping state ends, whatever is requested.
- `HandoverFresh`: when a stopping state ends in a handover, its resource stood no longer
  ago than the feedback's timeout and the monitor's lag together.
- `NoGoalForgotten`: every goal is the current one, will be cancelled when its
  response comes, or was cancelled. `GivenUpGoalsEnd` adds that they end.
- `ImplementsItinerary`: the checkpoint moves one leg at a time, only over a place Nav2
  reported reached in this run, and stays over every halt; a mission that completes has
  done every leg, one that is being stopped only ends, and none starts before the
  safety state was heard. `CheckpointBacked` is the consequence for the checkpoint.
- `PhaseMatchesCheckpoint`: an interrupted return resumes as a return.
- `StartAuthorised`: a mission starts only on a START that no refusal, latched
  state or loss of NORMAL has ended.
- `StopNotUndone`: once a STOP is accepted, the halt clears the mission.
- `StopIsSettled`, `StopIsReported`: a stop is reported neither early nor never.
- `LossAnnounced`: before anything a client says counts, an alive = false was published
  after the loss of every client before it.
- `AliveBounded`: alive rests on a heartbeat the thread read at most the timeout and
  both periods ago.
- `CommandsInOrder`: requests reach `safety_manager` at most once and in the order
  sent, over reconnects too, so that a release never follows a later engage.
- `FramesHeeded`: once all is settled, each frame that was sent was handled, or its
  connection is known dead or was refused. `handled` is the set of the frames handled, so
  that a frame lost between two others counts.
- `MotionIsFresh`: the base moves only on an input younger than the leases of
  `teleop_bridge`, the gate and the driver together.
- `StopsInTime`: once the gate has lost its leave, for whatever reason, the base
  stands after the driver's timeout.
- `HoldOverNav`: Nav2 cannot move a base that has been held for a period and the
  driver's timeout.
- `TeleopYields`: a hand that let go does not keep the mux beyond two leases, counted from
  its last packet.
- `ReleaseStands`: until the lease ends, no packet older than a release that has
  arrived takes the deadman again.
- `AnsweredOnce`: a request of this life of the process has no answer while it is pending,
  then exactly one; one of an earlier life never has two.
- `NoGoalUntracked`: a goal Nav2 executes and has told this life of the bridge of is the
  one whose handle the bridge holds, so that a cancel reaches it.
- `StartIsConfigured`: the mission that runs has the plan that was built for the
  START that was accepted.
- `MapsAgree`: once a load was confirmed to this life of the process, and with none under
  way, bridge and `map_server` have the same map, unless its files went during the load.
  Before, the code gives no such promise: see the disagreements below.
- `RetryArmed`: a link that is down, wanted and has a port has its timer running.
- `GeneralIsShown`: the robot shown is the one at the other end of the general link.
- `RequestsAccounted`: a request of the general link waits, or its end was told.
- `Reconnects`: each link comes up again and again while its port is open.
- `HeldOrUnheard`: what drives is held, or was let go of where the panel could not hear
  it; overlapping keys and the mouse leave nothing behind.
- `JogUnderControl`: nothing drives without a connection or under an E-stop shown.
- `JogReturns`: with a connection and no E-stop the controls are live, unless the operator
  has clicked the E-stop since. The click disables them before the robot has answered.

The type invariants of the modules that have proofs hold for every instance by those proofs.

### Bounds

Ages stop growing one unit after the last value any guard tells apart, so they
bound nothing. The caches hold fewer responses than there are ids, so a request
can be forgotten and sent again, which is the case that matters; with more room
the same steps take longer. `MaxInFlight` of two lets messages overtake one
another. `MaxGenerations` bounds the goals sent and given up in a behaviour, as
`cancel_navigation` takes a generation of its own: three are a goal, its cancel and the
goal that replaces it, so a goal that was given up is pending, executing, cancelled or
failed unheard while its replacement is driven to. `MaxOrphans` bounds the goals of dead
processes that are still with Nav2. The timeouts of the first two
nodes are a few ticks, of different lengths, so that every order of expiry and
arrival occurs; the stop monitor has the deployed values, and the proofs cover
every other value. In the E-stop link two
connections of two frames are enough for a loss, a reconnect and two frames in one
read; the kinds are a heartbeat, a request and bytes that are no frame, as the
code treats engage and release alike, and other frames as nothing. In the command path
a lease of one period ends before or after every timer of the next one, and a lease of
nothing, which the gate has for the command and the safety state, before or after every
timer of the same one; with two sequence numbers a command precedes a release or follows it, is
repeated, or comes after the counter was reset. In `hmi_bridge` three requests are a goto, a cancel and
a second goto, or two missions with a change of map between them; two maps tell the
old from the new. `MaxBorn` leaves two requests to the last life of the process and one to
those before: a goal, a load or a mission of an earlier life meets a goto and its cancel,
or a load and a mission, of the next. In `operator_link` one request is followed among any number that
do not matter to it, since requests do not affect each other, and two robots are
the one shown and another. Two directions of the jog controls are a key and the one
that takes over from it. Where there are proofs, they cover every other value of these bounds.
Request ids are symmetric, and symmetry is used in the run `safety` only, which
checks no liveness.

### Fairness

- `MotionInterlock!FairSpec`: the timer is served and time passes. Its timer is a wall
  timer in an executor whose callbacks do not block. Nothing is assumed of
  requests, feedback or the resources.
- `StopMonitor!FairSpec`: the same. That the inputs stay fresh is the premise of the
  property.
- `MissionManager!FairSpec`: response and result callbacks run, Nav2 answers goals, and it
  ends goals that were cancelled. Each is fair to all goals taken together: one life of the
  node sends no more than `MaxGenerations` goals, each with at most two answers, so none
  of them can be passed over for ever. The code's own recovery needs no more; that Nav2 *never* dies is not
  assumed.
- `OperatorLink!FairSpec`: a reconnect timer that runs fires, and the network completes a
  connection to a port that stays open. The timers are Qt's, on an event loop whose
  slots do not block. Frames, answers and the robot are owed nothing.

### Disagreements found

1. `interlock_stale`: `on_stopped` accepts any feedback that is fresh by its stamp. A
   sample taken before the resource started to move again completes the handover,
   although "base must stop before arm authority is granted"
   (`motion_interlock.cpp:50`). What does hold, and is proved, is `HandoverFresh`.
2. `mission_paused`: `cancel_navigation` forgets the goal at once, so PAUSING ends
   while Nav2 is still to hear of the cancel, or even of the goal. The contract
   (line 167) defines PAUSED as every active leaf halted. What does hold is
   `NoGoalForgotten`.
3. `teleop_panel_keys`: `eventFilter` drops key events while a text field has the focus or
   the panel's page is not shown, and gets none while another window has the keyboard.
   The release of a key is dropped with them, and nothing else stops the timer: the
   robot drives on with no key down, until the operator comes back to the page and
   presses something, or the connection or an E-stop ends it. `TeleopPanel.h` (lines
   11 and 20) says that publishing happens only while a control is held, and that keys
   cannot bypass the rule. What does hold is `HeldOrUnheard`.

Others came up while modelling. The models have what the code does, and no run is
devoted to them:

4. The contract (line 354) has `mission_manager` come back from a restart in PAUSED or
   READY from a stored checkpoint. The node stores none and starts in IDLE
   (`mission_manager_node.cpp:685-725`). `Itinerary` therefore lets a restart forget plan and
   checkpoint, and `ImplementsItinerary` says nothing of a mission's way across a restart.
5. `bridge_node.hpp:307-310` says of a pending goto that its answer is Nav2's on that goal.
   `goal_response_callback` settles whichever goto is pending (`bridge_node.cpp:1659-1678`):
   after a cancel and a second goto, the late response of the first answers the second.
   `AnsweredOnce` counts answers and does not say whose they are.
6. `src/robot/README.md:47` and `bridge.launch.py:68` want `hmi_bridge` and `map_server` on the
   same map. With an unreadable `initial_map` the constructor only warns and keeps "live"
   (164-186), and a bridge that was started again takes `initial_map` while `map_server` goes
   on with the map selected later. `MapsAgree` begins with the first load confirmed.
7. `loadMapBundle` (1051-1054) replaces points without a new `missionPlanRevision_`. If an
   earlier save of the points failed (611), a plan with the same `mission_id` may stand
   for other points. In the model a plan within one life is its id.
8. A field of the wrong type in a request ends `hmi_bridge` (531, 570, 654, 699, 814, 1143,
   1660, 1967, 2010: `json::type_error`, caught by `main.cpp:12`), where every other bad
   payload is answered. The same holds for a map file that is JSON but no object (1045).

## 4. What is proved

All theorems hold for every value of the constants under the named assumptions.
`SafetyConstants`, `InterlockConstants`, `MonitorConstants`, `LinkConstants` (of `EstopLink`) and
`PathConstants`: limits and times are natural numbers; the cache limit, the timer
period and the lease of the mux are positive. `MissionConstants`: a plan has at
least one waypoint. `BridgeConstants`: there is a map. `LinkConstants`
(of `OperatorLink`): there is a robot, and the empty name is none. `PanelConstants`:
the absence of a key is no direction. Request ids are any set.

**safety_manager.** `SafetyInv` is inductive. To the invariants the run checks it
adds that the published sample is the current state, that NORMAL with a required
heartbeat means a live one, and that a live heartbeat is no older than its timeout
and the present lateness of the timer. Without the last part `PermitBacked` is not
inductive: the permit is withdrawn only at a tick, and only this bounds what may
happen before. From it follow `EStopMirrorsInputs`, `FaultHeld` and `PermitBacked`.
`OnlyNewResumePermits` and `OnlyClearDropsFault` are action properties proved from
the same invariant: of all steps only the one that serves a new request can change
the state that way. `PermitRefinement` maps the state to a permit and a set of
holds and shows each step to be one of `MotionPermit` or a stutter.

**motion_interlock_manager.** `InterlockInv` adds that the timer runs exactly in a
stopping state and is as late as the node's timer at most, that the one resource
not confirmed stopped is the one that holds authority or gives it up, unless an
alarm was raised, and that a report still fresh bounds how long its resource can
have been moving, by its age and the monitor's lag. The last part links the messages to the world and gives
`HandoverFresh`. `ExclusiveRefinement` shows the node to implement
`ExclusiveAuthority`.

**base_motion_monitor.** `MonitorInv` adds to the types that a standing candidate is
no older than the last sample of motion. `ReportedStopIsSettled` follows.

**E-stop link.** `TypeInv` adds where the thread is when it has a client or frames left.
`LinkInv` says who is served and where each frame comes from: connections are
admitted in order, the client served is the last one admitted, a loss not told yet
is still among the events, and a frame the executor has drained belongs to a
connection whose predecessors' losses were told. `LossesAnnounced` follows. `AliveInv`
follows the youngest heartbeat from the events over the batch to the flag, each with
its own bound on its age, and gives `AliveIsBounded`. `OrderInv` says that the places a
frame passes (requests, batch, events, decoder, socket) are each sorted and each
precede the next; with admission in order this gives `CommandsOrdered` over any
number of connections.
`HeedInv` says that every frame of an
open connection is under way or in the set of those handled; a step that is neither a send nor a handling moves
frames from place to place and drops them only with their connection (`StepMovesOn`). When all
is settled nothing is under way, which gives `FramesAreHeeded`.

**mission_manager.** `Inv` adds to the types that a mission past IDLE has its plan
(`Planned`), that the leaf is busy only in an active mission and then with the waypoint
of the checkpoint (`LeafIsCurrent`), that goals are told apart by their generation, the
present one's is the leaf's and an older one that was heard was cancelled
(`GoalsAreKnown`), and that a pending START has consent behind it (`StartStands`).
`GoalsAreKnown` is the heart: without it a late result could count for the
waypoint after its own. `NoGoalForgotten`, `CheckpointBacked`, `PhaseMatchesCheckpoint`
follow, and the action properties `StartAuthorised` and `StopNotUndone`.
`ItineraryRefinement` maps the node to `Itinerary`: the machine with its halt target to a
stage, the index to the next leg (one more once the dock, which the index does not count,
is reached), and `reached` to the places visited. It needs two facts more:
that nothing is under way before the safety state is heard (`NotUnheard`), and that a goal
of this run that may still succeed aims at a leg done or due (`GoalsOnTour`), so that
a result which arrives after a halt visits a place of the plan. `ItineraryBacksCheckpoint`
shows that the promise is worth having: with the types it alone implies
`CheckpointBacked`.

**Command path.** `PathInv` bounds the age of a velocity at each stage by the lease
before it plus its own time there: `YieldInv` in the mux, `BaseInv` in the gate,
`DrivenInv` at the driver. `MotionIsFresh` is the sum. `LeaveInv` does the same for the time
since the gate lost its leave. `NavInv` (while teleop's lease lasts the gate's
command is not Nav2's), `HoldInv` and `IdleInv` give `HoldOverNav`, and `SeqInv` gives
`ReleaseStands`.

**hmi_bridge.** `Types` and `RequestInv` (every request of this life up to the last has an
answer or a place where it waits, never both; one of an earlier life is not answered
again) give `AnsweredOnce`. `GoalInv` adds the order in
which Nav2 takes and tells goals (`GoalOrder`): what it executes and has told is the
last it told. `MapInv` adds that loads are served and told in order, that the map
served is that of the newest load served, and that the bridge has it once that is told
to the life that asked for it: a load confirmed to this life is its own, and no load of
an earlier one is served after it (`ConfirmedIsOwn`). The missions need that the plans
of two lives are told apart while calls of both could be under way: by the time the
process is back, no call of a mission is left (`OneLife`).

**Station.** For the links, `Inv` has the types, that only an open connection has been
heard (`HeardIsUp`), and the three invariants the run checks. For the jog controls,
`JogInv` adds to `HeldOrUnheard` and `JogReturns` that only an enabled panel drives, which
is connected with no E-stop shown (`EnabledOnly`), and that a key that drives is the one
whose release the panel waits for (`KeyIsHeld`): without it a release that is heard could
find nothing to stop. `JogUnderControl` follows from `EnabledOnly`.

Only model-checked: liveness (`HandoverEnds`, `GivenUpGoalsEnd`, `StopIsReported`,
`Reconnects`), which the prover does not reach. Every safety property the runs check is
proved.

## 5. What is not modelled

- Texts: operator ids, reasons, details, names of owners.
- Nav2, `twist_mux`, `map_server` and the base driver are external: each is modelled
  from how the code uses it and from its configuration. Nav2 takes goals in the
  order they were sent, and a new one preempts the one it executes.
- `joint_mux` and the arm's output of the gate: the same freshness rule as the base's
  without its priorities, for an output that is disabled until the arm can report
  its stop.
- `capture_bt` and `stair_bt`: no executor of the operation registry uses them.
- The send queue of `TcpServer` and its `stop()`.
- In `hmi_bridge`: telemetry, lists, encoded maps and images, sensor health, the files of
  maps and captures. They are computed from the last message and sent; nothing
  waits for them.
- In the HMI: views, dialogs, panels other than the jog controls, map and robot drawing,
  settings, the event log, the local database; and the SDKs, three copies of one client.
  This is more than half of the repository's code. It shows what the client
  holds and calls its methods; it has no protocol of its own.
- Frame headers and payloads: plain encoding.
- Two clocks: stamps are compared in ROS time and timeouts in steady time. The models
  have one clock.
- The composition of mission, supervisor, interlock and Nav2 in one module: each
  takes the others' moves as input in any order, which allows more than the
  composition would; together they are too many states for TLC.
- Simulation, packaging, configuration of external packages, document generators.

## 6. Plan

1. The end-to-end time from a dead station to a standing base: the bounds of `EstopLink`,
   `SafetyManager` and `CommandPath`, each proved, added in one module over one clock,
   against the second the contract allows.
2. A control plane that composes gate, authority and stop monitor, for what a dead
   supervisor, a dead interlock and a latched E-stop do to a handover and to PAUSING.
3. Abstract specifications of `hmi_bridge` (a request and its one answer) and of the
   command path (a base that follows one live source), and the refinements.
4. Two races the models have and no property speaks of: a heartbeat of a lost client,
   drained together with the connection of the next (`EstopLink`), and a map selected
   while a goto waits for Nav2's answer (`HmiBridge`).
5. The sending side of `TcpServer` with its bounded queue, and `joint_mux`.
