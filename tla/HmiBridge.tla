------------------------------ MODULE HmiBridge ------------------------------
(***************************************************************************)
(* hmi_bridge: the requests of the control station and what becomes of     *)
(* them.  A request is answered where it is handled, or when the service   *)
(* or the action it was passed on to calls back: Nav2 (goals), map_server  *)
(* (maps), mission_manager (configure, then start; pause, resume, stop)    *)
(* and the driver of the base (postures).  Those calls and their answers   *)
(* interleave with further requests, with the mission states that come in  *)
(* and with E-stops.                                                       *)
(*                                                                         *)
(* Requests are numbered as they come; a goal has its request's number.    *)
(* A call is sent, then served, then its answer is delivered.  One service *)
(* answers in the order of its calls.                                      *)
(*                                                                         *)
(* The process may end at any time, and is started again.  It loses its    *)
(* memory; what it called and sent is still carried out.                   *)
(***************************************************************************)
EXTENDS Integers

CONSTANTS
    MaxRequests,  \* bound: requests of one behaviour
    MaxBorn,      \* bound: requests received before the process ends for the last time
    Maps,         \* the maps stored on the robot
    InitialMap    \* initial_map, the map map_server was started with

Requests == 1..MaxRequests

\* What the bridge calls its map when it has read none.
Live == "live"

ASSUME BridgeConstants == MaxRequests \in Nat /\ MaxBorn \in Nat /\ InitialMap \in Maps

VARIABLES
    running,      \* the process is there
    born,         \* requests received before this life of the process
    asked,        \* requests received
    answers,      \* history: how often each request was answered
    connected,    \* the station is connected
    manual,       \* manualMode_
    estop,        \* estopActive()
    pendingGoto,  \* pendingGoto_, 0 for none
    navGoal,      \* navGoal_, 0 for none
    navGoalId,    \* navGoalId_, 0 for none
    goal,         \* Nav2: what became of the goal of each request
    told,         \* the goals whose response was delivered to this life of the bridge
    call,         \* what the service call of each request has come to
    target,       \* the map a load asks for
    mapId,        \* mapId_
    served,       \* map_server: the map it serves
    confirmed,    \* history: in this life a load succeeded, the last one with its bundle
    revision,     \* missionPlanRevision_
    built,        \* the plan each request built
    heard,        \* missionState_.state, as far as the guards tell it apart
    mission,      \* mission_manager: its state
    plan,         \* mission_manager: the plan it is configured with
    ordered       \* history: the request whose START was accepted last, 0 for none

life == <<running, born>>
requests == <<asked, answers>>
station == <<connected, manual, estop>>
goals == <<pendingGoto, navGoal, navGoalId, goal, told>>
maps == <<target, mapId, served, confirmed>>
manager == <<mission, plan, ordered>>
missions == <<revision, built, heard, manager>>
vars == <<life, requests, station, goals, call, maps, missions>>

Goals == {"none", "sent", "executing", "rejected", "ended"}
Calls == {"none", "posture", "control", "configure", "configured", "refused", "start", "done",
          "load", "loaded", "unloaded"}
MissionStates == {"idle", "ready", "starting", "running", "paused", "ended"}

\* Requests of this life.
Mine == {r \in Requests : r > born}

\* The mission_id of a plan is its map and its revision.  The same id may stand for other
\* points in another life, which begins at revision 0 again: "life" tells them apart.
Plans == [map : Maps \cup {Live}, revision : Nat, life : Nat]

SameId(p, q) == p.map = q.map /\ p.revision = q.revision

-----------------------------------------------------------------------------
(* Requests.                                                               *)

New == asked + 1

\* A request comes over the link; one of a station that has gone since is handled too.
Receive == asked < MaxRequests /\ asked' = New

Respond(r) == answers' = [answers EXCEPT ![r] = @ + 1]

RespondAtOnce == Receive /\ Respond(New)

\* A request is passed on to a service: its answer has to wait for that one's.
PassOn(stage) == ~estop /\ Receive /\ call' = [call EXCEPT ![New] = stage] /\ UNCHANGED answers

\* The answer to a call of a process that has ended goes nowhere.
Becomes(r, from, to) ==
    call[r] = from /\ call' = [call EXCEPT ![r] = IF r \in Mine THEN to ELSE "none"]

\* The service has answered: the request is closed.
Close(r, from) == Becomes(r, from, "none") /\ Respond(r) /\ UNCHANGED asked

\* A guard, a bad payload, a service that is not ready, a channel that is not known; under
\* an E-stop there is no other answer.
AnswerAtOnce ==
    /\ RespondAtOnce
    /\ UNCHANGED <<station, goals, call, maps, missions>>

\* The arm, the markers, the list of the maps, the battery policy.
Comply == ~estop /\ AnswerAtOnce

\* A photograph, if there is an image and the robot stands still.
HandleCapture == ~estop /\ AnswerAtOnce

\* A new name for a map, in its metadata.
RenameMap == heard = "idle" /\ navGoal = 0 /\ Comply

\* The pause a takeover sends to a running mission waits for no answer: MissionMoves.
SetMode(isManual) ==
    /\ ~estop /\ RespondAtOnce
    /\ manual' = isManual
    /\ UNCHANGED <<connected, estop, goals, call, maps, missions>>

\* The mission is idle, completed or failed, or nothing was heard of it.
MissionOver == heard # "busy"

\* New inspection points or locations.
SetWaypoints ==
    /\ ~estop /\ MissionOver /\ RespondAtOnce
    /\ revision' = revision + 1
    /\ UNCHANGED <<station, goals, call, maps, built, heard, manager>>

HandleBasePosture ==
    /\ PassOn("posture")
    /\ UNCHANGED <<station, goals, maps, missions>>

\* The driver of the base, or mission_manager on a control, has carried it out or not.
Serve(r) ==
    /\ Becomes(r, "posture", "done") \/ Becomes(r, "control", "done")
    /\ UNCHANGED <<requests, station, goals, maps, missions>>

OnDone(r) ==
    /\ Close(r, "done")
    /\ UNCHANGED <<station, goals, maps, missions>>

-----------------------------------------------------------------------------
(* Goals.                                                                  *)

\* The number of answers after the pending goto, if any, and the requests rs got theirs.
Settle(rs) == answers' = [r \in Requests |->
                            answers[r] + (IF r = pendingGoto THEN 1 ELSE 0)
                                       + (IF r \in rs THEN 1 ELSE 0)]

SettleGoto(rs) == Settle(rs) /\ pendingGoto' = 0

StartNavigation ==
    /\ ~estop /\ ~manual /\ MissionOver /\ pendingGoto = 0
    /\ Receive
    /\ goal' = [goal EXCEPT ![New] = "sent"]
    /\ pendingGoto' = New
    /\ UNCHANGED <<answers, station, navGoal, navGoalId, told, call, maps, missions>>

First(g) == goal[g] = "sent" /\ \A h \in 1..(g - 1) : goal[h] # "sent"

\* Nav2 drives to one goal: the one it accepts takes the place of the one before.
Nav2Accepts(g) ==
    /\ First(g)
    /\ goal' = [h \in Requests |-> IF h = g THEN "executing"
                                   ELSE IF goal[h] = "executing" THEN "ended" ELSE goal[h]]
    /\ UNCHANGED <<requests, station, pendingGoto, navGoal, navGoalId, told, call, maps, missions>>

Nav2Rejects(g) ==
    /\ First(g)
    /\ goal' = [goal EXCEPT ![g] = "rejected"]
    /\ UNCHANGED <<requests, station, pendingGoto, navGoal, navGoalId, told, call, maps, missions>>

\* The goal succeeds, fails or is cancelled.
Nav2Ends(g) ==
    /\ goal[g] = "executing"
    /\ goal' = [goal EXCEPT ![g] = "ended"]
    /\ UNCHANGED <<requests, station, pendingGoto, navGoal, navGoalId, told, call, maps, missions>>

NextResponse(g) ==
    /\ g \in Mine /\ goal[g] \notin {"none", "sent"} /\ g \notin told
    /\ \A h \in (born + 1)..(g - 1) : goal[h] = "none" \/ h \in told

\* Wrong variant: a response nobody waits for is not looked at.
OnGoalResponseToPending(g) ==
    /\ NextResponse(g)
    /\ told' = told \cup {g}
    /\ IF goal[g] = "rejected" \/ pendingGoto = 0 THEN UNCHANGED <<navGoal, navGoalId>>
       ELSE navGoal' = g /\ navGoalId' = g
    /\ SettleGoto({})
    /\ UNCHANGED <<asked, station, goal, call, maps, missions>>

OnGoalResponse(g) ==
    /\ NextResponse(g)
    /\ told' = told \cup {g}
    /\ IF goal[g] = "rejected" THEN UNCHANGED <<navGoal, navGoalId>>
       ELSE navGoal' = g /\ navGoalId' = g
    /\ SettleGoto({})
    /\ UNCHANGED <<asked, station, goal, call, maps, missions>>

OnResult(g) ==
    /\ goal[g] = "ended" /\ g \in told
    /\ g = navGoalId /\ navGoal # 0
    /\ navGoal' = 0
    /\ UNCHANGED <<requests, station, pendingGoto, navGoalId, goal, told, call, maps, missions>>

\* Wrong variant: the cancelled goto stays pending.
CancelNavigationKeepsPending ==
    /\ ~estop /\ Receive
    /\ Settle({New})
    /\ UNCHANGED <<station, goals, call, maps, missions>>

\* The pending goto is closed and the cancel answered; a goal with a handle is cancelled
\* at Nav2, which ends it (Nav2Ends).
CancelNavigation ==
    /\ ~estop /\ Receive
    /\ SettleGoto({New})
    /\ UNCHANGED <<station, navGoal, navGoalId, goal, told, call, maps, missions>>

\* Nav2 did not answer in time.
PublishNav ==
    /\ connected /\ pendingGoto # 0
    /\ SettleGoto({})
    /\ UNCHANGED <<asked, station, navGoal, navGoalId, goal, told, call, maps, missions>>

-----------------------------------------------------------------------------
(* Maps.                                                                   *)

\* Wrong variant: the map is taken over with the request.
SelectMapAtOnce(m) ==
    /\ heard = "idle" /\ navGoal = 0
    /\ PassOn("load")
    /\ target' = [target EXCEPT ![New] = m]
    /\ mapId' = m
    /\ UNCHANGED <<station, goals, served, confirmed, missions>>

SelectMap(m) ==
    /\ heard = "idle" /\ navGoal = 0
    /\ PassOn("load")
    /\ target' = [target EXCEPT ![New] = m]
    /\ UNCHANGED <<station, goals, mapId, served, confirmed, missions>>

Before(r, stages) == \A q \in 1..(r - 1) : call[q] \notin stages

ServeLoad(r) ==
    /\ Before(r, {"load"})
    /\ \/ Becomes(r, "load", "loaded") /\ served' = target[r]
       \/ Becomes(r, "load", "unloaded") /\ UNCHANGED served
    /\ UNCHANGED <<requests, station, goals, target, mapId, confirmed, missions>>

\* The bundle of m is read again: its files may have gone since the request was checked.
\* Points that were never stored are replaced by the stored ones, and keep the revision:
\* see StartIsConfigured.  A file that is no JSON object ends the process: Crash.
LoadMapBundle(m) ==
    \/ mapId' = m /\ confirmed' = TRUE
    \/ UNCHANGED mapId /\ confirmed' = FALSE

OnLoaded(r) ==
    /\ Before(r, {"load", "loaded", "unloaded"})
    /\ \/ Close(r, "loaded") /\ LoadMapBundle(target[r])
       \/ Close(r, "unloaded") /\ UNCHANGED <<mapId, confirmed>>
    /\ UNCHANGED <<station, goals, target, served, missions>>

-----------------------------------------------------------------------------
(* Missions.                                                               *)

\* The plan is built from the map and the points of this moment.
MakeMissionPlan ==
    /\ revision' = IF revision = 0 THEN 1 ELSE revision
    /\ built' = [built EXCEPT ![New] = [map |-> mapId, revision |-> revision', life |-> born]]

ConfigureAndStartMission ==
    /\ navGoal = 0 /\ pendingGoto = 0
    /\ PassOn("configure") /\ MakeMissionPlan
    /\ UNCHANGED <<station, goals, maps, heard, manager>>

\* mission_manager: a plan it takes ends a START that still waits.
ServeConfigure(r) ==
    /\ \/ /\ mission \in {"idle", "ready", "starting", "ended"}
          /\ Becomes(r, "configure", "configured")
          /\ mission' = "ready" /\ plan' = built[r]
       \/ Becomes(r, "configure", "refused") /\ UNCHANGED <<mission, plan>>
    /\ UNCHANGED <<requests, station, goals, maps, revision, built, heard, ordered>>

OnConfigured(r) ==
    /\ \/ Becomes(r, "configured", "start") /\ UNCHANGED requests
       \/ Close(r, "refused")
    /\ UNCHANGED <<station, goals, maps, missions>>

\* Wrong variant: START names no mission.
ServeStartOfAny(r) ==
    /\ Becomes(r, "start", "done")
    /\ IF mission \in {"ready", "starting"} THEN mission' = "starting" /\ ordered' = r
       ELSE UNCHANGED <<mission, ordered>>
    /\ UNCHANGED <<requests, station, goals, maps, revision, built, heard, plan>>

\* mission_manager: START names the mission that was configured for it.
ServeStart(r) ==
    /\ Becomes(r, "start", "done")
    /\ IF mission \in {"ready", "starting"} /\ SameId(built[r], plan)
       THEN mission' = "starting" /\ ordered' = r
       ELSE UNCHANGED <<mission, ordered>>
    /\ UNCHANGED <<requests, station, goals, maps, revision, built, heard, plan>>

\* Pause, resume, and stop or reset.
SendMissionControl ==
    /\ PassOn("control")
    /\ UNCHANGED <<station, goals, maps, missions>>

\* What mission_manager does of itself or on a control.
Moves == {<<"ready", "idle">>, <<"starting", "ready">>, <<"starting", "idle">>,
          <<"starting", "running">>, <<"running", "paused">>, <<"running", "ended">>,
          <<"running", "idle">>, <<"paused", "running">>, <<"paused", "ended">>,
          <<"paused", "idle">>, <<"ended", "idle">>}

MissionMoves(m) ==
    /\ <<mission, m>> \in Moves
    /\ mission' = m
    /\ UNCHANGED <<requests, station, goals, call, maps, revision, built, heard, plan, ordered>>

OnMissionState ==
    /\ heard' = CASE mission = "idle" -> "idle"
                  [] mission = "ended" -> "over"
                  [] OTHER -> "busy"
    /\ UNCHANGED <<requests, station, goals, call, maps, revision, built, manager>>

-----------------------------------------------------------------------------
OnSafety(engaged) ==
    /\ estop' = engaged
    /\ UNCHANGED <<requests, connected, manual, goals, call, maps, missions>>

PollLink(isConnected) ==
    /\ connected' = isConnected
    /\ UNCHANGED <<requests, manual, estop, goals, call, maps, missions>>

\* The calls that their service has still to serve.
Unserved == {"posture", "control", "configure", "start", "load"}

\* json throws at a field of another type than the one asked for, in a request, in a
\* heartbeat or in a file of a map, and nothing catches it: the process ends, and the
\* request gets no answer.  Its calls and its goals are on their way all the same.
Crash ==
    /\ running /\ running' = FALSE
    /\ UNCHANGED asked \/ Receive
    /\ born' = asked' /\ born' <= MaxBorn
    /\ connected' = FALSE /\ manual' = FALSE /\ estop' = FALSE
    /\ pendingGoto' = 0 /\ navGoal' = 0 /\ navGoalId' = 0
    /\ told' = {}
    /\ call' = [r \in Requests |-> IF call[r] \in Unserved THEN call[r] ELSE "none"]
    /\ mapId' = Live /\ confirmed' = FALSE
    /\ revision' = 0 /\ heard' = "over"
    /\ UNCHANGED <<answers, goal, target, served, built, manager>>

\* The constructor reads the bundle of the initial map, and only warns when it cannot.
ReadInitialMap == mapId' \in {InitialMap, Live}

\* The launch file starts the process again two seconds later: mission_manager and the
\* driver, which answer at once, have done with its calls by then.
Restart ==
    /\ ~running /\ running' = TRUE
    /\ \A r \in Requests : call[r] \in {"none", "load"}
    /\ ReadInitialMap
    /\ UNCHANGED <<born, requests, station, goals, call, target, served, confirmed, missions>>

Init ==
    /\ running = TRUE /\ born = 0
    /\ asked = 0 /\ answers = [r \in Requests |-> 0]
    /\ connected = FALSE /\ manual = FALSE /\ estop = FALSE
    /\ pendingGoto = 0 /\ navGoal = 0 /\ navGoalId = 0
    /\ goal = [r \in Requests |-> "none"] /\ told = {}
    /\ call = [r \in Requests |-> "none"]
    /\ mapId \in {InitialMap, Live} /\ served = InitialMap
    /\ target = [r \in Requests |-> InitialMap] /\ confirmed = FALSE
    /\ revision = 0 /\ plan = [map |-> Live, revision |-> 0, life |-> 0]
    /\ built = [r \in Requests |-> plan]
    /\ heard = "over" /\ mission = "idle" /\ ordered = 0

Request ==
    \/ AnswerAtOnce \/ Comply \/ HandleCapture \/ RenameMap
    \/ SetWaypoints \/ HandleBasePosture
    \/ \E isManual \in BOOLEAN : SetMode(isManual)
    \/ StartNavigation \/ CancelNavigation
    \/ \E m \in Maps : SelectMap(m)
    \/ ConfigureAndStartMission \/ SendMissionControl

Callback(r) == OnDone(r) \/ OnGoalResponse(r) \/ OnResult(r) \/ OnLoaded(r) \/ OnConfigured(r)

Bridge ==
    \/ Request \/ PublishNav
    \/ \E r \in Requests : Callback(r)
    \/ OnMissionState
    \/ \E on \in BOOLEAN : OnSafety(on) \/ PollLink(on)

Nav2(g) == Nav2Accepts(g) \/ Nav2Rejects(g) \/ Nav2Ends(g)

Service(r) == Serve(r) \/ ServeLoad(r) \/ ServeConfigure(r) \/ ServeStart(r)

Surroundings ==
    \/ \E r \in Requests : Nav2(r) \/ Service(r)
    \/ \E m \in MissionStates : MissionMoves(m)

Next ==
    \/ running /\ Bridge /\ UNCHANGED life
    \/ Surroundings /\ UNCHANGED life
    \/ Crash
    \/ Restart

Spec == Init /\ [][Next]_vars

-----------------------------------------------------------------------------
(* Properties.                                                             *)

TypeOK ==
    /\ running \in BOOLEAN /\ born \in 0..asked
    /\ asked \in 0..MaxRequests /\ answers \in [Requests -> Nat]
    /\ connected \in BOOLEAN /\ manual \in BOOLEAN /\ estop \in BOOLEAN
    /\ pendingGoto \in 0..asked /\ navGoal \in 0..asked /\ navGoalId \in 0..asked
    /\ goal \in [Requests -> Goals] /\ told \subseteq Requests
    /\ call \in [Requests -> Calls] /\ target \in [Requests -> Maps]
    /\ mapId \in Maps \cup {Live} /\ served \in Maps /\ confirmed \in BOOLEAN
    /\ revision \in Nat /\ built \in [Requests -> Plans]
    /\ heard \in {"idle", "over", "busy"} /\ mission \in MissionStates
    /\ plan \in Plans /\ ordered \in 0..asked

\* No request is forgotten and none is answered twice.  A request of this life of the
\* process that has no answer is the pending goto, which the timeout of the navigation
\* status closes, or waits for a service.  The response of Nav2 that comes after a cancel
\* or after the timeout answers nothing again, and neither does a service that was called
\* in an earlier life.
AnsweredOnce ==
    \A r \in 1..asked :
        IF r \in Mine
        THEN answers[r] = IF r = pendingGoto \/ call[r] # "none" THEN 0 ELSE 1
        ELSE answers[r] <= 1

\* A goal of this life that Nav2 executes and has told the bridge of is the one the bridge
\* holds a handle of, even when its request was closed long before: a cancel reaches it.
NoGoalUntracked == \A g \in told : goal[g] = "executing" => navGoal = g

\* The mission that runs is the one whose plan was built for the START that was accepted,
\* whatever other START, change of the points or of the map or end of the process came in
\* between.  Within one life a plan is its id here: points that could not be stored and
\* were replaced by a bundle read again are not told apart.
StartIsConfigured ==
    mission \in {"starting", "running", "paused"} => ordered # 0 /\ plan = built[ordered]

LoadUnderWay == \E r \in Requests : call[r] \in {"load", "loaded", "unloaded"}

\* Once a load has been confirmed to this life of the bridge, it stamps plans, captures and
\* points with the map that map_server serves whenever no load is under way, one that an
\* earlier life called for included, unless the files of that map went while it was loaded.
MapsAgree == confirmed /\ ~LoadUnderWay => mapId = served
=============================================================================
