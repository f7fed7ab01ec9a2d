--------------------------- MODULE HmiBridgeProofs ---------------------------
(***************************************************************************)
(* Proofs about hmi_bridge, for every number of requests and every set of  *)
(* maps.                                                                   *)
(***************************************************************************)
EXTENDS HmiBridge, TLAPS

USE BridgeConstants

(* The steps of one life of the process by what they change: the requests  *)
(* that are answered at once, the goals, the calls, the missions and the   *)
(* station.                                                                *)
AtOnce ==
    \/ AnswerAtOnce \/ Comply \/ HandleCapture \/ RenameMap
    \/ \E isManual \in BOOLEAN : SetMode(isManual)

GoalStep ==
    \/ StartNavigation \/ CancelNavigation \/ PublishNav
    \/ \E g \in Requests : \/ Nav2Accepts(g) \/ Nav2Rejects(g) \/ Nav2Ends(g)
                           \/ OnGoalResponse(g) \/ OnResult(g)

CallStep ==
    \/ HandleBasePosture \/ SendMissionControl
    \/ \E r \in Requests : Serve(r) \/ OnDone(r) \/ OnConfigured(r)

MapStep ==
    \/ \E m \in Maps : SelectMap(m)
    \/ \E r \in Requests : ServeLoad(r) \/ (running /\ OnLoaded(r))

MissionStep ==
    \/ SetWaypoints \/ (running /\ ConfigureAndStartMission) \/ OnMissionState
    \/ \E r \in Requests : ServeConfigure(r) \/ ServeStart(r)
    \/ \E m \in MissionStates : MissionMoves(m)

StationStep == \E on \in BOOLEAN : OnSafety(on) \/ PollLink(on)

LifeStep ==
    /\ AtOnce \/ GoalStep \/ CallStep \/ MapStep \/ MissionStep \/ StationStep
    /\ UNCHANGED life

LEMMA Steps == Next => LifeStep \/ Crash \/ Restart
  <1> DEFINE Step == AtOnce \/ GoalStep \/ CallStep \/ MapStep \/ MissionStep \/ StationStep
  <1>1. ASSUME running, Request
        PROVE  Step
    <2>1. CASE AnswerAtOnce \/ Comply \/ HandleCapture \/ RenameMap
      BY <2>1, Zenon DEF AtOnce
    <2>2. CASE \E isManual \in BOOLEAN : SetMode(isManual)
      BY <2>2, Zenon DEF AtOnce
    <2>3. CASE StartNavigation \/ CancelNavigation
      BY <2>3, Zenon DEF GoalStep
    <2>4. CASE HandleBasePosture \/ SendMissionControl
      BY <2>4, Zenon DEF CallStep
    <2>5. CASE \E m \in Maps : SelectMap(m)
      BY <2>5, Zenon DEF MapStep
    <2>6. CASE SetWaypoints \/ ConfigureAndStartMission
      BY <1>1, <2>6, Zenon DEF MissionStep
    <2>7. QED
      BY <1>1, <2>1, <2>2, <2>3, <2>4, <2>5, <2>6, Zenon DEF Request
  <1>2. ASSUME running, NEW r \in Requests, Callback(r)
        PROVE  Step
    <2>1. CASE OnDone(r) \/ OnConfigured(r)
      BY <2>1, Zenon DEF CallStep
    <2>2. CASE OnGoalResponse(r) \/ OnResult(r)
      BY <2>2, Zenon DEF GoalStep
    <2>3. CASE OnLoaded(r)
      BY <1>2, <2>3, Zenon DEF MapStep
    <2>4. QED
      BY <1>2, <2>1, <2>2, <2>3, Zenon DEF Callback
  <1>3. ASSUME running, Bridge
        PROVE  Step
    <2>1. CASE PublishNav
      BY <2>1, Zenon DEF GoalStep
    <2>2. CASE OnMissionState
      BY <2>2, Zenon DEF MissionStep
    <2>3. CASE \E on \in BOOLEAN : OnSafety(on) \/ PollLink(on)
      BY <2>3, Zenon DEF StationStep
    <2>4. QED
      BY <1>1, <1>2, <1>3, <2>1, <2>2, <2>3, Zenon DEF Bridge
  <1>4. ASSUME Surroundings
        PROVE  Step
    <2>1. ASSUME NEW r \in Requests, Nav2(r)
          PROVE  Step
      BY <2>1, Zenon DEF Nav2, GoalStep
    <2>2. ASSUME NEW r \in Requests, Service(r)
          PROVE  Step
      <3>1. CASE Serve(r)
        BY <3>1, Zenon DEF CallStep
      <3>2. CASE ServeLoad(r)
        BY <3>2, Zenon DEF MapStep
      <3>3. CASE ServeConfigure(r) \/ ServeStart(r)
        BY <3>3, Zenon DEF MissionStep
      <3>4. QED
        BY <2>2, <3>1, <3>2, <3>3, Zenon DEF Service
    <2>3. CASE \E m \in MissionStates : MissionMoves(m)
      BY <2>3, Zenon DEF MissionStep
    <2>4. QED
      BY <1>4, <2>1, <2>2, <2>3, Zenon DEF Surroundings
  <1>5. QED
    BY <1>3, <1>4, Zenon DEF Next, LifeStep

LEMMA AtOnceIs ==
    ASSUME AtOnce
    PROVE  /\ asked < MaxRequests /\ asked' = asked + 1
           /\ answers' = [answers EXCEPT ![asked + 1] = @ + 1]
           /\ UNCHANGED <<connected, estop, goals, call, maps, missions>>
           /\ manual' \in {manual, TRUE, FALSE}
  <1>1. CASE AnswerAtOnce \/ Comply \/ HandleCapture \/ RenameMap
    <2>1. AnswerAtOnce
      BY <1>1, Zenon DEF Comply, HandleCapture, RenameMap
    <2>2. QED
      BY <2>1, Zenon DEF AnswerAtOnce, RespondAtOnce, Receive, Respond, New, station
  <1>2. CASE \E isManual \in BOOLEAN : SetMode(isManual)
    BY <1>2, Zenon DEF SetMode, RespondAtOnce, Receive, Respond, New
  <1>3. QED
    BY <1>1, <1>2, Zenon DEF AtOnce

-----------------------------------------------------------------------------
(* Types.                                                                  *)

RequestType ==
    /\ asked \in 0..MaxRequests /\ answers \in [Requests -> Nat]
    /\ running \in BOOLEAN /\ born \in 0..asked
StationType == connected \in BOOLEAN /\ manual \in BOOLEAN /\ estop \in BOOLEAN
GoalType ==
    /\ pendingGoto \in 0..asked /\ navGoal \in 0..asked /\ navGoalId \in 0..asked
    /\ goal \in [Requests -> Goals] /\ told \subseteq Requests
    /\ \A r \in Requests : r > asked => goal[r] = "none"
    /\ pendingGoto # 0 => pendingGoto > born
    /\ \A g \in told : born < g /\ g <= asked
CallType ==
    /\ call \in [Requests -> Calls]
    /\ \A r \in Requests : r > asked => call[r] = "none"
    /\ \A r \in Requests : r > born \/ call[r] \in Unserved \cup {"none"}
MapType ==
    /\ target \in [Requests -> Maps] /\ mapId \in Maps \cup {Live} /\ served \in Maps
    /\ confirmed \in BOOLEAN
MissionType ==
    /\ revision \in Nat /\ built \in [Requests -> Plans]
    /\ heard \in {"idle", "over", "busy"} /\ mission \in MissionStates
    /\ plan \in Plans /\ ordered \in 0..asked

Types == RequestType /\ StationType /\ GoalType /\ CallType /\ MapType /\ MissionType

LEMMA TypesSuffice == Types => TypeOK
  BY Zenon DEF Types, TypeOK, RequestType, StationType, GoalType, CallType, MapType, MissionType

LEMMA AtOnceTypes == ASSUME Types, AtOnce, UNCHANGED life PROVE Types'
  <1>1. RequestType'
    BY AtOnceIs DEF Types, RequestType, Requests, life
  <1>2. StationType'
    BY AtOnceIs, Zenon DEF Types, StationType
  <1>3. GoalType'
    <2>1. /\ UNCHANGED <<pendingGoto, navGoal, navGoalId, goal, told>>
          /\ asked' = asked + 1 /\ asked \in Nat /\ UNCHANGED born
      BY AtOnceIs DEF goals, Types, RequestType, life
    <2>2. QED
      BY <2>1 DEF Types, GoalType, Requests
  <1>4. CallType'
    BY AtOnceIs DEF Types, CallType, RequestType, Requests, life
  <1>5. MapType'
    BY AtOnceIs, Zenon DEF Types, MapType, maps
  <1>6. MissionType'
    BY AtOnceIs DEF Types, MissionType, RequestType, missions, manager
  <1>7. QED
    BY <1>1, <1>2, <1>3, <1>4, <1>5, <1>6 DEF Types

LEMMA GoalStepTypes == ASSUME Types, GoalStep, UNCHANGED life PROVE Types'
  <1> USE DEF Types, RequestType, GoalType, Requests, goals, station, life
  <1>1. /\ UNCHANGED <<connected, manual, estop, call, maps, missions>>
        /\ asked' \in {asked, asked + 1} /\ asked' \in 0..MaxRequests
    BY DEF GoalStep, StartNavigation, CancelNavigation, PublishNav, Nav2Accepts, Nav2Rejects,
           Nav2Ends, OnGoalResponse, OnResult, Receive, New, requests
  <1>2. answers' \in [Requests -> Nat]
    <2>1. \A rs : Settle(rs) => answers' \in [Requests -> Nat]
      BY DEF Settle
    <2>2. UNCHANGED answers \/ \E rs : Settle(rs)
      BY Zenon DEF GoalStep, StartNavigation, CancelNavigation, PublishNav, Nav2Accepts,
             Nav2Rejects, Nav2Ends, OnGoalResponse, OnResult, requests, SettleGoto
    <2>3. QED
      BY <2>1, <2>2
  <1>3. GoalType'
    <2>1. CASE StartNavigation
      BY <2>1 DEF StartNavigation, Receive, New, Goals
    <2>2. CASE CancelNavigation \/ PublishNav
      <3>1. pendingGoto' = 0 /\ UNCHANGED <<navGoal, navGoalId, goal, told>>
        BY <2>2, Zenon DEF CancelNavigation, PublishNav, SettleGoto
      <3>2. QED
        BY <3>1, <1>1
    <2>3. ASSUME NEW g \in Requests, Nav2Accepts(g) \/ Nav2Rejects(g) \/ Nav2Ends(g)
          PROVE  GoalType'
      <3>1. goal[g] # "none" /\ UNCHANGED <<asked, pendingGoto, navGoal, navGoalId, told>>
        BY <2>3 DEF Nav2Accepts, Nav2Rejects, Nav2Ends, First, requests
      <3>2. goal' \in [Requests -> Goals]
        BY <2>3 DEF Nav2Accepts, Nav2Rejects, Nav2Ends, Goals
      <3>3. \A r \in Requests : goal[r] = "none" => goal'[r] = "none"
        BY <2>3, <3>1 DEF Nav2Accepts, Nav2Rejects, Nav2Ends
      <3>4. QED
        BY <3>1, <3>2, <3>3
    <2>4. ASSUME NEW g \in Requests, OnGoalResponse(g)
          PROVE  GoalType'
      BY <2>4 DEF OnGoalResponse, NextResponse, SettleGoto, Mine
    <2>5. ASSUME NEW g \in Requests, OnResult(g)
          PROVE  GoalType'
      BY <2>5 DEF OnResult, requests
    <2>6. QED
      BY <2>1, <2>2, <2>3, <2>4, <2>5, Zenon DEF GoalStep
  <1>4. StationType' /\ MapType'
    BY <1>1, Zenon DEF StationType, MapType, maps
  <1>5. CallType' /\ MissionType'
    BY <1>1 DEF CallType, MissionType, missions, manager
  <1>6. QED
    BY <1>1, <1>2, <1>3, <1>4, <1>5

LEMMA CallStepTypes == ASSUME Types, CallStep, UNCHANGED life PROVE Types'
  <1> USE DEF Types, RequestType, CallType, Requests, life, Unserved
  <1>1. /\ UNCHANGED <<station, goals, maps, missions>>
        /\ asked' \in {asked, asked + 1} /\ asked' \in 0..MaxRequests
    BY DEF CallStep, HandleBasePosture, SendMissionControl, Serve, OnDone, OnConfigured, PassOn,
           Receive, New, Close, requests
  <1>2. answers' \in [Requests -> Nat]
    BY DEF CallStep, HandleBasePosture, SendMissionControl, Serve, OnDone, OnConfigured, PassOn,
           Close, Respond, requests
  <1>3. CallType'
    <2>1. CASE HandleBasePosture \/ SendMissionControl
      BY <2>1 DEF HandleBasePosture, SendMissionControl, PassOn, Receive, New, Calls
    <2>2. ASSUME NEW r \in Requests, Serve(r) \/ OnDone(r) \/ OnConfigured(r)
          PROVE  CallType'
      <3>1. PICK from \in Calls \ {"none"}, to \in Calls : Becomes(r, from, to)
        BY <2>2 DEF Serve, OnDone, OnConfigured, Close, Calls
      <3>2. UNCHANGED asked
        BY <2>2 DEF Serve, OnDone, OnConfigured, Close, requests
      <3>3. QED
        BY <3>1, <3>2 DEF Becomes, Mine, Calls
    <2>3. QED
      BY <2>1, <2>2, Zenon DEF CallStep
  <1>4. StationType' /\ MapType'
    BY <1>1, Zenon DEF StationType, MapType, station, maps
  <1>5. GoalType' /\ MissionType'
    BY <1>1 DEF GoalType, MissionType, goals, missions, manager
  <1>6. QED
    BY <1>1, <1>2, <1>3, <1>4, <1>5

LEMMA MapStepTypes == ASSUME Types, MapStep, UNCHANGED life PROVE Types'
  <1> USE DEF Types, RequestType, CallType, MapType, Requests, life, Unserved
  <1>1. /\ UNCHANGED <<station, goals, missions>>
        /\ asked' \in {asked, asked + 1} /\ asked' \in 0..MaxRequests
    BY DEF MapStep, SelectMap, ServeLoad, OnLoaded, PassOn, Receive, New, Close, requests
  <1>2. answers' \in [Requests -> Nat]
    BY DEF MapStep, SelectMap, ServeLoad, OnLoaded, PassOn, Close, Respond, requests
  <1>3. CallType' /\ MapType'
    <2>1. ASSUME NEW m \in Maps, SelectMap(m)
          PROVE  CallType' /\ MapType'
      BY <2>1 DEF SelectMap, PassOn, Receive, New, Calls
    <2>2. ASSUME NEW r \in Requests, ServeLoad(r) \/ OnLoaded(r)
          PROVE  CallType' /\ MapType'
      <3>1. PICK from \in Calls \ {"none"}, to \in Calls : Becomes(r, from, to)
        BY <2>2 DEF ServeLoad, OnLoaded, Close, Calls
      <3>2. UNCHANGED <<asked, target>>
        BY <2>2 DEF ServeLoad, OnLoaded, Close, requests
      <3>3. CallType'
        BY <3>1, <3>2 DEF Becomes, Mine, Calls
      <3>4. confirmed' \in BOOLEAN
        BY <2>2, Zenon DEF ServeLoad, OnLoaded, LoadMapBundle
      <3>5. served' \in Maps /\ mapId' \in Maps \cup {Live}
        BY <2>2 DEF ServeLoad, OnLoaded, LoadMapBundle
      <3>6. QED
        BY <3>2, <3>3, <3>4, <3>5
    <2>3. QED
      BY <2>1, <2>2, Zenon DEF MapStep
  <1>4. StationType'
    BY <1>1, Zenon DEF StationType, station
  <1>5. GoalType' /\ MissionType'
    BY <1>1 DEF GoalType, MissionType, goals, missions, manager
  <1>6. QED
    BY <1>1, <1>2, <1>3, <1>4, <1>5

LEMMA MissionStepTypes == ASSUME Types, MissionStep, UNCHANGED life PROVE Types'
  <1> USE DEF Types, RequestType, CallType, MissionType, Requests, life, Unserved
  <1>1. UNCHANGED <<station, goals, maps>>
    BY Zenon DEF MissionStep, SetWaypoints, ConfigureAndStartMission, OnMissionState,
           ServeConfigure, ServeStart, MissionMoves
  <1>2. /\ asked' \in {asked, asked + 1} /\ asked' \in 0..MaxRequests
        /\ answers' \in [Requests -> Nat]
    <2>1. \/ Receive /\ (UNCHANGED answers \/ Respond(New))
          \/ UNCHANGED <<asked, answers>>
      BY Zenon DEF MissionStep, SetWaypoints, ConfigureAndStartMission, OnMissionState,
             ServeConfigure, ServeStart, MissionMoves, RespondAtOnce, PassOn, requests
    <2>2. asked \in 0..MaxRequests /\ answers \in [Requests -> Nat]
      BY Zenon
    <2>. HIDE DEF Types, RequestType, CallType, MissionType, Requests, life, Unserved
    <2>3. CASE Receive
      <3>1. asked' = asked + 1 /\ asked' \in 0..MaxRequests
        BY <2>2, <2>3, BridgeConstants DEF Receive, New
      <3>3. CASE Respond(New)
        <4>1. \A r \in Requests : answers[r] \in Nat /\ answers[r] + 1 \in Nat
          BY <2>2
        <4>2. QED
          BY <3>1, <3>3, <4>1, <2>2 DEF Respond
      <3>4. QED
        BY <2>1, <2>2, <2>3, <3>1, <3>3
    <2>4. QED
      BY <2>1, <2>2, <2>3
  <1>3. CallType' /\ MissionType'
    <2>1. CASE SetWaypoints
      BY <2>1, <1>2 DEF SetWaypoints, manager
    <2>2. CASE ConfigureAndStartMission
      <3>1. CallType'
        BY <2>2 DEF ConfigureAndStartMission, PassOn, Receive, New, Calls
      <3>2. /\ revision' \in Nat
            /\ [map |-> mapId, revision |-> revision', life |-> born] \in Plans
        BY <2>2 DEF ConfigureAndStartMission, MakeMissionPlan, MapType, Plans
      <3>3. built' \in [Requests -> Plans] /\ UNCHANGED <<heard, mission, plan, ordered>>
        BY <2>2, <3>2 DEF ConfigureAndStartMission, MakeMissionPlan, manager
      <3>4. QED
        BY <3>1, <3>2, <3>3, <1>2
    <2>3. CASE OnMissionState
      BY <2>3 DEF OnMissionState, requests, manager
    <2>4. ASSUME NEW r \in Requests, ServeConfigure(r) \/ ServeStart(r)
          PROVE  CallType' /\ MissionType'
      <3>1. PICK from \in Calls \ {"none"}, to \in Calls : Becomes(r, from, to)
        BY <2>4 DEF ServeConfigure, ServeStart, Calls
      <3>2. UNCHANGED <<asked, revision, built, heard>>
        BY <2>4 DEF ServeConfigure, ServeStart, requests
      <3>3. CallType'
        BY <3>1, <3>2 DEF Becomes, Mine, Calls
      <3>4. r <= asked
        BY <3>1 DEF Becomes
      <3>5. mission' \in MissionStates /\ plan' \in Plans /\ ordered' \in 0..asked
        BY <2>4, <3>4 DEF ServeConfigure, ServeStart, MissionStates
      <3>6. QED
        BY <3>2, <3>3, <3>5
    <2>5. ASSUME NEW m \in MissionStates, MissionMoves(m)
          PROVE  CallType' /\ MissionType'
      BY <2>5 DEF MissionMoves, requests
    <2>6. QED
      BY <2>1, <2>2, <2>3, <2>4, <2>5, Zenon DEF MissionStep
  <1>4. StationType' /\ MapType'
    BY <1>1, Zenon DEF StationType, MapType, station, maps
  <1>5. GoalType'
    BY <1>1, <1>2 DEF GoalType, goals
  <1>6. QED
    BY <1>1, <1>2, <1>3, <1>4, <1>5

LEMMA StationStepTypes == ASSUME Types, StationStep, UNCHANGED life PROVE Types'
  <1>1. UNCHANGED <<requests, goals, call, maps, missions>>
    BY Zenon DEF StationStep, OnSafety, PollLink
  <1>2. StationType'
    BY Zenon DEF StationStep, OnSafety, PollLink, Types, StationType
  <1>3. QED
    BY <1>1, <1>2, Zenon DEF Types, RequestType, GoalType, CallType, MapType, MissionType, requests,
           goals, maps, missions, manager, life

\* What the process that ended leaves behind.
LEMMA CrashTypes == ASSUME Types, Crash PROVE Types'
  <1> USE DEF Types, RequestType, Requests
  <1>1. /\ asked' \in {asked, asked + 1} /\ asked' \in 0..MaxRequests
        /\ born' = asked' /\ UNCHANGED answers
    BY DEF Crash, Receive, New
  <1>2. RequestType' /\ StationType'
    <2>1. /\ running' \in BOOLEAN /\ connected' \in BOOLEAN /\ manual' \in BOOLEAN
          /\ estop' \in BOOLEAN
      BY Zenon DEF Crash
    <2>2. QED
      BY <1>1, <2>1 DEF StationType
  <1>3. GoalType'
    BY <1>1 DEF Crash, GoalType
  <1>4. CallType'
    BY <1>1 DEF Crash, CallType, Unserved, Calls
  <1>5. MapType'
    BY DEF Crash, MapType
  <1>6. MissionType'
    BY <1>1 DEF Crash, MissionType, manager
  <1>7. QED
    BY <1>2, <1>3, <1>4, <1>5, <1>6

LEMMA RestartTypes == ASSUME Types, Restart PROVE Types'
  <1>1. UNCHANGED <<born, requests, station, goals, call, target, served, confirmed, missions>>
    BY Zenon DEF Restart
  <1>2. RequestType' /\ StationType' /\ GoalType' /\ CallType' /\ MissionType'
    BY <1>1 DEF Restart, Types, RequestType, StationType, GoalType, CallType, MissionType,
                requests, station, goals, missions, manager
  <1>3. MapType'
    BY <1>1 DEF Restart, ReadInitialMap, Types, MapType
  <1>4. QED
    BY <1>2, <1>3 DEF Types

LEMMA TypesInit == Init => Types
  <1> SUFFICES ASSUME Init PROVE Types
    OBVIOUS
  <1> USE DEF Init
  <1>1. RequestType /\ GoalType /\ CallType
    BY DEF RequestType, GoalType, CallType, Goals, Calls
  <1>2. StationType
    BY DEF StationType
  <1>3. MapType
    BY DEF MapType
  <1>4. [map |-> Live, revision |-> 0, life |-> 0] \in Plans
    BY DEF Plans
  <1>5. MissionType
    BY <1>4 DEF MissionType, MissionStates
  <1>6. QED
    BY <1>1, <1>2, <1>3, <1>5 DEF Types

LEMMA TypesStep == ASSUME Types, [Next]_vars PROVE Types'
  <1>1. CASE Next
    BY <1>1, Steps, AtOnceTypes, GoalStepTypes, CallStepTypes, MapStepTypes, MissionStepTypes,
       StationStepTypes, CrashTypes, RestartTypes, Zenon DEF LifeStep
  <1>2. CASE UNCHANGED vars
    BY <1>2, Zenon DEF Types, RequestType, StationType, GoalType, CallType, MapType, MissionType,
       vars, life, requests, station, goals, maps, missions, manager
  <1>3. QED
    BY <1>1, <1>2

(* Every variable of the bridge, of Nav2, of the services and of the       *)
(* managers around it keeps its type.                                      *)
THEOREM BridgeTypes == Spec => []TypeOK
  <1>1. Spec => []Types
    BY TypesInit, TypesStep, PTL DEF Spec
  <1>2. QED
    BY <1>1, TypesSuffice, PTL

-----------------------------------------------------------------------------
(* Requests.                                                               *)

\* A pending goto waits for no service, and nothing was answered that was not asked.
RequestInv ==
    /\ AnsweredOnce
    /\ \A r \in Requests : r > asked => answers[r] = 0
    /\ pendingGoto # 0 => call[pendingGoto] = "none"

LEMMA RequestInit == Init => RequestInv
  BY DEF Init, RequestInv, AnsweredOnce

\* A request that is answered as it comes.
LEMMA AnsweredAsItComes ==
    ASSUME Types, RequestInv, Receive, Respond(New), UNCHANGED <<pendingGoto, call, born>>
    PROVE  RequestInv'
  BY DEF RequestInv, AnsweredOnce, Types, RequestType, GoalType, CallType, Requests, Mine,
         Receive, Respond, New

\* A request that is passed on to a service.
LEMMA PassedOn ==
    ASSUME Types, RequestInv, NEW stage \in Calls \ {"none"}, PassOn(stage),
           UNCHANGED <<pendingGoto, born>>
    PROVE  RequestInv'
  BY DEF RequestInv, AnsweredOnce, Types, RequestType, GoalType, CallType, Requests, Mine,
         PassOn, Receive, New

\* A service that goes on with a call, and one that closes it.
LEMMA CallGoesOn ==
    ASSUME Types, RequestInv, NEW r \in Requests, NEW from \in Calls \ {"none"},
           NEW to \in Calls \ {"none"}, Becomes(r, from, to),
           UNCHANGED <<asked, answers, pendingGoto, born>>
    PROVE  RequestInv'
  BY DEF RequestInv, AnsweredOnce, Types, RequestType, GoalType, CallType, Requests, Mine,
         Becomes

LEMMA CallCloses ==
    ASSUME Types, RequestInv, NEW r \in Requests, NEW from \in Calls \ (Unserved \cup {"none"}),
           Close(r, from),
           UNCHANGED <<pendingGoto, born>>
    PROVE  RequestInv'
  BY DEF RequestInv, AnsweredOnce, Types, RequestType, GoalType, CallType, Requests, Mine,
         Unserved, Becomes, Close, Respond

\* The pending goto is settled, and so are the requests that come at the moment.
LEMMA Settles ==
    ASSUME Types, RequestInv, UNCHANGED <<call, born>>,
           \/ SettleGoto({}) /\ UNCHANGED asked
           \/ Receive /\ SettleGoto({New})
    PROVE  RequestInv'
  <1> USE DEF RequestInv, AnsweredOnce, Types, RequestType, GoalType, CallType, Requests,
              Mine, SettleGoto, Settle
  <1>1. CASE SettleGoto({}) /\ UNCHANGED asked
    <2>1. \A r \in Requests :
              answers'[r] = IF r = pendingGoto THEN answers[r] + 1 ELSE answers[r]
      BY <1>1
    <2>2. pendingGoto' = 0 /\ UNCHANGED <<asked, call, born>>
      BY <1>1
    <2>3. QED
      BY <2>1, <2>2
  <1>2. CASE Receive /\ SettleGoto({New})
    BY <1>2 DEF Receive, New
  <1>3. QED
    BY <1>1, <1>2

LEMMA RequestLife == ASSUME Types, RequestInv, LifeStep PROVE RequestInv'
  <1>0. UNCHANGED born
    BY DEF LifeStep, life
  <1>1. CASE AtOnce
    <2>1. Receive /\ Respond(New) /\ UNCHANGED <<pendingGoto, call>>
      BY <1>1, Zenon DEF AtOnce, AnswerAtOnce, Comply, HandleCapture, RenameMap, SetMode,
                         RespondAtOnce, goals
    <2>2. QED
      BY <1>0, <2>1, AnsweredAsItComes
  <1>2. CASE GoalStep
    <2>1. CASE StartNavigation
      BY <1>0, <2>1 DEF StartNavigation, Receive, New, RequestInv, AnsweredOnce, Types,
                  RequestType, GoalType, CallType, Requests, Mine
    <2>2. CASE CancelNavigation \/ PublishNav
      BY <1>0, <2>2, Settles, Zenon DEF CancelNavigation, PublishNav
    <2>3. ASSUME NEW g \in Requests, OnGoalResponse(g)
          PROVE  RequestInv'
      BY <1>0, <2>3, Settles, Zenon DEF OnGoalResponse
    <2>4. ASSUME NEW g \in Requests,
                 Nav2Accepts(g) \/ Nav2Rejects(g) \/ Nav2Ends(g) \/ OnResult(g)
          PROVE  RequestInv'
      <3>1. UNCHANGED <<asked, answers, pendingGoto, call>>
        BY <2>4, Zenon DEF Nav2Accepts, Nav2Rejects, Nav2Ends, OnResult, requests
      <3>2. QED
        BY <1>0, <3>1 DEF RequestInv, AnsweredOnce, Mine
    <2>5. QED
      BY <1>2, <2>1, <2>2, <2>3, <2>4, Zenon DEF GoalStep
  <1>3. CASE CallStep
    <2>1. UNCHANGED pendingGoto
      BY <1>3, Zenon DEF CallStep, HandleBasePosture, SendMissionControl, Serve, OnDone,
                         OnConfigured, goals
    <2>2. CASE HandleBasePosture \/ SendMissionControl
      <3>1. "posture" \in Calls \ {"none"} /\ "control" \in Calls \ {"none"}
        BY DEF Calls
      <3>2. QED
        BY <1>0, <2>1, <2>2, <3>1, PassedOn, Zenon DEF HandleBasePosture, SendMissionControl
    <2>3. ASSUME NEW r \in Requests, Serve(r) \/ OnDone(r) \/ OnConfigured(r)
          PROVE  RequestInv'
      <3>1. \/ \E from, to \in Calls \ {"none"} :
                    Becomes(r, from, to) /\ UNCHANGED <<asked, answers>>
            \/ \E from \in Calls \ (Unserved \cup {"none"}) : Close(r, from)
        BY <2>3 DEF Serve, OnDone, OnConfigured, Calls, Unserved, requests
      <3>2. QED
        BY <1>0, <2>1, <3>1, CallGoesOn, CallCloses, Zenon
    <2>4. QED
      BY <1>3, <2>2, <2>3, Zenon DEF CallStep
  <1>4. CASE MapStep
    <2>1. UNCHANGED pendingGoto
      BY <1>4, Zenon DEF MapStep, SelectMap, ServeLoad, OnLoaded, goals
    <2>2. ASSUME NEW m \in Maps, SelectMap(m)
          PROVE  RequestInv'
      <3>1. "load" \in Calls \ {"none"}
        BY DEF Calls
      <3>2. QED
        BY <1>0, <2>1, <2>2, <3>1, PassedOn, Zenon DEF SelectMap
    <2>3. ASSUME NEW r \in Requests, ServeLoad(r) \/ OnLoaded(r)
          PROVE  RequestInv'
      <3>1. \/ \E from, to \in Calls \ {"none"} :
                    Becomes(r, from, to) /\ UNCHANGED <<asked, answers>>
            \/ \E from \in Calls \ (Unserved \cup {"none"}) : Close(r, from)
        BY <2>3 DEF ServeLoad, OnLoaded, Calls, Unserved, requests
      <3>2. QED
        BY <1>0, <2>1, <3>1, CallGoesOn, CallCloses, Zenon
    <2>4. QED
      BY <1>4, <2>2, <2>3, Zenon DEF MapStep
  <1>5. CASE MissionStep
    <2>1. UNCHANGED pendingGoto
      BY <1>5, Zenon DEF MissionStep, SetWaypoints, ConfigureAndStartMission, OnMissionState,
             ServeConfigure, ServeStart, MissionMoves, goals
    <2>2. CASE SetWaypoints
      BY <1>0, <2>1, <2>2, AnsweredAsItComes, Zenon DEF SetWaypoints, RespondAtOnce
    <2>3. CASE ConfigureAndStartMission
      <3>1. "configure" \in Calls \ {"none"}
        BY DEF Calls
      <3>2. QED
        BY <1>0, <2>1, <2>3, <3>1, PassedOn, Zenon DEF ConfigureAndStartMission
    <2>4. ASSUME NEW r \in Requests, ServeConfigure(r) \/ ServeStart(r)
          PROVE  RequestInv'
      <3>1. \E from, to \in Calls \ {"none"} :
                Becomes(r, from, to) /\ UNCHANGED <<asked, answers>>
        BY <2>4 DEF ServeConfigure, ServeStart, Calls, requests
      <3>2. QED
        BY <1>0, <2>1, <3>1, CallGoesOn, Zenon
    <2>5. CASE OnMissionState \/ \E m \in MissionStates : MissionMoves(m)
      <3>1. UNCHANGED <<asked, answers, call>>
        BY <2>5, Zenon DEF OnMissionState, MissionMoves, requests
      <3>2. QED
        BY <1>0, <2>1, <3>1 DEF RequestInv, AnsweredOnce, Mine
    <2>6. QED
      BY <1>5, <2>2, <2>3, <2>4, <2>5, Zenon DEF MissionStep
  <1>6. CASE StationStep
    <2>1. UNCHANGED <<asked, answers, pendingGoto, call>>
      BY <1>6, Zenon DEF StationStep, OnSafety, PollLink, requests, goals
    <2>2. QED
      BY <1>0, <2>1 DEF RequestInv, AnsweredOnce, Mine
  <1>7. QED
    BY <1>1, <1>2, <1>3, <1>4, <1>5, <1>6, Zenon DEF LifeStep

LEMMA RequestStep == ASSUME Types, RequestInv, [Next]_vars PROVE RequestInv'
  <1> USE DEF RequestInv, AnsweredOnce, Mine
  <1>1. CASE LifeStep
    BY <1>1, RequestLife
  <1>2. CASE Crash
    <2>1. /\ asked' \in {asked, asked + 1} /\ asked' \in 0..MaxRequests
          /\ born' = asked' /\ UNCHANGED answers /\ pendingGoto' = 0
      BY <1>2 DEF Crash, Receive, New, Types, RequestType
    <2>2. \A r \in Requests : answers[r] \in {0, 1}
      BY DEF Types, RequestType, Requests
    <2>3. QED
      BY <2>1, <2>2 DEF Types, RequestType, Requests
  <1>3. CASE Restart
    BY <1>3 DEF Restart, requests, goals
  <1>4. CASE UNCHANGED vars
    BY <1>4 DEF vars, life, requests, goals
  <1>5. QED
    BY <1>1, <1>2, <1>3, <1>4, Steps, Zenon

(* No request is forgotten by hmi_bridge and none is answered twice,       *)
(* whatever order the answers of Nav2 and of the services come in and      *)
(* whenever the process ends and is started again.                         *)
THEOREM EachRequestAnsweredOnce == Spec => []AnsweredOnce
  <1>1. Init => Types /\ RequestInv
    BY TypesInit, RequestInit
  <1>2. Types /\ RequestInv /\ [Next]_vars => Types' /\ RequestInv'
    BY TypesStep, RequestStep
  <1>3. RequestInv => AnsweredOnce
    BY DEF RequestInv
  <1>4. QED
    BY <1>1, <1>2, <1>3, PTL DEF Spec

-----------------------------------------------------------------------------
(* Goals.                                                                  *)

\* Nav2 decides on the goals in the order they were sent, the one it accepts ends the one
\* before, and its responses to this life of the bridge come in the same order.
GoalOrder ==
    /\ \A g, h \in Requests :
         g < h /\ goal[g] = "executing" => goal[h] \in {"none", "sent", "rejected"}
    /\ \A g, h \in Requests : g < h /\ goal[g] = "sent" => goal[h] \in {"none", "sent"}
    /\ \A g \in told : goal[g] \notin {"none", "sent"}
    /\ \A g \in told, h \in Requests : born < h /\ h < g => goal[h] = "none" \/ h \in told

GoalInv == GoalOrder /\ NoGoalUntracked /\ navGoal \in {0, navGoalId}

LEMMA GoalInit == Init => GoalInv
  BY DEF Init, GoalInv, GoalOrder, NoGoalUntracked

LEMMA GoalsKept ==
    ASSUME GoalInv, UNCHANGED <<goal, told, navGoal, navGoalId, born>>
    PROVE  GoalInv'
  BY DEF GoalInv, GoalOrder, NoGoalUntracked

LEMMA GoalStepInv == ASSUME Types, GoalInv, GoalStep, UNCHANGED life PROVE GoalInv'
  <1> USE DEF Types, RequestType, GoalType, Requests, GoalInv, GoalOrder, NoGoalUntracked, life
  <1>1. CASE StartNavigation
    <2>1. /\ asked + 1 \in Requests /\ goal[asked + 1] = "none"
          /\ goal' = [goal EXCEPT ![asked + 1] = "sent"]
          /\ UNCHANGED <<told, navGoal, navGoalId>>
      BY <1>1 DEF StartNavigation, Receive, New
    <2>2. asked + 1 \notin told
      BY DEF Goals
    <2>3. \A g \in Requests : g > asked => goal[g] = "none"
      OBVIOUS
    <2>4. QED
      BY <2>1, <2>2, <2>3
  <1>2. CASE CancelNavigation \/ PublishNav
    BY <1>2, GoalsKept, Zenon DEF CancelNavigation, PublishNav
  <1>3. ASSUME NEW g \in Requests, Nav2Accepts(g)
        PROVE  GoalInv'
    <2>1. /\ goal[g] = "sent" /\ \A h \in Requests : h < g => goal[h] # "sent"
          /\ goal' = [h \in Requests |-> IF h = g THEN "executing"
                         ELSE IF goal[h] = "executing" THEN "ended" ELSE goal[h]]
          /\ UNCHANGED <<told, navGoal, navGoalId>>
      BY <1>3 DEF Nav2Accepts, First
    <2>2. g \notin told
      BY <2>1
    <2>3. \A h \in Requests : goal'[h] = "executing" => h = g
      BY <2>1
    <2>4. \A h \in Requests : h > g => goal[h] \in {"none", "sent"}
      BY <2>1
    <2>5. \A h \in Requests : /\ goal'[h] = "sent" => goal[h] = "sent" /\ h # g
                              /\ goal'[h] = "none" <=> goal[h] = "none"
                              /\ h # g /\ goal[h] = "sent" => goal'[h] = "sent"
      BY <2>1
    <2>6. QED
      BY <2>1, <2>2, <2>3, <2>4, <2>5
  <1>4. ASSUME NEW g \in Requests, Nav2Rejects(g)
        PROVE  GoalInv'
    <2>1. /\ goal[g] = "sent" /\ \A h \in Requests : h < g => goal[h] # "sent"
          /\ goal' = [goal EXCEPT ![g] = "rejected"]
          /\ UNCHANGED <<told, navGoal, navGoalId>>
      BY <1>4 DEF Nav2Rejects, First
    <2>2. QED
      BY <2>1
  <1>5. ASSUME NEW g \in Requests, Nav2Ends(g)
        PROVE  GoalInv'
    <2>1. /\ goal[g] = "executing" /\ goal' = [goal EXCEPT ![g] = "ended"]
          /\ UNCHANGED <<told, navGoal, navGoalId>>
      BY <1>5 DEF Nav2Ends
    <2>2. QED
      BY <2>1
  <1>6. ASSUME NEW g \in Requests, OnGoalResponse(g)
        PROVE  GoalInv'
    <2>1. /\ goal[g] \notin {"none", "sent"} /\ g \notin told
          /\ born < g
          /\ \A h \in Requests : born < h /\ h < g => goal[h] = "none" \/ h \in told
          /\ told' = told \cup {g} /\ UNCHANGED goal
          /\ IF goal[g] = "rejected" THEN UNCHANGED <<navGoal, navGoalId>>
             ELSE navGoal' = g /\ navGoalId' = g
      BY <1>6 DEF OnGoalResponse, NextResponse, Mine
    <2>2. \A h \in told : h < g
      BY <2>1
    <2>3. GoalOrder'
      BY <2>1
    <2>4. CASE goal[g] = "rejected"
      BY <2>1, <2>3, <2>4
    <2>5. CASE goal[g] # "rejected"
      <3>1. \A h \in told : goal[h] # "executing"
        BY <2>1, <2>2, <2>5
      <3>2. QED
        BY <2>1, <2>3, <2>5, <3>1
    <2>6. QED
      BY <2>4, <2>5
  <1>7. ASSUME NEW g \in Requests, OnResult(g)
        PROVE  GoalInv'
    BY <1>7 DEF OnResult
  <1>8. QED
    BY <1>1, <1>2, <1>3, <1>4, <1>5, <1>6, <1>7, Zenon DEF GoalStep

LEMMA GoalInvStep == ASSUME Types, GoalInv, [Next]_vars PROVE GoalInv'
  <1>1. CASE GoalStep /\ UNCHANGED life
    BY <1>1, GoalStepInv
  <1>2. CASE /\ AtOnce \/ CallStep \/ MapStep \/ MissionStep \/ StationStep
             /\ UNCHANGED life
    <2>1. UNCHANGED goals
      BY <1>2, AtOnceIs, Zenon DEF CallStep, HandleBasePosture, SendMissionControl, Serve, OnDone,
             OnConfigured, MapStep, SelectMap, ServeLoad, OnLoaded, MissionStep, SetWaypoints,
             ConfigureAndStartMission, OnMissionState, ServeConfigure, ServeStart, MissionMoves,
             StationStep, OnSafety, PollLink
    <2>2. QED
      BY <1>2, <2>1, GoalsKept, Zenon DEF goals, life
  <1>3. CASE Crash
    <2>1. UNCHANGED goal /\ told' = {} /\ navGoal' = 0
      BY <1>3, Zenon DEF Crash
    <2>2. QED
      BY <2>1 DEF GoalInv, GoalOrder, NoGoalUntracked
  <1>4. CASE Restart \/ UNCHANGED vars
    <2>1. UNCHANGED <<goal, told, navGoal, navGoalId, born>>
      BY <1>4, Zenon DEF Restart, vars, goals, life
    <2>2. QED
      BY <2>1, GoalsKept, Zenon
  <1>5. QED
    BY <1>1, <1>2, <1>3, <1>4, Steps, Zenon DEF LifeStep

(* The bridge holds a handle of every goal that Nav2 executes and has told *)
(* this life of it of: a cancel can reach it.                              *)
THEOREM GoalsAreTracked == Spec => []NoGoalUntracked
  <1>1. Init => Types /\ GoalInv
    BY TypesInit, GoalInit
  <1>2. Types /\ GoalInv /\ [Next]_vars => Types' /\ GoalInv'
    BY TypesStep, GoalInvStep
  <1>3. GoalInv => NoGoalUntracked
    BY DEF GoalInv
  <1>4. QED
    BY <1>1, <1>2, <1>3, PTL DEF Spec

-----------------------------------------------------------------------------
(* Missions.                                                               *)

\* The calls of a START from the configuration of its plan to its acceptance.
MissionCalls == {"configure", "configured", "start"}

\* The STARTs under way are all of one life, that of the process if it is there, and so is
\* the plan of mission_manager once one of them has configured it.
OneLife ==
    /\ \A q, r \in Requests :
         call[q] \in MissionCalls /\ call[r] \in MissionCalls => built[q].life = built[r].life
    /\ \A r \in Requests : call[r] \in {"configured", "start"} => built[r].life = plan.life
    /\ \A r \in Requests : running /\ call[r] \in MissionCalls => built[r].life = born

MissionInv == OneLife /\ StartIsConfigured

LEMMA MissionInit == Init => MissionInv
  BY DEF Init, MissionInv, OneLife, StartIsConfigured, MissionCalls

\* Within one life a plan is its id.
LEMMA SamePlan ==
    ASSUME NEW p \in Plans, NEW q \in Plans, SameId(p, q), p.life = q.life
    PROVE  p = q
  BY DEF Plans, SameId

\* A step that leaves the plans and mission_manager alone and starts no mission call.
LEMMA MissionsKept ==
    ASSUME MissionInv, UNCHANGED <<running, born, built, mission, plan, ordered>>,
           \A r \in Requests : \/ call'[r] = call[r]
                               \/ call'[r] \notin MissionCalls
                               \/ call[r] = "configured" /\ call'[r] = "start"
    PROVE  MissionInv'
  BY DEF MissionInv, OneLife, StartIsConfigured, MissionCalls

LEMMA MissionStepInv ==
    ASSUME Types, MissionInv, MissionStep, UNCHANGED life
    PROVE  MissionInv'
  <1> USE DEF MissionInv, OneLife, StartIsConfigured, MissionCalls, life
  <1>1. CASE SetWaypoints \/ OnMissionState
    <2>1. UNCHANGED <<running, born, built, mission, plan, ordered, call>>
      BY <1>1, Zenon DEF SetWaypoints, OnMissionState, manager, life
    <2>2. QED
      BY <2>1
  <1>2. CASE running /\ ConfigureAndStartMission
    <2>1. /\ built' = [built EXCEPT ![asked + 1] =
                          [map |-> mapId, revision |-> revision', life |-> born]]
          /\ call' = [call EXCEPT ![asked + 1] = "configure"]
          /\ UNCHANGED <<running, born, mission, plan, ordered>>
      BY <1>2, Zenon DEF ConfigureAndStartMission, MakeMissionPlan, PassOn, New, manager
    <2>2. asked + 1 \in Requests /\ call[asked + 1] = "none" /\ ordered \in 0..asked
      BY <1>2 DEF ConfigureAndStartMission, PassOn, Receive, Types, RequestType, CallType,
                  MissionType, Requests
    <2>3. \A r \in Requests :
            /\ built'[r] = IF r = asked + 1
                           THEN [map |-> mapId, revision |-> revision', life |-> born]
                           ELSE built[r]
            /\ call'[r] = IF r = asked + 1 THEN "configure" ELSE call[r]
      BY <2>1 DEF Types, MissionType, CallType
    <2>4. OneLife'
      BY <1>2, <2>1, <2>2, <2>3
    <2>5. ordered # 0 => built'[ordered] = built[ordered]
      BY <2>2, <2>3 DEF Types, RequestType, Requests
    <2>6. QED
      BY <2>1, <2>4, <2>5
  <1>3. ASSUME NEW r \in Requests, ServeConfigure(r)
        PROVE  MissionInv'
    <2>1. /\ call[r] = "configure" /\ UNCHANGED <<running, born, built, ordered>>
          /\ \A q \in Requests : q # r => call'[q] = call[q]
      BY <1>3 DEF ServeConfigure, Becomes, Types, CallType
    <2>2. CASE call'[r] \in {"configured", "none"} /\ mission' = "ready" /\ plan' = built[r]
      BY <2>1, <2>2
    <2>3. CASE call'[r] \in {"refused", "none"} /\ UNCHANGED <<mission, plan>>
      BY <2>1, <2>3
    <2>4. QED
      BY <1>3, <2>2, <2>3 DEF ServeConfigure, Becomes, Types, CallType
  <1>4. ASSUME NEW r \in Requests, ServeStart(r)
        PROVE  MissionInv'
    <2>1. /\ call[r] = "start" /\ UNCHANGED <<running, born, built, plan>>
          /\ \A q \in Requests : q # r => call'[q] = call[q]
          /\ call'[r] \in {"done", "none"}
      BY <1>4 DEF ServeStart, Becomes, Types, CallType
    <2>2. OneLife'
      BY <2>1
    <2>3. CASE SameId(built[r], plan) /\ ordered' = r
      <3>1. built[r] \in Plans /\ plan \in Plans
        BY DEF Types, MissionType
      <3>2. built[r] = plan
        BY <2>1, <2>3, <3>1, SamePlan
      <3>3. QED
        BY <2>1, <2>2, <2>3, <3>2 DEF Requests
    <2>4. CASE UNCHANGED <<mission, ordered>>
      BY <2>1, <2>2, <2>4
    <2>5. QED
      BY <1>4, <2>3, <2>4 DEF ServeStart
  <1>5. ASSUME NEW m \in MissionStates, MissionMoves(m)
        PROVE  MissionInv'
    BY <1>5 DEF MissionMoves, Moves
  <1>6. QED
    BY <1>1, <1>2, <1>3, <1>4, <1>5, Zenon DEF MissionStep

LEMMA MissionLife ==
    ASSUME Types, MissionInv, LifeStep
    PROVE  MissionInv'
  <1>1. UNCHANGED <<running, born>>
    BY Zenon DEF LifeStep, life
  <1>2. CASE AtOnce \/ GoalStep \/ StationStep
    <2>1. UNCHANGED <<built, mission, plan, ordered, call>>
      BY <1>2, AtOnceIs, Zenon DEF GoalStep, StartNavigation, CancelNavigation, PublishNav,
             Nav2Accepts, Nav2Rejects, Nav2Ends, OnGoalResponse, OnResult, StationStep, OnSafety,
             PollLink, missions, manager
    <2>2. QED
      BY <1>1, <2>1, MissionsKept
  <1>3. CASE CallStep \/ MapStep
    <2>1. UNCHANGED <<built, mission, plan, ordered>>
      BY <1>3, Zenon DEF CallStep, HandleBasePosture, SendMissionControl, Serve, OnDone,
             OnConfigured, MapStep, SelectMap, ServeLoad, OnLoaded, missions, manager
    <2>2. \A r \in Requests : \/ call'[r] = call[r]
                              \/ call'[r] \notin MissionCalls
                              \/ call[r] = "configured" /\ call'[r] = "start"
      <3> USE DEF MissionCalls, Types, CallType
      <3>1. CASE HandleBasePosture \/ SendMissionControl \/ \E m \in Maps : SelectMap(m)
        BY <3>1 DEF HandleBasePosture, SendMissionControl, SelectMap, PassOn
      <3>2. ASSUME NEW r \in Requests,
                   Serve(r) \/ OnDone(r) \/ OnConfigured(r) \/ ServeLoad(r) \/ OnLoaded(r)
            PROVE  \A q \in Requests :
                     \/ call'[q] = call[q]
                     \/ call'[q] \notin MissionCalls
                     \/ call[q] = "configured" /\ call'[q] = "start"
        BY <3>2 DEF Serve, OnDone, OnConfigured, ServeLoad, OnLoaded, Close, Becomes
      <3>3. QED
        BY <1>3, <3>1, <3>2, Zenon DEF CallStep, MapStep
    <2>3. QED
      BY <1>1, <2>1, <2>2, MissionsKept
  <1>4. CASE MissionStep
    BY <1>4, MissionStepInv DEF LifeStep
  <1>5. QED
    BY <1>2, <1>3, <1>4, Zenon DEF LifeStep

LEMMA MissionInvStep == ASSUME Types, MissionInv, [Next]_vars PROVE MissionInv'
  <1> USE DEF MissionInv, OneLife, StartIsConfigured, MissionCalls
  <1>1. CASE LifeStep
    BY <1>1, MissionLife
  <1>2. CASE Crash
    <2>1. /\ UNCHANGED <<built, mission, plan, ordered>> /\ running' = FALSE
          /\ call' = [r \in Requests |-> IF call[r] \in Unserved THEN call[r] ELSE "none"]
      BY <1>2, Zenon DEF Crash, manager
    <2>2. \A r \in Requests : call'[r] \in {call[r], "none"}
      BY <2>1
    <2>3. QED
      BY <2>1, <2>2
  <1>3. CASE Restart
    <2>1. /\ UNCHANGED <<born, call, built, mission, plan, ordered>>
          /\ \A r \in Requests : call[r] \in {"none", "load"}
      BY <1>3, Zenon DEF Restart, missions, manager
    <2>2. QED
      BY <2>1
  <1>4. CASE UNCHANGED vars
    <2>1. UNCHANGED <<running, born, call, built, mission, plan, ordered>>
      BY <1>4, Zenon DEF vars, life, missions, manager
    <2>2. QED
      BY <2>1
  <1>5. QED
    BY <1>1, <1>2, <1>3, <1>4, Steps, Zenon

(* The mission that runs is the one that was configured for the START that *)
(* was accepted, in whatever life of the bridge.                           *)
THEOREM MissionIsAsOrdered == Spec => []StartIsConfigured
  <1>1. Init => Types /\ MissionInv
    BY TypesInit, MissionInit
  <1>2. Types /\ MissionInv /\ [Next]_vars => Types' /\ MissionInv'
    BY TypesStep, MissionInvStep
  <1>3. MissionInv => StartIsConfigured
    BY DEF MissionInv
  <1>4. QED
    BY <1>1, <1>2, <1>3, PTL DEF Spec

-----------------------------------------------------------------------------
(* Maps.                                                                   *)

LoadCalls == {"load", "loaded", "unloaded"}

\* Loads are served and answered in the order they were asked for; what map_server serves
\* is what the last load asked for that has been served and not been answered yet, or else
\* what the bridge says it is, once a load was confirmed.  No load of an earlier life is
\* left by then.
LoadOrder ==
    \A q, r \in Requests :
        call[q] = "load" /\ call[r] \in {"loaded", "unloaded"} => r < q
ServedIsNewest ==
    \A r \in Requests :
        call[r] = "loaded" /\ (\A q \in Requests : r < q => call[q] # "loaded")
            => served = target[r]
ServedIsKnown ==
    (\A r \in Requests : call[r] # "loaded") /\ confirmed => mapId = served
ConfirmedIsOwn ==
    confirmed => running /\ \A r \in Requests : call[r] = "load" => r > born

MapInv == LoadOrder /\ ServedIsNewest /\ ServedIsKnown /\ ConfirmedIsOwn

LEMMA MapInit == Init => MapInv
  BY DEF Init, MapInv, LoadOrder, ServedIsNewest, ServedIsKnown, ConfirmedIsOwn

\* A step between calls that are no loads.
LEMMA LoadsKept ==
    ASSUME MapInv, UNCHANGED maps, UNCHANGED life,
           \A r \in Requests : \/ call'[r] = call[r]
                               \/ call[r] \notin LoadCalls /\ call'[r] \notin LoadCalls
    PROVE  MapInv'
  BY DEF MapInv, LoadOrder, ServedIsNewest, ServedIsKnown, ConfirmedIsOwn, maps, life,
         LoadCalls

LEMMA MapStepInv == ASSUME Types, MapInv, MapStep, UNCHANGED life PROVE MapInv'
  <1> USE DEF Types, RequestType, CallType, MapType, Requests, MapInv, LoadOrder,
              ServedIsNewest, ServedIsKnown, ConfirmedIsOwn, Mine, Unserved, life
  <1>1. ASSUME NEW m \in Maps, SelectMap(m)
        PROVE  MapInv'
    <2>1. /\ asked + 1 \in Requests /\ call' = [call EXCEPT ![asked + 1] = "load"]
          /\ target' = [target EXCEPT ![asked + 1] = m]
          /\ UNCHANGED <<mapId, served, confirmed>>
      BY <1>1 DEF SelectMap, PassOn, Receive, New
    <2>2. \A r \in Requests : r > asked => call[r] = "none"
      OBVIOUS
    <2>3. LoadOrder'
      BY <2>1, <2>2
    <2>4. \A r \in Requests : (call'[r] = "loaded" <=> call[r] = "loaded")
                              /\ (call[r] = "loaded" => target'[r] = target[r])
      BY <2>1, <2>2
    <2>5. QED
      BY <2>1, <2>3, <2>4
  <1>2. ASSUME NEW r \in Requests, ServeLoad(r)
        PROVE  MapInv'
    <2>1. /\ call[r] = "load" /\ \A q \in Requests : q < r => call[q] # "load"
          /\ UNCHANGED <<target, mapId, confirmed>>
      BY <1>2 DEF ServeLoad, Before, Becomes
    <2>2. \A q \in Requests : call[q] \in {"loaded", "unloaded"} => q < r
      BY <2>1
    <2>3. CASE call' = [call EXCEPT ![r] = "loaded"] /\ served' = target[r]
      BY <2>1, <2>2, <2>3
    <2>4. CASE call' = [call EXCEPT ![r] = "unloaded"] /\ UNCHANGED served
      BY <2>1, <2>2, <2>4
    <2>5. CASE r <= born /\ call' = [call EXCEPT ![r] = "none"]
      <3>1. ~confirmed /\ \A q \in Requests : call[q] # "loaded"
        BY <2>1, <2>2, <2>5
      <3>2. QED
        BY <2>1, <2>5, <3>1
    <2>6. QED
      BY <1>2, <2>3, <2>4, <2>5 DEF ServeLoad, Becomes
  <1>3. ASSUME NEW r \in Requests, running /\ OnLoaded(r)
        PROVE  MapInv'
    <2>1. /\ \A q \in Requests : q < r => call[q] \notin LoadCalls
          /\ call[r] \in {"loaded", "unloaded"} /\ r > born
          /\ call' = [call EXCEPT ![r] = "none"]
          /\ UNCHANGED <<target, served>>
      <3>1. call[r] \in {"loaded", "unloaded"}
        BY <1>3 DEF OnLoaded, Close, Becomes
      <3>2. r > born
        BY <3>1
      <3>3. call' = [call EXCEPT ![r] = "none"] /\ UNCHANGED <<target, served>>
        BY <1>3, <3>2 DEF OnLoaded, Close, Becomes
      <3>4. \A q \in Requests : q < r => call[q] \notin LoadCalls
        BY <1>3 DEF OnLoaded, Before, LoadCalls
      <3>5. QED
        BY <3>1, <3>2, <3>3, <3>4
    <2>2. LoadOrder' /\ ServedIsNewest' /\ ConfirmedIsOwn'
      <3>1. \A q \in Requests : call'[q] = IF q = r THEN "none" ELSE call[q]
        BY <2>1
      <3>2. LoadOrder'
        BY <3>1
      <3>3. ASSUME NEW s \in Requests, call'[s] = "loaded",
                   \A q \in Requests : s < q => call'[q] # "loaded"
            PROVE  served' = target'[s]
        <4>1. call[s] = "loaded" /\ r < s
          BY <2>1, <3>1, <3>3 DEF LoadCalls
        <4>2. \A q \in Requests : s < q => call[q] # "loaded"
          BY <3>1, <3>3, <4>1
        <4>3. QED
          BY <2>1, <4>1, <4>2
      <3>4. ConfirmedIsOwn'
        BY <1>3, <2>1, <3>1 DEF LoadCalls
      <3>5. QED
        BY <3>2, <3>3, <3>4
    <2>3. CASE call[r] = "loaded" /\ mapId' = target[r] /\ confirmed' = TRUE
      <3>1. (\A q \in Requests : call'[q] # "loaded") => served = target[r]
        BY <2>1, <2>3
      <3>2. QED
        BY <2>1, <2>2, <2>3, <3>1
    <2>4. CASE confirmed' = FALSE
      BY <2>2, <2>4
    <2>5. CASE call[r] = "unloaded" /\ UNCHANGED <<mapId, confirmed>>
      BY <2>1, <2>2, <2>5
    <2>6. QED
      BY <1>3, <2>3, <2>4, <2>5 DEF OnLoaded, LoadMapBundle, Close, Becomes
  <1>4. QED
    BY <1>1, <1>2, <1>3, Zenon DEF MapStep

LEMMA MapLife == ASSUME Types, MapInv, LifeStep PROVE MapInv'
  <1>0. UNCHANGED life
    BY Zenon DEF LifeStep
  <1>1. CASE MapStep
    BY <1>0, <1>1, MapStepInv
  <1>2. CASE AtOnce \/ GoalStep \/ StationStep
    <2>1. UNCHANGED <<call, maps>>
      BY <1>2, AtOnceIs, Zenon DEF GoalStep, StartNavigation, CancelNavigation, PublishNav,
             Nav2Accepts, Nav2Rejects, Nav2Ends, OnGoalResponse, OnResult, StationStep, OnSafety,
             PollLink
    <2>2. QED
      BY <1>0, <2>1, LoadsKept, Zenon
  <1>3. CASE CallStep \/ MissionStep
    <2>1. UNCHANGED maps
      BY <1>3, Zenon DEF CallStep, HandleBasePosture, SendMissionControl, Serve, OnDone,
             OnConfigured, MissionStep, SetWaypoints, ConfigureAndStartMission, OnMissionState,
             ServeConfigure, ServeStart, MissionMoves
    <2>2. \A r \in Requests : \/ call'[r] = call[r]
                              \/ call[r] \notin LoadCalls /\ call'[r] \notin LoadCalls
      <3> USE DEF LoadCalls, Types, RequestType, CallType, Requests
      <3>1. CASE HandleBasePosture \/ SendMissionControl \/ ConfigureAndStartMission
        <4>1. asked + 1 \in Requests /\ call[asked + 1] = "none"
          BY <3>1 DEF HandleBasePosture, SendMissionControl, ConfigureAndStartMission, PassOn,
                      Receive
        <4>2. QED
          BY <3>1, <4>1 DEF HandleBasePosture, SendMissionControl, ConfigureAndStartMission,
                            PassOn, New
      <3>2. ASSUME NEW r \in Requests,
                   Serve(r) \/ OnDone(r) \/ OnConfigured(r) \/ ServeConfigure(r) \/ ServeStart(r)
            PROVE  \A q \in Requests :
                     \/ call'[q] = call[q]
                     \/ call[q] \notin LoadCalls /\ call'[q] \notin LoadCalls
        BY <3>2 DEF Serve, OnDone, OnConfigured, ServeConfigure, ServeStart, Close, Becomes
      <3>3. CASE SetWaypoints \/ OnMissionState \/ \E m \in MissionStates : MissionMoves(m)
        <4>1. UNCHANGED call
          BY <3>3, Zenon DEF SetWaypoints, OnMissionState, MissionMoves
        <4>2. QED
          BY <4>1
      <3>4. QED
        BY <1>3, <3>1, <3>2, <3>3, Zenon DEF CallStep, MissionStep
    <2>3. QED
      BY <1>0, <2>1, <2>2, LoadsKept
  <1>4. QED
    BY <1>1, <1>2, <1>3, Zenon DEF LifeStep

LEMMA MapInvStep == ASSUME Types, MapInv, [Next]_vars PROVE MapInv'
  <1> USE DEF MapInv, LoadOrder, ServedIsNewest, ServedIsKnown, ConfirmedIsOwn
  <1>1. CASE LifeStep
    BY <1>1, MapLife
  <1>2. CASE Crash
    <2>1. /\ confirmed' = FALSE
          /\ call' = [r \in Requests |-> IF call[r] \in Unserved THEN call[r] ELSE "none"]
      BY <1>2, Zenon DEF Crash
    <2>2. \A r \in Requests : call'[r] \notin {"loaded", "unloaded"}
      BY <2>1 DEF Unserved
    <2>3. QED
      BY <2>1, <2>2
  <1>3. CASE Restart
    <2>1. ~running /\ UNCHANGED <<call, target, served, confirmed>>
      BY <1>3, Zenon DEF Restart
    <2>2. QED
      BY <2>1
  <1>4. CASE UNCHANGED vars
    BY <1>4 DEF vars, life, maps
  <1>5. QED
    BY <1>1, <1>2, <1>3, <1>4, Steps, Zenon

(* The bridge and map_server name the same map when no load is under way,  *)
(* however many loads were asked for at once and whenever the bridge was   *)
(* started again, from the first load on that was confirmed to its         *)
(* present life.                                                           *)
THEOREM MapsAlwaysAgree == Spec => []MapsAgree
  <1>1. Init => Types /\ MapInv
    BY TypesInit, MapInit
  <1>2. Types /\ MapInv /\ [Next]_vars => Types' /\ MapInv'
    BY TypesStep, MapInvStep
  <1>3. MapInv => MapsAgree
    BY DEF MapInv, ServedIsKnown, MapsAgree, LoadUnderWay
  <1>4. QED
    BY <1>1, <1>2, <1>3, PTL DEF Spec
=============================================================================
