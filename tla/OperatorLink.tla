----------------------------- MODULE OperatorLink -----------------------------
(***************************************************************************)
(* The client of the control station (BridgeClient): a general connection  *)
(* and one for the E-stop to the robot at one address, each with a timer   *)
(* to try again; the robot's identifier, taken from the first frame of     *)
(* either connection; and the requests that wait for an answer, one table  *)
(* for both connections.                                                   *)
(*                                                                         *)
(* The client's handlers run one at a time on Qt's event loop.  The two    *)
(* ports belong to two processes of the robot and come and go separately;  *)
(* the robot at the address may become another one while old connections   *)
(* still stand.  What is on its way over a connection is lost with it.     *)
(***************************************************************************)
EXTENDS Integers

CONSTANTS
    Robots,
    Nobody,       \* no robot: an empty identifier
    MaxRequests   \* bound: requests the model follows

ASSUME LinkConstants == Nobody \notin Robots /\ Robots # {} /\ MaxRequests \in Nat

Links == {"general", "estop"}
Requests == 1..MaxRequests

VARIABLES
    \* the client
    want,      \* wantConnection_
    ports,     \* the links that have a port: estopPort_ is 0 beyond the last port
    link,      \* state of socket_ and estopSocket_
    retry,     \* the links whose reconnect timer is active
    robotId,   \* robotId_
    pending,   \* pending_
    \* the robot and the network
    at,        \* the robot at the address
    reachable, \* the ports that accept connections
    peer,      \* the robot at the other end of each connection
    wire,      \* of each request: itself or its answer on the way, or nothing
    \* history
    heard,     \* the connections that have brought a frame
    asked,     \* requests so far
    via,       \* the link each was sent on
    named,     \* the robot each was sent to, by name
    ended      \* the requests whose end the operator was told

sockets == <<link, peer, heard>>
robot == <<at, reachable>>
orders == <<asked, via, named>>
vars == <<want, ports, sockets, retry, robotId, pending, robot, wire, orders, ended>>

Up(l) == link[l] = "up"

-----------------------------------------------------------------------------
(* Connections.                                                            *)

\* Wrong variant: the table is emptied without a word.
CloseInSilence(ls) ==
    LET reset == Up("general") /\ "general" \in ls IN
    /\ link' = [l \in Links |-> IF l \in ls THEN "down" ELSE link[l]]
    /\ peer' = [l \in Links |-> IF l \in ls THEN Nobody ELSE peer[l]]
    /\ heard' = heard \ ls
    /\ wire' = [r \in Requests |-> IF via[r] \in ls THEN "none" ELSE wire[r]]
    /\ robotId' = IF reset THEN Nobody ELSE robotId
    /\ pending' = IF reset THEN {} ELSE pending
    /\ UNCHANGED ended

\* The sockets ls close.  With an open general connection go the identifier and the
\* table of both links; LINK_LOST tells the operator that what it carried is lost.
CloseSockets(ls) ==
    LET reset == Up("general") /\ "general" \in ls IN
    /\ link' = [l \in Links |-> IF l \in ls THEN "down" ELSE link[l]]
    /\ peer' = [l \in Links |-> IF l \in ls THEN Nobody ELSE peer[l]]
    /\ heard' = heard \ ls
    /\ wire' = [r \in Requests |-> IF via[r] \in ls THEN "none" ELSE wire[r]]
    /\ robotId' = IF reset THEN Nobody ELSE robotId
    /\ pending' = IF reset THEN {} ELSE pending
    /\ ended' = IF reset THEN ended \cup {r \in pending : via[r] = "general"} ELSE ended

\* scheduleReconnect and scheduleEstopReconnect.
ScheduleReconnect(l) == retry' = IF want /\ l \in ports THEN retry \cup {l} ELSE retry

\* onDisconnected and onEstopDisconnected.
Disconnected(l) ==
    /\ CloseSockets({l}) /\ ScheduleReconnect(l)
    /\ UNCHANGED <<want, ports, robot, orders>>

\* A link without a port is not opened.
Dial(ls) == [l \in Links |-> IF l \in ls /\ link[l] = "down" THEN "connecting" ELSE link[l]]

ConnectToBridge ==
    /\ want' = TRUE
    /\ link' = Dial(ports)
    /\ UNCHANGED <<ports, peer, heard, retry, robotId, pending, robot, wire, orders, ended>>

DisconnectFromBridge ==
    /\ want' = FALSE /\ retry' = {}
    /\ CloseSockets(Links)
    /\ UNCHANGED <<ports, robot, orders>>

\* The operator chooses another entry: another address, where x answers.  The port of the
\* E-stop link is the one after the general one's.
SetEndpoint(x) ==
    /\ retry' = {}
    /\ ports' \in {Links, {"general"}}
    /\ link' = [l \in Links |-> IF want /\ l \in ports' THEN "connecting" ELSE "down"]
    /\ peer' = [l \in Links |-> Nobody] /\ heard' = {}
    /\ wire' = [r \in Requests |-> "none"]
    /\ robotId' = Nobody
    /\ pending' = IF Up("general") THEN {} ELSE pending
    /\ ended' = IF Up("general") THEN ended \cup {r \in pending : via[r] = "general"} ELSE ended
    /\ at' = x
    /\ UNCHANGED <<want, reachable, orders>>

\* Wrong variant: the E-stop link waits for the general one to be up.
RetryAfterGeneral(l) ==
    /\ l \in retry
    /\ LET wait == l = "estop" /\ ~Up("general") IN
       /\ retry' = IF wait \/ link[l] = "connecting" THEN retry ELSE retry \ {l}
       /\ link' = IF wait THEN link ELSE Dial(ports \cap {l})
    /\ UNCHANGED <<want, ports, peer, heard, robotId, pending, robot, wire, orders, ended>>

\* A reconnect timer fires.  connectToHost on a socket that is connecting is refused with
\* an error, which arms the timer again; on an open one the error is ignored.
Retry(l) ==
    /\ l \in retry
    /\ retry' = IF link[l] = "connecting" THEN retry ELSE retry \ {l}
    /\ link' = Dial(ports \cap {l})
    /\ UNCHANGED <<want, ports, peer, heard, robotId, pending, robot, wire, orders, ended>>

\* Wrong variant: only a connection that was open is tried again.
ConnectFailsForGood(l) ==
    /\ link[l] = "connecting" /\ l \notin reachable
    /\ link' = [link EXCEPT ![l] = "down"]
    /\ UNCHANGED <<want, ports, peer, heard, retry, robotId, pending, robot, wire, orders, ended>>

\* The connection fails: onSocketError, onEstopSocketError.
ConnectFails(l) ==
    /\ link[l] = "connecting" /\ l \notin reachable
    /\ link' = [link EXCEPT ![l] = "down"]
    /\ ScheduleReconnect(l)
    /\ UNCHANGED <<want, ports, peer, heard, robotId, pending, robot, wire, orders, ended>>

Lost(l) == Up(l) /\ Disconnected(l)

-----------------------------------------------------------------------------
(* Requests and frames.                                                    *)

\* sendRequest and sendEstopRequest, over link l: named after the robot shown, if any.
Ask(l) ==
    /\ asked < MaxRequests
    /\ asked' = asked + 1
    /\ via' = [via EXCEPT ![asked'] = l]
    /\ named' = [named EXCEPT ![asked'] = robotId]
    /\ wire' = [wire EXCEPT ![asked'] = "request"]
    /\ pending' = pending \cup {asked'}

Send(l) ==
    /\ Up(l) /\ Ask(l)
    /\ UNCHANGED <<want, ports, sockets, retry, robotId, robot, ended>>

\* onConnected and onEstopConnected; the general link asks for the list of maps at once.
Connected(l) ==
    /\ link[l] = "connecting" /\ l \in reachable
    /\ link' = [link EXCEPT ![l] = "up"] /\ peer' = [peer EXCEPT ![l] = at]
    /\ IF l = "general" /\ asked < MaxRequests
       THEN Ask(l)
       ELSE UNCHANGED <<pending, wire, orders>>
    /\ UNCHANGED <<want, ports, heard, retry, robotId, robot, ended>>

\* Wrong variant of the check below: the last frame of either link decides.
IdentifyByLast(l) == robotId' = peer[l] /\ heard' = heard \cup {l}

\* The first frame fixes the identifier; one of another robot is not accepted.
Identify(l) ==
    /\ robotId \in {Nobody, peer[l]}
    /\ robotId' = peer[l] /\ heard' = heard \cup {l}

\* Another robot than the one shown: E_ROBOT_MISMATCH, and that connection is aborted.
Mismatch(l) == robotId \notin {Nobody, peer[l]} /\ Disconnected(l)

\* A heartbeat or a state arrives over l: handleFrame, handleEstopFrame.
HandleFrame(l) ==
    \/ Up(l) /\ Identify(l) /\ UNCHANGED <<want, ports, link, peer, retry, pending, robot, wire,
                                            orders, ended>>
    \/ Up(l) /\ Mismatch(l)

\* The answer to r arrives, over the link r was sent on.
HandleResponse(r) ==
    \/ /\ wire[r] = "answer" /\ Identify(via[r])
       /\ wire' = [wire EXCEPT ![r] = "none"]
       /\ pending' = pending \ {r} /\ ended' = ended \cup {r}
       /\ UNCHANGED <<want, ports, link, peer, retry, robot, orders>>
    \/ wire[r] = "answer" /\ Mismatch(via[r])

\* No answer within kRequestTimeoutMs: the operator reads E_BUSY.
CheckTimeouts(r) ==
    /\ r \in pending
    /\ pending' = pending \ {r} /\ ended' = ended \cup {r}
    /\ UNCHANGED <<want, ports, sockets, retry, robotId, robot, wire, orders>>

-----------------------------------------------------------------------------
(* The robot.                                                              *)

\* The robot answers r, carried out or refused for being another's, or never does.
Serve(r) ==
    /\ wire[r] = "request"
    /\ \E outcome \in {"answer", "none"} : wire' = [wire EXCEPT ![r] = outcome]
    /\ UNCHANGED <<want, ports, sockets, retry, robotId, pending, robot, orders, ended>>

\* A port opens or closes to new connections.
PortToggles(l) ==
    /\ reachable' = IF l \in reachable THEN reachable \ {l} ELSE reachable \cup {l}
    /\ UNCHANGED <<want, ports, sockets, retry, robotId, pending, at, wire, orders, ended>>

\* Another robot takes over the address.
RobotReplaced(x) ==
    /\ x # at /\ at' = x
    /\ UNCHANGED <<want, ports, sockets, retry, robotId, pending, reachable, wire, orders, ended>>

-----------------------------------------------------------------------------
Init ==
    /\ want = FALSE /\ ports \in {Links, {"general"}}
    /\ link = [l \in Links |-> "down"] /\ retry = {}
    /\ robotId = Nobody /\ pending = {}
    /\ at \in Robots /\ reachable \in SUBSET Links
    /\ peer = [l \in Links |-> Nobody] /\ heard = {}
    /\ wire = [r \in Requests |-> "none"]
    /\ asked = 0
    /\ via = [r \in Requests |-> "general"] /\ named = [r \in Requests |-> Nobody]
    /\ ended = {}

Next ==
    \/ ConnectToBridge
    \/ DisconnectFromBridge
    \/ \E x \in Robots : SetEndpoint(x) \/ RobotReplaced(x)
    \/ \E l \in Links :
         \/ Retry(l)
         \/ Connected(l)
         \/ ConnectFails(l)
         \/ Lost(l)
         \/ Send(l)
         \/ HandleFrame(l)
         \/ PortToggles(l)
    \/ \E r \in Requests :
         \/ Serve(r)
         \/ HandleResponse(r)
         \/ CheckTimeouts(r)

Spec == Init /\ [][Next]_vars

\* The timers fire, and the network completes a connection to an open port.
FairSpec ==
    /\ Spec
    /\ \A l \in Links : WF_vars(Retry(l)) /\ WF_vars(Connected(l))

-----------------------------------------------------------------------------
(* Properties.                                                             *)

\* Types of every variable, and which requests can be on the way.
TypeOK ==
    /\ want \in BOOLEAN /\ ports \subseteq Links
    /\ link \in [Links -> {"down", "connecting", "up"}]
    /\ retry \subseteq Links
    /\ robotId \in Robots \cup {Nobody}
    /\ pending \subseteq Requests
    /\ at \in Robots /\ reachable \subseteq Links
    /\ peer \in [Links -> Robots \cup {Nobody}]
    /\ wire \in [Requests -> {"none", "request", "answer"}]
    /\ heard \subseteq Links
    /\ asked \in 0..MaxRequests
    /\ via \in [Requests -> Links]
    /\ named \in [Requests -> Robots \cup {Nobody}]
    /\ ended \subseteq Requests
    /\ \A l \in Links : Up(l) => peer[l] # Nobody
    /\ \A r \in Requests : wire[r] # "none" => r <= asked /\ Up(via[r])

\* "Even when the general channel is healthy, the dedicated safety channel must keep trying
\* to recover at once": as long as the operator wants the robot, a link that has a port and
\* is down has its timer running, however its connection ended and whatever the other link
\* does.
RetryArmed == \A l \in ports : want /\ link[l] = "down" => l \in retry

\* The robot shown, to which commands and UDP jogs are addressed, is the one at the other
\* end of the general connection as soon as that one has been heard; frames of the other
\* connection and a robot swapped at the address do not change it.
GeneralIsShown == "general" \in heard => robotId = peer["general"]

\* Each link comes up again and again while its port accepts connections and the operator
\* wants the robot, through failures, timers that overlap and changes of the address.
Reconnects == \A l \in Links : []<>(Up(l) \/ ~want \/ l \notin ports \cap reachable)

\* "An unanswered command: if it vanished silently the operator would believe it took": a
\* request sent over the general link waits for its answer until the operator is told its
\* end, through timeouts, mismatches, losses of either link and changes of the address.
RequestsAccounted == \A r \in 1..asked : via[r] = "general" => r \in pending \cup ended
=============================================================================
