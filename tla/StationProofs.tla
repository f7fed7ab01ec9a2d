----------------------------- MODULE StationProofs -----------------------------
(***************************************************************************)
(* Proofs about the control station.  Its links to the robot               *)
(* (OperatorLink), for any set of robots and any number of requests: the   *)
(* types of its state, that no link is left down without its timer, that   *)
(* the robot shown is the one that answers and that no request vanishes.   *)
(* Its jog controls (TeleopPanel), for any set of directions: that only    *)
(* what is held drives, that they are dead without a connection or under   *)
(* an E-stop, and that they come back.                                     *)
(***************************************************************************)
EXTENDS OperatorLink, TeleopPanel, TLAPS

(* The links.                                                              *)

\* TypeOK in parts: the sockets with their timers, the robot shown and the robot there, and
\* the requests.
TypeSockets ==
    /\ want \in BOOLEAN /\ ports \subseteq Links
    /\ link \in [Links -> {"down", "connecting", "up"}]
    /\ retry \subseteq Links
    /\ heard \subseteq Links

TypeRobots ==
    /\ robotId \in Robots \cup {Nobody}
    /\ at \in Robots /\ reachable \subseteq Links
    /\ peer \in [Links -> Robots \cup {Nobody}]
    /\ \A l \in Links : Up(l) => peer[l] # Nobody

TypeRequests ==
    /\ pending \subseteq 1..MaxRequests /\ ended \subseteq 1..MaxRequests
    /\ wire \in [1..MaxRequests -> {"none", "request", "answer"}]
    /\ asked \in 0..MaxRequests
    /\ via \in [1..MaxRequests -> Links]
    /\ named \in [1..MaxRequests -> Robots \cup {Nobody}]
    /\ \A r \in 1..MaxRequests : wire[r] # "none" => r <= asked /\ Up(via[r])

\* Only an open connection has brought a frame.
HeardIsUp == \A l \in heard : Up(l)

Inv ==
    /\ TypeSockets
    /\ TypeRobots
    /\ TypeRequests
    /\ HeardIsUp
    /\ RetryArmed
    /\ GeneralIsShown

\* The invariant contains TypeOK.
LEMMA InvTypes == Inv => TypeOK
  BY DEF Inv, TypeSockets, TypeRobots, TypeRequests, TypeOK, Requests

\* It holds initially.
LEMMA InvInit == Init => Inv
  <1>. SUFFICES ASSUME Init PROVE Inv
    OBVIOUS
  <1>. USE LinkConstants DEF Init
  <1>1. TypeSockets
    BY DEF TypeSockets, Links
  <1>2. TypeRobots
    BY DEF TypeRobots, Links, Up
  <1>3. TypeRequests
    BY DEF TypeRequests, Links, Requests
  <1>4. HeardIsUp /\ RetryArmed /\ GeneralIsShown
    BY DEF HeardIsUp, RetryArmed, GeneralIsShown
  <1>5. QED
    BY <1>1, <1>2, <1>3, <1>4 DEF Inv

\* Closing sockets keeps the types, and leaves no frame of a closed one.
LEMMA CloseTypes ==
  ASSUME Inv, NEW ls \in SUBSET Links, CloseSockets(ls)
  PROVE  /\ link' \in [Links -> {"down", "connecting", "up"}]
         /\ \A l \in Links : link'[l] = IF l \in ls THEN "down" ELSE link[l]
         /\ heard' \subseteq Links /\ \A l \in heard' : link'[l] = "up"
         /\ robotId' \in Robots \cup {Nobody}
         /\ peer' \in [Links -> Robots \cup {Nobody}]
         /\ \A l \in Links : link'[l] = "up" => peer'[l] # Nobody
         /\ pending' \subseteq 1..MaxRequests /\ ended' \subseteq 1..MaxRequests
         /\ wire' \in [1..MaxRequests -> {"none", "request", "answer"}]
         /\ \A r \in 1..MaxRequests : wire'[r] # "none" =>
               wire[r] # "none" /\ link'[via[r]] = "up"
         /\ "general" \in heard' => robotId' = peer'["general"]
  <1>. USE DEF Inv, CloseSockets
  <1>1. \A l \in Links : link'[l] = IF l \in ls THEN "down" ELSE link[l]
    BY DEF TypeSockets
  <1>2. link' \in [Links -> {"down", "connecting", "up"}]
    BY DEF TypeSockets
  <1>3. heard' \subseteq Links /\ \A l \in heard' : link'[l] = "up"
    BY <1>1 DEF TypeSockets, HeardIsUp, Up
  <1>4. robotId' \in Robots \cup {Nobody}
    BY DEF TypeRobots
  <1>5. /\ peer' \in [Links -> Robots \cup {Nobody}]
        /\ \A l \in Links : link'[l] = "up" => peer'[l] # Nobody
    BY <1>1 DEF TypeRobots, Up
  <1>6. pending' \subseteq 1..MaxRequests /\ ended' \subseteq 1..MaxRequests
    BY DEF TypeRequests
  <1>7. wire' \in [1..MaxRequests -> {"none", "request", "answer"}]
    BY DEF TypeRequests, Requests
  <1>8. ASSUME NEW r \in 1..MaxRequests, wire'[r] # "none"
        PROVE  wire[r] # "none" /\ link'[via[r]] = "up"
    <2>1. wire[r] # "none" /\ via[r] \notin ls
      BY <1>8 DEF Requests
    <2>2. QED
      BY <2>1, <1>1 DEF TypeRequests, Up
  <1>9. "general" \in heard' => robotId' = peer'["general"]
    BY DEF GeneralIsShown, Links
  <1>10. QED
    BY <1>1, <1>2, <1>3, <1>4, <1>5, <1>6, <1>7, <1>8, <1>9

\* The end of a connection.
LEMMA DisconnectedInv ==
  ASSUME Inv, NEW l \in Links, Disconnected(l)
  PROVE  Inv'
  <1>1. CloseSockets({l}) /\ ScheduleReconnect(l) /\ UNCHANGED <<want, ports, robot, orders>>
    BY DEF Disconnected
  <1>2. {l} \in SUBSET Links
    OBVIOUS
  <1>3. TypeSockets'
    BY <1>1, <1>2, CloseTypes DEF Inv, TypeSockets, ScheduleReconnect
  <1>4. TypeRobots'
    BY <1>1, <1>2, CloseTypes DEF Inv, TypeRobots, robot, Up
  <1>5. TypeRequests'
    BY <1>1, <1>2, CloseTypes DEF Inv, TypeRequests, orders, Up
  <1>6. HeardIsUp'
    BY <1>1, <1>2, CloseTypes DEF HeardIsUp, Up
  <1>7. RetryArmed'
    BY <1>1, <1>2, CloseTypes DEF Inv, TypeSockets, RetryArmed, ScheduleReconnect
  <1>8. GeneralIsShown'
    BY <1>1, <1>2, CloseTypes DEF GeneralIsShown
  <1>9. QED
    BY <1>3, <1>4, <1>5, <1>6, <1>7, <1>8 DEF Inv

\* The operator's orders to connect and to disconnect, and a change of the address.
LEMMA EndpointInv ==
  ASSUME Inv,
         ConnectToBridge \/ DisconnectFromBridge \/ (\E x \in Robots : SetEndpoint(x))
  PROVE  Inv'
  <1>1. CASE ConnectToBridge
    <2>. USE <1>1 DEF ConnectToBridge, Dial, Inv
    <2>1. \A l \in Links : /\ link'[l] = "up" <=> link[l] = "up"
                           /\ l \in ports => link'[l] # "down"
      BY DEF TypeSockets, Links
    <2>2. TypeSockets'
      BY DEF TypeSockets
    <2>3. TypeRobots'
      BY <2>1 DEF TypeRobots, robot, Up
    <2>4. TypeRequests'
      BY <2>1 DEF TypeRequests, orders, Up
    <2>5. HeardIsUp' /\ RetryArmed' /\ GeneralIsShown'
      BY <2>1 DEF TypeSockets, HeardIsUp, RetryArmed, GeneralIsShown, Up
    <2>6. QED
      BY <2>2, <2>3, <2>4, <2>5
  <1>2. CASE DisconnectFromBridge
    <2>. USE <1>2, CloseTypes DEF DisconnectFromBridge
    <2>1. Links \in SUBSET Links
      OBVIOUS
    <2>2. TypeSockets'
      BY <2>1 DEF Inv, TypeSockets
    <2>3. TypeRobots'
      BY <2>1 DEF Inv, TypeRobots, robot, Up
    <2>4. TypeRequests'
      BY <2>1 DEF Inv, TypeRequests, orders, Up
    <2>5. HeardIsUp' /\ RetryArmed' /\ GeneralIsShown'
      BY <2>1 DEF HeardIsUp, RetryArmed, GeneralIsShown, Up
    <2>6. QED
      BY <2>2, <2>3, <2>4, <2>5 DEF Inv
  <1>3. CASE \E x \in Robots : SetEndpoint(x)
    <2>1. PICK x \in Robots : SetEndpoint(x)
      BY <1>3
    <2>. USE <2>1 DEF SetEndpoint, Inv
    <2>2. TypeSockets'
      BY DEF TypeSockets, Links
    <2>3. TypeRobots'
      BY DEF TypeRobots, Up
    <2>4. TypeRequests'
      BY DEF TypeRequests, orders, Requests
    <2>5. HeardIsUp' /\ RetryArmed' /\ GeneralIsShown'
      BY DEF TypeSockets, Links, HeardIsUp, RetryArmed, GeneralIsShown
    <2>6. QED
      BY <2>2, <2>3, <2>4, <2>5
  <1>4. QED
    BY <1>1, <1>2, <1>3

\* The timers, and the connections they make.
LEMMA ConnectingInv ==
  ASSUME Inv, NEW l \in Links, Retry(l) \/ ConnectFails(l) \/ Lost(l)
  PROVE  Inv'
  <1>1. CASE Retry(l) \/ ConnectFails(l)
    <2>. USE <1>1 DEF Retry, Dial, ConnectFails, ScheduleReconnect, Inv
    <2>1. \A k \in Links : (link'[k] = "up" <=> link[k] = "up")
                            /\ (k # l => link'[k] = link[k])
      BY DEF TypeSockets
    <2>2. TypeSockets'
      BY DEF TypeSockets
    <2>3. TypeRobots'
      BY <2>1 DEF TypeRobots, robot, Up
    <2>4. TypeRequests'
      BY <2>1 DEF TypeRequests, orders, Up
    <2>5. HeardIsUp' /\ GeneralIsShown'
      BY <2>1 DEF TypeSockets, HeardIsUp, GeneralIsShown, Up
    <2>6. RetryArmed'
      BY <2>1 DEF TypeSockets, RetryArmed
    <2>7. QED
      BY <2>2, <2>3, <2>4, <2>5, <2>6
  <1>2. CASE Lost(l)
    BY <1>2, DisconnectedInv DEF Lost
  <1>3. QED
    BY <1>1, <1>2

\* A request sent over l, when l is open afterwards, keeps the types of the requests.
LEMMA AskTypes ==
  ASSUME Inv, NEW l \in Links, Ask(l), \A k \in Links : Up(k) => Up(k)', Up(l)', UNCHANGED ended
  PROVE  TypeRequests'
  <1>. USE DEF Inv
  <1>1. asked + 1 \in 1..MaxRequests /\ asked \in Nat /\ asked' = asked + 1
    BY LinkConstants DEF Ask, TypeRequests
  <1>2. /\ pending' \subseteq 1..MaxRequests /\ ended' \subseteq 1..MaxRequests
        /\ wire' \in [1..MaxRequests -> {"none", "request", "answer"}]
        /\ asked' \in 0..MaxRequests
        /\ via' \in [1..MaxRequests -> Links]
        /\ named' \in [1..MaxRequests -> Robots \cup {Nobody}]
    BY <1>1, LinkConstants DEF Ask, TypeRequests, TypeRobots
  <1>3. ASSUME NEW r \in 1..MaxRequests, wire'[r] # "none"
        PROVE  r <= asked' /\ Up(via[r])' 
    <2>1. CASE r = asked + 1
      BY <2>1, <1>1 DEF Ask, TypeRequests, Up
    <2>2. CASE r # asked + 1
      <3>1. wire[r] # "none" /\ via'[r] = via[r]
        BY <2>2, <1>1, <1>3 DEF Ask, TypeRequests
      <3>2. r <= asked /\ Up(via[r]) /\ via[r] \in Links
        BY <3>1 DEF TypeRequests
      <3>3. QED
        BY <3>1, <3>2, <1>1 DEF Up
    <2>3. QED
      BY <2>1, <2>2
  <1>4. QED
    BY <1>2, <1>3 DEF TypeRequests, Up

LEMMA AskingInv ==
  ASSUME Inv, NEW l \in Links, Send(l) \/ Connected(l)
  PROVE  Inv'
  <1>1. CASE Send(l)
    <2>. USE <1>1 DEF Send, sockets
    <2>1. TypeRequests'
      BY AskTypes DEF Up
    <2>2. TypeSockets' /\ HeardIsUp' /\ RetryArmed' /\ GeneralIsShown'
      BY DEF Inv, TypeSockets, HeardIsUp, RetryArmed, GeneralIsShown, Up
    <2>3. TypeRobots'
      BY DEF Inv, TypeRobots, robot, Up
    <2>4. QED
      BY <2>1, <2>2, <2>3 DEF Inv
  <1>2. CASE Connected(l)
    <2>. USE <1>2 DEF Connected, Inv
    <2>1. /\ link' \in [Links -> {"down", "connecting", "up"}] /\ link'[l] = "up"
          /\ \A k \in Links : k # l => link'[k] = link[k]
          /\ l \notin heard
      BY DEF TypeSockets, HeardIsUp, Up
    <2>2. TypeSockets' /\ HeardIsUp' /\ RetryArmed'
      BY <2>1 DEF TypeSockets, HeardIsUp, RetryArmed, Up
    <2>3. /\ peer' \in [Links -> Robots \cup {Nobody}] /\ peer'[l] = at
          /\ \A k \in Links : k # l => peer'[k] = peer[k]
      BY DEF TypeRobots
    <2>4. TypeRobots'
      BY <2>1, <2>3, LinkConstants DEF TypeRobots, robot, Up
    <2>5. GeneralIsShown'
      BY <2>1, <2>3 DEF GeneralIsShown, Links
    <2>6. \A k \in Links : Up(k) => Up(k)'
      BY <2>1 DEF Up
    <2>7. TypeRequests'
      <3>1. CASE Ask(l)
        BY <3>1, <2>1, <2>6, AskTypes DEF Up
      <3>2. CASE UNCHANGED <<pending, wire, orders>>
        BY <3>2, <2>6 DEF TypeRequests, orders, Up
      <3>3. QED
        BY <3>1, <3>2
    <2>8. QED
      BY <2>2, <2>4, <2>5, <2>7
  <1>3. QED
    BY <1>1, <1>2

\* A frame: it fixes the robot shown, agrees with it, or ends its connection.
LEMMA IdentifyInv ==
  ASSUME Inv, NEW l \in Links, Up(l), Identify(l),
         UNCHANGED <<want, ports, link, peer, retry, robot>>
  PROVE  TypeSockets' /\ TypeRobots' /\ HeardIsUp' /\ RetryArmed' /\ GeneralIsShown'
  <1>. USE DEF Inv, Identify
  <1>1. TypeSockets' /\ HeardIsUp' /\ RetryArmed'
    BY DEF TypeSockets, HeardIsUp, RetryArmed, Up
  <1>2. TypeRobots'
    BY DEF TypeRobots, robot, Up
  <1>3. GeneralIsShown'
    BY DEF GeneralIsShown, HeardIsUp, TypeRobots, Links
  <1>4. QED
    BY <1>1, <1>2, <1>3

LEMMA FramesInv ==
  ASSUME Inv,
         \/ \E l \in Links : HandleFrame(l)
         \/ \E r \in Requests : HandleResponse(r)
  PROVE  Inv'
  <1>1. ASSUME NEW l \in Links, HandleFrame(l) PROVE Inv'
    <2>1. CASE Up(l) /\ Identify(l)
               /\ UNCHANGED <<want, ports, link, peer, retry, pending, robot, wire, orders, ended>>
      <3>1. TypeRequests'
        BY <2>1 DEF Inv, TypeRequests, orders, Up
      <3>2. QED
        BY <2>1, <3>1, IdentifyInv DEF Inv
    <2>2. CASE Up(l) /\ Mismatch(l)
      BY <2>2, DisconnectedInv DEF Mismatch
    <2>3. QED
      BY <1>1, <2>1, <2>2 DEF HandleFrame
  <1>2. ASSUME NEW r \in Requests, HandleResponse(r) PROVE Inv'
    <2>1. wire[r] = "answer" /\ via[r] \in Links /\ Up(via[r]) /\ r \in 1..MaxRequests
      BY <1>2 DEF HandleResponse, Inv, TypeRequests, Requests
    <2>2. CASE /\ Identify(via[r])
               /\ wire' = [wire EXCEPT ![r] = "none"]
               /\ pending' = pending \ {r} /\ ended' = ended \cup {r}
               /\ UNCHANGED <<want, ports, link, peer, retry, robot, orders>>
      <3>1. TypeRequests'
        BY <2>1, <2>2 DEF Inv, TypeRequests, orders, Up
      <3>2. QED
        BY <2>1, <2>2, <3>1, IdentifyInv DEF Inv
    <2>3. CASE Mismatch(via[r])
      BY <2>1, <2>3, DisconnectedInv DEF Mismatch
    <2>4. QED
      BY <1>2, <2>2, <2>3 DEF HandleResponse
  <1>3. QED
    BY <1>1, <1>2

\* What happens at the robot, and the watch for answers.
LEMMA AwayInv ==
  ASSUME Inv,
         \/ \E x \in Robots : RobotReplaced(x)
         \/ \E l \in Links : PortToggles(l)
         \/ \E r \in Requests : Serve(r) \/ CheckTimeouts(r)
         \/ UNCHANGED vars
  PROVE  Inv'
  <1>1. ASSUME UNCHANGED <<want, ports, sockets, retry, robotId, orders>>,
               at' \in Robots, reachable' \subseteq Links,
               pending' \subseteq 1..MaxRequests, ended' \subseteq 1..MaxRequests,
               wire' \in [1..MaxRequests -> {"none", "request", "answer"}],
               \A r \in 1..MaxRequests : wire'[r] # "none" => wire[r] # "none"
        PROVE  Inv'
    <2>. USE <1>1 DEF Inv, sockets, orders
    <2>1. TypeSockets' /\ HeardIsUp' /\ RetryArmed' /\ GeneralIsShown'
      BY DEF TypeSockets, HeardIsUp, RetryArmed, GeneralIsShown, Up
    <2>2. TypeRobots' /\ TypeRequests'
      BY DEF TypeRobots, TypeRequests, Up
    <2>3. QED
      BY <2>1, <2>2
  <1>. USE DEF Inv, TypeRobots, TypeRequests, Requests
  <1>2. CASE \E x \in Robots : RobotReplaced(x)
    BY <1>1, <1>2 DEF RobotReplaced
  <1>3. CASE \E l \in Links : PortToggles(l)
    BY <1>1, <1>3 DEF PortToggles
  <1>4. CASE \E r \in Requests : Serve(r)
    BY <1>1, <1>4 DEF Serve, robot
  <1>5. CASE \E r \in Requests : CheckTimeouts(r)
    BY <1>1, <1>5 DEF CheckTimeouts, robot
  <1>6. CASE UNCHANGED vars
    BY <1>1, <1>6 DEF vars, robot
  <1>7. QED
    BY <1>2, <1>3, <1>4, <1>5, <1>6

LEMMA InvNext == Inv /\ [Next]_vars => Inv'
  <1>. SUFFICES ASSUME Inv, [Next]_vars PROVE Inv'
    OBVIOUS
  <1>1. CASE ConnectToBridge \/ DisconnectFromBridge \/ (\E x \in Robots : SetEndpoint(x))
    BY <1>1, EndpointInv
  <1>2. CASE \E l \in Links : Retry(l) \/ ConnectFails(l) \/ Lost(l)
    BY <1>2, ConnectingInv
  <1>3. CASE \E l \in Links : Send(l) \/ Connected(l)
    BY <1>3, AskingInv
  <1>4. CASE \/ \E l \in Links : HandleFrame(l)
             \/ \E r \in Requests : HandleResponse(r)
    BY <1>4, FramesInv
  <1>5. CASE \/ \E x \in Robots : RobotReplaced(x)
             \/ \E l \in Links : PortToggles(l)
             \/ \E r \in Requests : Serve(r) \/ CheckTimeouts(r)
             \/ UNCHANGED vars
    BY <1>5, AwayInv
  <1>6. QED
    BY <1>1, <1>2, <1>3, <1>4, <1>5, Zenon DEF Next

\* No step lets go of a request of the general link, and one that is sent is watched.
LEMMA AccountedNext == Inv /\ RequestsAccounted /\ [Next]_vars => RequestsAccounted'
  <1>. SUFFICES ASSUME Inv, RequestsAccounted, [Next]_vars PROVE RequestsAccounted'
    OBVIOUS
  <1>1. ASSUME UNCHANGED orders,
               \A r \in pending \cup ended : via[r] = "general" => r \in pending' \cup ended'
        PROVE  RequestsAccounted'
    BY <1>1 DEF RequestsAccounted, orders
  <1>2. ASSUME NEW ls, CloseSockets(ls), UNCHANGED orders PROVE RequestsAccounted'
    BY <1>1, <1>2 DEF CloseSockets
  <1>3. ASSUME NEW l \in Links, Ask(l), UNCHANGED ended PROVE RequestsAccounted'
    <2>1. /\ asked \in Nat /\ asked' = asked + 1 /\ asked + 1 \in pending'
          /\ \A r \in 1..asked : via'[r] = via[r]
          /\ pending \subseteq pending'
      BY <1>3, LinkConstants DEF Ask, Inv, TypeRequests
    <2>2. ASSUME NEW r \in 1..asked', via'[r] = "general"
          PROVE  r \in pending' \cup ended'
      <3>1. CASE r = asked + 1
        BY <3>1, <2>1
      <3>2. CASE r \in 1..asked
        BY <3>2, <2>1, <2>2, <1>3 DEF RequestsAccounted
      <3>3. QED
        BY <3>1, <3>2, <2>1
    <2>3. QED
      BY <2>2 DEF RequestsAccounted
  <1>4. ASSUME NEW l \in Links, Disconnected(l) PROVE RequestsAccounted'
    BY <1>2, <1>4 DEF Disconnected
  <1>5. CASE ConnectToBridge \/ DisconnectFromBridge \/ (\E x \in Robots : SetEndpoint(x))
    BY <1>1, <1>2, <1>5 DEF ConnectToBridge, DisconnectFromBridge, SetEndpoint
  <1>6. CASE \E l \in Links : Retry(l) \/ ConnectFails(l) \/ Lost(l)
    BY <1>1, <1>4, <1>6 DEF Retry, ConnectFails, Lost
  <1>7. CASE \E l \in Links : Send(l) \/ Connected(l)
    BY <1>1, <1>3, <1>7 DEF Send, Connected
  <1>8. CASE \/ \E l \in Links : HandleFrame(l)
             \/ \E r \in Requests : HandleResponse(r)
    <2>1. ASSUME NEW r \in Requests, HandleResponse(r) PROVE RequestsAccounted'
      <3>1. via[r] \in Links
        BY DEF Inv, TypeRequests, Requests
      <3>2. QED
        BY <3>1, <1>1, <1>4, <2>1 DEF HandleResponse, Mismatch
    <2>2. QED
      BY <2>1, <1>1, <1>4, <1>8 DEF HandleFrame, Mismatch
  <1>9. CASE \/ \E x \in Robots : RobotReplaced(x)
             \/ \E l \in Links : PortToggles(l)
             \/ \E r \in Requests : Serve(r) \/ CheckTimeouts(r)
             \/ UNCHANGED vars
    BY <1>1, <1>9 DEF RobotReplaced, PortToggles, Serve, CheckTimeouts, vars
  <1>10. QED
    BY <1>5, <1>6, <1>7, <1>8, <1>9, Zenon DEF Next

LEMMA Invariance == Spec => []Inv
  BY InvInit, InvNext, PTL DEF Spec

\* The client's state has its types, and what is on its way is on its way over an open
\* connection (BridgeClient's sockets, timers and pending_).
THEOREM LinkTypes == Spec => []TypeOK
  BY Invariance, InvTypes, PTL

\* However its connection ended, a link the operator wants and that is down will be tried
\* again (onDisconnected, onSocketError and their E-stop twins).
THEOREM DownLinksAreTriedAgain == Spec => []RetryArmed
  <1>1. Inv => RetryArmed
    BY DEF Inv
  <1>2. QED
    BY <1>1, Invariance, PTL

\* The robot shown is the one at the other end of the general connection, once it has been
\* heard (handleFrame and handleEstopFrame, with resetLinkState).
THEOREM ShownIsGeneral == Spec => []GeneralIsShown
  <1>1. Inv => GeneralIsShown
    BY DEF Inv
  <1>2. QED
    BY <1>1, Invariance, PTL

\* Every request over the general link waits for its answer or its end was told (sendRequest,
\* handleResponse, checkTimeouts and resetLinkState with its LINK_LOST).
THEOREM RequestsAreAccounted == Spec => []RequestsAccounted
  <1>1. Init => RequestsAccounted
    BY DEF Init, RequestsAccounted
  <1>2. QED
    BY <1>1, AccountedNext, Invariance, PTL DEF Spec

-----------------------------------------------------------------------------
(* The jog controls.                                                       *)
Controls == {Control(by, d) : by \in {"key", "pad"}, d \in Directions}

JogTyped ==
    /\ enabled \in BOOLEAN /\ connected \in BOOLEAN /\ reported \in BOOLEAN /\ shown \in BOOLEAN
    /\ heldKey \in Directions \cup {None} /\ pad \in Directions \cup {None}
    /\ keys \subseteq Directions
    /\ driving \in Controls \cup {Idle} /\ unheard \subseteq Controls

\* Only the panel while it is enabled drives, and it is enabled only when it may be.
EnabledOnly ==
    /\ driving # Idle => enabled
    /\ enabled => connected /\ ~shown

\* The key that drives is the one whose release stops it.
KeyIsHeld == driving.by = "key" => heldKey = driving.dir

JogInv == JogTyped /\ EnabledOnly /\ KeyIsHeld /\ HeldOrUnheard /\ JogReturns

\* Idle is no control of a key or of the pad.
LEMMA ControlParts ==
    /\ Idle.by = "none" /\ Idle \notin Controls
    /\ \A by, d : Control(by, d).by = by /\ Control(by, d).dir = d
    /\ \A c \in Controls : /\ c.by \in {"key", "pad"} /\ c.dir \in Directions
                            /\ c = Control(c.by, c.dir)
  <1>1. \A by, d : Control(by, d).by = by /\ Control(by, d).dir = d
    BY DEF Control
  <1>2. Idle.by = "none"
    BY <1>1 DEF Idle
  <1>3. ASSUME NEW c \in Controls
        PROVE  c.by \in {"key", "pad"} /\ c.dir \in Directions /\ c = Control(c.by, c.dir)
    <2>1. PICK by \in {"key", "pad"}, d \in Directions : c = Control(by, d)
      BY DEF Controls
    <2>2. c.by = by /\ c.dir = d
      BY <1>1, <2>1
    <2>3. QED
      BY <2>1, <2>2
  <1>4. QED
    BY <1>1, <1>2, <1>3

\* A key may be pressed while another control drives.
LEMMA KeyDownInv ==
    ASSUME JogInv, NEW d \in Directions, KeyDown(d)
    PROVE  JogInv'
  <1>. USE PanelConstants, ControlParts DEF JogInv, KeyDown, JogTyped, EnabledOnly, KeyIsHeld
  <1>0. Control("key", d) \in Controls
    BY DEF Controls
  <1>1. UNCHANGED <<enabled, pad, connected, reported, shown, clicked>> /\ keys' = keys \cup {d}
    BY DEF window, station
  <1>2. CASE Hears
    <2>1. /\ enabled /\ heldKey' = d /\ driving' = Control("key", d)
          /\ unheard' = unheard \ {Control("key", d)}
      BY <1>2 DEF Hears, HearKeyDown, Press
    <2>2. JogTyped' /\ EnabledOnly' /\ KeyIsHeld'
      BY <1>0, <1>1, <2>1
    <2>3. HeldOrUnheard'
      BY <1>1, <2>1 DEF HeldOrUnheard, Held
    <2>4. JogReturns'
      BY <1>1 DEF JogReturns
    <2>5. QED
      BY <2>2, <2>3, <2>4
  <1>3. CASE ~Hears
    <2>1. UNCHANGED <<heldKey, driving, unheard>>
      BY <1>3
    <2>2. JogTyped' /\ EnabledOnly' /\ KeyIsHeld'
      BY <1>1, <2>1
    <2>3. HeldOrUnheard'
      BY <1>1, <2>1 DEF HeldOrUnheard, Held
    <2>4. JogReturns'
      BY <1>1 DEF JogReturns
    <2>5. QED
      BY <2>2, <2>3, <2>4
  <1>4. QED
    BY <1>2, <1>3

\* The release of a key stops what it drives, or is not heard.
LEMMA KeyUpInv ==
    ASSUME JogInv, NEW d \in Directions, KeyUp(d)
    PROVE  JogInv'
  <1>. USE PanelConstants, ControlParts DEF JogInv, KeyUp, JogTyped, EnabledOnly, KeyIsHeld
  <1>0. Control("key", d) \in Controls /\ \A p \in Directions : Control("pad", p) \in Controls
    BY DEF Controls
  <1>1. UNCHANGED <<enabled, connected, reported, shown, clicked>> /\ keys' = keys \ {d}
    BY DEF window, station
  <1>2. CASE Hears
    <2>1. /\ IF heldKey = d THEN heldKey' = None /\ driving' = Idle
                            ELSE UNCHANGED <<heldKey, driving>>
          /\ pad' = IF pad = d THEN None ELSE pad
          /\ unheard' = (unheard \ {Control("key", d)})
                           \cup {Control("pad", p) : p \in {pad} \cap {d}}
      BY <1>2 DEF HearKeyUp, Release
    <2>2. JogTyped' /\ EnabledOnly' /\ KeyIsHeld'
      BY <1>0, <1>1, <2>1
    <2>3. HeldOrUnheard'
      <3>1. CASE driving' = Idle
        BY <3>1 DEF HeldOrUnheard
      <3>2. CASE driving \in unheard /\ driving' = driving /\ heldKey # d
        <4>1. driving # Control("key", d)
          BY <3>2
        <4>2. QED
          BY <2>1, <3>2, <4>1 DEF HeldOrUnheard
      <3>3. CASE (\E k \in keys : driving = Control("key", k)) /\ driving' = driving /\ heldKey # d
        BY <1>1, <3>3 DEF HeldOrUnheard, Held
      <3>4. CASE pad # None /\ driving = Control("pad", pad) /\ driving' = driving
        <4>1. CASE pad = d
          BY <2>1, <3>4, <4>1 DEF HeldOrUnheard
        <4>2. CASE pad # d
          BY <2>1, <3>4, <4>2 DEF HeldOrUnheard, Held
        <4>3. QED
          BY <4>1, <4>2
      <3>5. QED
        BY <2>1, <3>1, <3>2, <3>3, <3>4 DEF HeldOrUnheard, Held
    <2>4. JogReturns'
      BY <1>1 DEF JogReturns
    <2>5. QED
      BY <2>2, <2>3, <2>4
  <1>3. CASE ~Hears
    <2>1. unheard' = unheard \cup {Control("key", d)} /\ UNCHANGED <<heldKey, driving, pad>>
      BY <1>3
    <2>2. JogTyped' /\ EnabledOnly' /\ KeyIsHeld'
      BY <1>0, <1>1, <2>1
    <2>3. HeldOrUnheard'
      BY <1>1, <2>1 DEF HeldOrUnheard, Held
    <2>4. JogReturns'
      BY <1>1 DEF JogReturns
    <2>5. QED
      BY <2>2, <2>3, <2>4
  <1>4. QED
    BY <1>2, <1>3

\* The other controls: what drives is the pad that was pressed, what drove before, or nothing.
LEMMA ControlInv ==
    ASSUME JogInv,
           \/ Space \/ PadUp \/ Stop
           \/ \E d \in Directions : PadDown(d)
           \/ \E on \in BOOLEAN : ShowView(on) \/ FocusMoves(on) \/ WindowChanges(on)
    PROVE  JogInv'
  <1>. USE PanelConstants, ControlParts DEF JogInv, JogTyped, EnabledOnly, KeyIsHeld
  <1>1. CASE Space \/ PadUp \/ Stop
    <2>1. /\ driving' = Idle
          /\ UNCHANGED <<enabled, keys, connected, reported, shown, unheard, clicked>>
          /\ heldKey' \in {heldKey, None} /\ pad' \in {pad, None}
      BY <1>1 DEF Space, PadUp, Stop, Release, window, station, history
    <2>2. QED
      BY <2>1 DEF HeldOrUnheard, JogReturns
  <1>2. ASSUME NEW d \in Directions, PadDown(d) PROVE JogInv'
    <2>1. /\ enabled /\ driving' = Control("pad", d) /\ pad' = d
          /\ unheard' = unheard \ {Control("pad", d)}
          /\ UNCHANGED <<enabled, heldKey, keys, connected, reported, shown, clicked>>
      BY <1>2 DEF PadDown, Press, station
    <2>2. Control("pad", d) \in Controls
      BY DEF Controls
    <2>3. HeldOrUnheard'
      BY <2>1 DEF HeldOrUnheard, Held
    <2>4. QED
      BY <2>1, <2>2, <2>3 DEF JogReturns
  <1>3. ASSUME NEW on \in BOOLEAN, ShowView(on) \/ FocusMoves(on) \/ WindowChanges(on)
        PROVE  JogInv'
    <2>1. /\ driving' \in {driving, Idle}
          /\ UNCHANGED <<enabled, heldKey, pad, keys, connected, reported, shown, unheard, clicked>>
      BY <1>3 DEF ShowView, FocusMoves, WindowChanges, FocusLost, Release, station, history
    <2>2. HeldOrUnheard'
      BY <2>1 DEF HeldOrUnheard, Held
    <2>3. QED
      BY <2>1, <2>2 DEF JogReturns
  <1>4. QED
    BY <1>1, <1>2, <1>3

\* MainWindow enables the controls only when they may be, and stops them when it does not.
LEMMA AllowedInv ==
    ASSUME JogInv,
           \/ OnConnected \/ OnDisconnected \/ OnTelemetry \/ EngageEstop
           \/ \E on \in BOOLEAN : OnSafety(on) \/ SetMode(on)
    PROVE  JogInv'
  <1>. USE PanelConstants, ControlParts DEF JogInv, JogTyped, EnabledOnly, KeyIsHeld
  <1>1. ASSUME NEW on \in BOOLEAN, SetJogEnabled(on), UNCHANGED <<keys, unheard>>
        PROVE  /\ enabled' = on /\ heldKey' = heldKey
               /\ pad' \in {pad, None} /\ driving' \in {driving, Idle}
               /\ ~on => driving' = Idle
               /\ HeldOrUnheard'
    BY <1>1 DEF SetJogEnabled, Release, HeldOrUnheard, Held
  <1>2. CASE OnConnected
    <2>1. UNCHANGED <<keys, reported, shown, unheard>> /\ ~connected /\ connected' = TRUE
      BY <1>2 DEF OnConnected
    <2>2. CASE shown
      <3>1. UNCHANGED <<enabled, heldKey, driving, pad, clicked>>
        BY <1>2, <2>2 DEF OnConnected, panel
      <3>2. HeldOrUnheard'
        BY <2>1, <3>1 DEF HeldOrUnheard, Held
      <3>3. QED
        BY <2>1, <2>2, <3>1, <3>2 DEF JogReturns
    <2>3. CASE ~shown
      <3>1. SetJogEnabled(TRUE)
        BY <1>2, <2>3 DEF OnConnected, Allow
      <3>2. QED
        BY <1>1, <2>1, <2>3, <3>1 DEF JogReturns
    <2>4. QED
      BY <2>2, <2>3
  <1>3. CASE OnDisconnected
    <2>1. /\ UNCHANGED <<keys, reported, shown, unheard>> /\ connected' = FALSE
          /\ SetJogEnabled(FALSE)
      BY <1>3 DEF OnDisconnected, Allow
    <2>2. QED
      BY <1>1, <2>1 DEF JogReturns
  <1>4. CASE OnTelemetry
    <2>1. UNCHANGED <<keys, connected, reported, unheard>> /\ shown' = reported
      BY <1>4 DEF OnTelemetry
    <2>2. CASE reported
      <3>1. SetJogEnabled(FALSE)
        BY <1>4, <2>2 DEF OnTelemetry, Allow
      <3>2. QED
        BY <1>1, <2>1, <2>2, <3>1 DEF JogReturns
    <2>3. CASE ~reported /\ connected
      <3>1. SetJogEnabled(TRUE)
        BY <1>4, <2>3 DEF OnTelemetry, Allow
      <3>2. QED
        BY <1>1, <2>1, <2>3, <3>1 DEF JogReturns
    <2>4. CASE ~reported /\ ~connected
      <3>1. UNCHANGED <<enabled, heldKey, driving, pad, clicked>>
        BY <1>4, <2>4 DEF OnTelemetry, panel
      <3>2. HeldOrUnheard'
        BY <2>1, <3>1 DEF HeldOrUnheard, Held
      <3>3. QED
        BY <2>1, <2>4, <3>1, <3>2 DEF JogReturns
    <2>5. QED
      BY <2>2, <2>3, <2>4
  <1>5. CASE EngageEstop
    <2>1. /\ SetJogEnabled(FALSE) /\ clicked' = TRUE
          /\ UNCHANGED <<keys, connected, reported, shown, unheard>>
      BY <1>5 DEF EngageEstop, station
    <2>2. QED
      BY <1>1, <2>1 DEF JogReturns
  <1>6. ASSUME NEW on \in BOOLEAN, OnSafety(on) PROVE JogInv'
    <2>1. /\ reported' = on
          /\ UNCHANGED <<enabled, heldKey, driving, pad, keys, connected, shown, unheard, clicked>>
      BY <1>6 DEF OnSafety, panel, history
    <2>2. HeldOrUnheard'
      BY <2>1 DEF HeldOrUnheard, Held
    <2>3. QED
      BY <2>1, <2>2 DEF JogReturns
  <1>7. ASSUME NEW on \in BOOLEAN, SetMode(on) PROVE JogInv'
    <2>1. /\ SetJogEnabled(connected) /\ ~shown
          /\ UNCHANGED <<keys, connected, reported, shown, unheard>>
      BY <1>7 DEF SetMode, Allow, station
    <2>2. QED
      BY <1>1, <2>1 DEF JogReturns
  <1>8. QED
    BY <1>2, <1>3, <1>4, <1>5, <1>6, <1>7

LEMMA JogInvInit == JogInit => JogInv
  BY PanelConstants, ControlParts
  DEF JogInit, JogInv, JogTyped, EnabledOnly, KeyIsHeld, HeldOrUnheard, JogReturns

LEMMA JogInvNext == JogInv /\ [JogNext]_jogVars => JogInv'
  <1>. SUFFICES ASSUME JogInv, [JogNext]_jogVars PROVE JogInv'
    OBVIOUS
  <1>1. CASE \E d \in Directions : KeyDown(d) \/ KeyUp(d)
    BY <1>1, KeyDownInv, KeyUpInv
  <1>2. CASE \/ Space \/ PadUp \/ Stop
             \/ \E d \in Directions : PadDown(d)
             \/ \E on \in BOOLEAN : ShowView(on) \/ FocusMoves(on) \/ WindowChanges(on)
    BY <1>2, ControlInv
  <1>3. CASE \/ OnConnected \/ OnDisconnected \/ OnTelemetry \/ EngageEstop
             \/ \E on \in BOOLEAN : OnSafety(on) \/ SetMode(on)
    BY <1>3, AllowedInv
  <1>4. CASE UNCHANGED jogVars
    BY <1>4 DEF jogVars, panel, window, station, history, JogInv, JogTyped, EnabledOnly,
                KeyIsHeld, HeldOrUnheard, Held, JogReturns
  <1>5. QED
    BY <1>1, <1>2, <1>3, <1>4, Zenon DEF JogNext

LEMMA JogInvariance == JogSpec => []JogInv
  BY JogInvInit, JogInvNext, PTL DEF JogSpec

\* What drives is under the operator's hand, or was let go of where the panel could not hear
\* of it, however keys and pad overlap (TeleopPanel::eventFilter, press and release).
THEOREM HeldDrives == JogSpec => []HeldOrUnheard
  <1>1. JogInv => HeldOrUnheard
    BY DEF JogInv
  <1>2. QED
    BY <1>1, JogInvariance, PTL

\* Nothing drives without a connection or under an E-stop that is shown (setJogEnabled and
\* MainWindow's calls of it).
THEOREM JogIsUnderControl == JogSpec => []JogUnderControl
  <1>1. JogInv => JogUnderControl
    BY DEF JogInv, EnabledOnly, JogUnderControl
  <1>2. QED
    BY <1>1, JogInvariance, PTL

\* With a connection and no E-stop shown the controls are live again, whatever locked them,
\* unless the operator has asked for an E-stop since (MainWindow's connectionChanged,
\* onTelemetry and setMode).
THEOREM JogComesBack == JogSpec => []JogReturns
  <1>1. JogInv => JogReturns
    BY DEF JogInv
  <1>2. QED
    BY <1>1, JogInvariance, PTL
=============================================================================
