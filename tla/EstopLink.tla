------------------------------ MODULE EstopLink ------------------------------
(***************************************************************************)
(* The dedicated E-stop link: gateway_transport's TcpServer, with the      *)
(* network thread that owns the socket and its decoder, and estop_bridge,  *)
(* whose executor drains what the thread observed, hands E-stop requests   *)
(* to safety_manager and publishes /safety/heartbeat.                      *)
(*                                                                         *)
(* The thread and the executor share "connected" and "events" only; every  *)
(* action of the thread changes them at most once.  What a client sent and *)
(* the thread has not read yet is part of the state, and so are clients    *)
(* that wait to be accepted.                                               *)
(*                                                                         *)
(* A frame is whole; one still split over two reads has not been sent yet. *)
(* Answers to the client, byte counts and logging are left out.            *)
(***************************************************************************)
EXTENDS Integers, Sequences

CONSTANTS
    MaxConnections,   \* bound: connections clients make, numbered in order
    MaxFrames,        \* bound: frames sent over one connection
    Kinds,            \* the kinds of frames clients send, see AllKinds
    HeartbeatTimeout, \* heartbeat_timeout_ms
    PublishPeriod,    \* period of heartbeatTimer_ (50 ms)
    PollPeriod        \* period of linkTimer_ (10 ms)

Requests == {"ENGAGE", "RELEASE"}  \* cmd/estop and cmd/estop_release

\* OTHER: a frame the bridge answers or ignores and does nothing else with: a
\* foreign robot, an unknown channel, an envelope it cannot read.  BAD: bytes
\* that are no frame.
AllKinds == {"HB", "OTHER", "BAD"} \cup Requests

ASSUME LinkConstants ==
    /\ MaxConnections \in Nat /\ MaxFrames \in Nat
    /\ Kinds \subseteq AllKinds
    /\ HeartbeatTimeout \in Nat
    /\ PublishPeriod \in Nat \ {0} /\ PollPeriod \in Nat \ {0}

Connections == 1..MaxConnections

Frame == [from : Connections, number : 1..MaxFrames, kind : Kinds]

VARIABLES
    \* clients and the network
    state,      \* of each connection: unused, waiting, served, refused or closed
    sent,       \* frames sent over each connection
    unread,     \* sent over each connection, not yet read from its socket
    ended,      \* connections that the client's side has ended
    \* the network thread
    listening,  \* listenFd_ is open
    pc,         \* where runLoop is
    client,     \* clientFd_, 0 when there is none
    decoded,    \* the frames in decoder_
    \* shared by the two
    connected,  \* connected_
    events,     \* events_
    \* the executor
    batch,      \* frames pollLink has drained and not handled yet
    received,   \* receivedHeartbeat_
    heartbeatAge, \* time since lastHeartbeat_
    pollAge, publishAge, \* time since either timer ran
    topic,      \* alive in the last SafetyHeartbeat
    commands,   \* requests handed to safety_manager, in order
    \* history
    handled,    \* numbers of the frames of each connection handled so far
    told,       \* connections known dead: closed before an alive = false
    quiet       \* time since the thread last read a heartbeat

network == <<state, sent, unread, ended>>
thread == <<listening, pc, client, decoded>>
shared == <<connected, events>>
timers == <<pollAge, publishAge>>
bridge == <<batch, received, heartbeatAge, topic, commands, handled, told>>
vars == <<network, thread, shared, timers, bridge, quiet>>

NoEvents == [connected |-> FALSE, disconnected |-> FALSE, error |-> FALSE, frames |-> <<>>]

-----------------------------------------------------------------------------
(* Clients.                                                                *)

Connect ==
    \E c \in Connections :
        /\ listening
        /\ state[c] = "unused" /\ \A d \in 1..(c - 1) : state[d] # "unused"
        /\ state' = [state EXCEPT ![c] = "waiting"]
        /\ UNCHANGED <<sent, unread, ended, thread, shared, timers, bridge, quiet>>

Reachable(c) == state[c] \in {"waiting", "served"} /\ c \notin ended

Send ==
    \E c \in Connections, kind \in Kinds :
        /\ Reachable(c) /\ sent[c] < MaxFrames
        /\ sent' = [sent EXCEPT ![c] = @ + 1]
        /\ unread' = [unread EXCEPT
                        ![c] = Append(@, [from |-> c, number |-> sent[c] + 1, kind |-> kind])]
        /\ UNCHANGED <<state, ended, thread, shared, timers, bridge, quiet>>

\* The client ends its connection, or the network reports it broken.
End ==
    \E c \in Connections :
        /\ Reachable(c)
        /\ ended' = ended \cup {c}
        /\ UNCHANGED <<state, sent, unread, thread, shared, timers, bridge, quiet>>

-----------------------------------------------------------------------------
(* The network thread.                                                     *)

OpenPort ==
    /\ ~listening
    /\ listening' = TRUE
    /\ UNCHANGED <<network, pc, client, decoded, shared, timers, bridge, quiet>>

FirstWaiting(c) == state[c] = "waiting" /\ \A d \in 1..(c - 1) : state[d] # "waiting"

\* readInitialBytes: a client may have written nothing yet, but not have gone.
MayServe(c) == unread[c] # <<>> \/ c \notin ended

\* Too few bytes for the marker of a frame, or bytes that are no frame; those may
\* begin with the marker, and are then found out by the decoder.
MayRefuse(c) == unread[c] # <<>> => Head(unread[c]).kind = "BAD"

\* Nothing waits in a client that is already being served: "poll" reports either.
Accept ==
    \E c \in Connections :
        /\ pc = "poll" /\ FirstWaiting(c)
        /\ client = 0 /\ MayServe(c)
        /\ state' = [state EXCEPT ![c] = "served"]
        /\ client' = c
        /\ \E n \in 0..Len(unread[c]) :
             /\ decoded' = SubSeq(unread[c], 1, n)
             /\ unread' = [unread EXCEPT ![c] = SubSeq(@, n + 1, Len(@))]
        /\ connected' = TRUE
        /\ pc' = "announce"
        /\ UNCHANGED <<sent, ended, listening, events, timers, bridge, quiet>>

\* A presence probe is answered and closed as well.
Refuse ==
    \E c \in Connections :
        /\ pc = "poll" /\ FirstWaiting(c)
        /\ client # 0 \/ MayRefuse(c)
        /\ state' = [state EXCEPT ![c] = "refused"]
        /\ unread' = [unread EXCEPT ![c] = <<>>]
        /\ UNCHANGED <<sent, ended, thread, shared, timers, bridge, quiet>>

Announce ==
    /\ pc = "announce"
    /\ events' = [events EXCEPT !.connected = TRUE]
    /\ pc' = IF decoded = <<>> THEN "poll" ELSE "drain"
    /\ UNCHANGED <<network, listening, client, decoded, connected, timers, bridge, quiet>>

\* An end found while reading closes the connection with all that was read.
HandleReadable ==
    /\ pc = "poll" /\ client # 0
    /\ unread[client] # <<>> \/ client \in ended
    /\ IF client \in ended
       THEN pc' = "close" /\ UNCHANGED <<decoded, unread>>
       ELSE /\ decoded' = decoded \o unread[client]
            /\ unread' = [unread EXCEPT ![client] = <<>>]
            /\ pc' = "drain"
    /\ UNCHANGED <<state, sent, ended, listening, client, shared, timers, bridge, quiet>>

\* Wrong variant: one frame for each read, the others wait for the next one.
AfterFrameOnce(rest) == "poll"

AfterFrame(rest) == IF rest = <<>> THEN "poll" ELSE "drain"

DrainDecoder ==
    /\ pc = "drain"
    /\ LET frame == Head(decoded) IN
       IF frame.kind = "BAD"
       THEN /\ events' = [events EXCEPT !.error = TRUE]
            /\ pc' = "close"
            /\ UNCHANGED <<decoded, quiet>>
       ELSE /\ events' = [events EXCEPT !.frames = Append(@, frame)]
            /\ decoded' = Tail(decoded)
            /\ pc' = AfterFrame(Tail(decoded))
            /\ quiet' = IF frame.kind = "HB" THEN 0 ELSE quiet
    /\ UNCHANGED <<network, listening, client, connected, timers, bridge>>

\* closeClient(true), up to connected_.exchange(false).
CloseClient ==
    /\ pc = "close"
    /\ state' = [state EXCEPT ![client] = "closed"]
    /\ unread' = [unread EXCEPT ![client] = <<>>]
    /\ client' = 0 /\ decoded' = <<>>
    /\ connected' = FALSE
    /\ pc' = "report"
    /\ UNCHANGED <<sent, ended, listening, events, timers, bridge, quiet>>

ReportClosed ==
    /\ pc = "report"
    /\ events' = [events EXCEPT !.disconnected = TRUE]
    /\ pc' = "poll"
    /\ UNCHANGED <<network, listening, client, decoded, connected, timers, bridge, quiet>>

NetworkThread ==
    \/ Accept
    \/ Refuse
    \/ Announce
    \/ HandleReadable
    \/ DrainDecoder
    \/ CloseClient
    \/ ReportClosed

-----------------------------------------------------------------------------
(* The executor of estop_bridge, one callback at a time.                   *)

\* Wrong variant: a silent client stays alive as long as it is connected.
AliveWhileConnected == connected /\ received

Alive == connected /\ received /\ heartbeatAge <= HeartbeatTimeout

Publish(alive) ==
    /\ topic' = alive
    /\ told' = IF alive THEN told ELSE told \cup {c \in Connections : state[c] = "closed"}

PublishHeartbeat ==
    /\ batch = <<>>
    /\ publishAge = PublishPeriod
    /\ publishAge' = 0
    /\ Publish(Alive)
    /\ UNCHANGED <<network, thread, shared, pollAge, batch, received, heartbeatAge, commands,
                   handled, quiet>>

\* Wrong variant: the loss is left to the next periodic heartbeat.
ReportLossLater == UNCHANGED <<topic, told>>

ReportLoss == Publish(FALSE)

\* Wrong variant: drain copies what was observed and leaves the frames there.
DrainByCopy ==
    /\ batch' = events.frames
    /\ events' = [NoEvents EXCEPT !.frames = events.frames]

Drain ==
    /\ batch' = events.frames
    /\ events' = NoEvents

\* pollLink up to its loop over the frames.
PollLink ==
    /\ batch = <<>>
    /\ pollAge = PollPeriod
    /\ pollAge' = 0
    /\ Drain
    /\ received' = (received /\ ~(events.connected \/ events.disconnected \/ events.error))
    /\ IF events.disconnected \/ events.error THEN ReportLoss ELSE UNCHANGED <<topic, told>>
    /\ UNCHANGED <<network, thread, connected, publishAge, heartbeatAge, commands,
                   handled, quiet>>

\* A request is passed on if the service is there.
ForwardCommand(frame) ==
    /\ commands' \in {commands, Append(commands, frame)}
    /\ UNCHANGED <<received, heartbeatAge>>

NoteHeartbeat ==
    /\ received' = TRUE /\ heartbeatAge' = 0
    /\ UNCHANGED commands

HandleFrame ==
    /\ batch # <<>>
    /\ LET frame == Head(batch) IN
         /\ CASE frame.kind = "HB" -> NoteHeartbeat
              [] frame.kind \in Requests -> ForwardCommand(frame)
              [] OTHER -> UNCHANGED <<received, heartbeatAge, commands>>
         /\ handled' = [handled EXCEPT ![frame.from] = @ \cup {frame.number}]
    /\ batch' = Tail(batch)
    /\ UNCHANGED <<network, thread, shared, timers, topic, told, quiet>>

\* Ages stop growing one unit after the last value that matters.
Older(age, limit) == IF age <= limit THEN age + 1 ELSE age

AliveLimit == HeartbeatTimeout + PollPeriod + PublishPeriod

\* Both timers are served on time, and a batch takes no time to handle.
Advance ==
    /\ batch = <<>>
    /\ pollAge < PollPeriod /\ publishAge < PublishPeriod
    /\ pollAge' = pollAge + 1 /\ publishAge' = publishAge + 1
    /\ heartbeatAge' = Older(heartbeatAge, HeartbeatTimeout)
    /\ quiet' = Older(quiet, AliveLimit)
    /\ UNCHANGED <<network, thread, shared, batch, received, topic, commands, handled, told>>

-----------------------------------------------------------------------------
Init ==
    /\ state = [c \in Connections |-> "unused"]
    /\ sent = [c \in Connections |-> 0]
    /\ unread = [c \in Connections |-> <<>>]
    /\ ended = {}
    /\ listening = FALSE /\ pc = "poll" /\ client = 0 /\ decoded = <<>>
    /\ connected = FALSE /\ events = NoEvents
    /\ batch = <<>>
    /\ received = FALSE /\ heartbeatAge = HeartbeatTimeout + 1
    /\ pollAge = 0 /\ publishAge = 0
    /\ topic = FALSE
    /\ commands = <<>>
    /\ handled = [c \in Connections |-> {}] /\ told = {}
    /\ quiet = AliveLimit + 1

Clients ==
    \/ Connect
    \/ Send
    \/ End

Next ==
    \/ Clients
    \/ OpenPort
    \/ NetworkThread
    \/ PollLink
    \/ HandleFrame
    \/ PublishHeartbeat
    \/ Advance

Spec == Init /\ [][Next]_vars

-----------------------------------------------------------------------------
(* Properties.                                                             *)

\* Types of every variable, and what the thread's private state has to do with
\* what it shares.
TypeOK ==
    /\ state \in [Connections -> {"unused", "waiting", "served", "refused", "closed"}]
    /\ sent \in [Connections -> 0..MaxFrames]
    /\ unread \in [Connections -> Seq(Frame)]
    /\ ended \subseteq Connections
    /\ listening \in BOOLEAN
    /\ pc \in {"poll", "announce", "drain", "close", "report"}
    /\ client \in Connections \cup {0}
    /\ decoded \in Seq(Frame)
    /\ connected = (client # 0)
    /\ (decoded # <<>>) => pc \in {"announce", "drain", "close"}
    /\ events \in [connected : BOOLEAN, disconnected : BOOLEAN, error : BOOLEAN,
                   frames : Seq(Frame)]
    /\ batch \in Seq(Frame)
    /\ received \in BOOLEAN /\ heartbeatAge \in 0..(HeartbeatTimeout + 1)
    /\ pollAge \in 0..PollPeriod /\ publishAge \in 0..PublishPeriod
    /\ topic \in BOOLEAN
    /\ commands \in Seq(Frame)
    /\ handled \in [Connections -> SUBSET (1..MaxFrames)]
    /\ told \subseteq Connections
    /\ quiet \in 0..(AliveLimit + 1)

\* No client takes the place of another unnoticed: before anything a client says
\* counts, safety_manager has been told that every client before it was lost,
\* even when loss and reconnect fall between two polls.
LossAnnounced ==
    \A c, d \in Connections :
        (handled[d] # {} /\ c < d /\ state[c] = "closed") => c \in told

\* A heartbeat that says alive rests on one the thread read no longer ago than
\* the timeout and the periods of the two timers together.
AliveBounded == topic => quiet <= AliveLimit

Before(f, g) == f.from < g.from \/ (f.from = g.from /\ f.number < g.number)

\* Requests reach safety_manager at most once and in the order they were sent,
\* over reconnects too: a release is never carried out after a later engage.
CommandsInOrder ==
    \A i, j \in DOMAIN commands : i < j => Before(commands[i], commands[j])

\* Nothing is left for the thread or the executor to do.
Settled ==
    /\ pc = "poll" /\ events = NoEvents /\ batch = <<>>
    /\ \A c \in Connections : state[c] # "waiting"
    /\ client # 0 => unread[client] = <<>> /\ client \notin ended

\* No frame is lost in silence: when all is settled the bridge has handled each of
\* the frames sent over a connection, the first as well as the last, or the
\* connection is known dead or was refused.
FramesHeeded ==
    Settled => \A c \in Connections :
                 1..sent[c] \subseteq handled[c] \/ c \in told \/ state[c] = "refused"
=============================================================================
