--------------------------- MODULE EstopLinkProofs ---------------------------
(***************************************************************************)
(* Proofs about the E-stop link, for any number of connections and frames  *)
(* and any timeout and periods: its types, that a lost client is announced *)
(* before its successor counts, that "alive" is bounded, that requests     *)
(* reach safety_manager in order and that no frame is lost in silence.     *)
(***************************************************************************)
EXTENDS EstopLink, SequenceTheorems, TLAPS

(* Where runLoop is says whether it serves a client and has frames left.   *)
PhaseInv ==
    /\ pc \in {"announce", "drain", "close"} => client # 0
    /\ pc = "report" => client = 0
    /\ pc = "drain" => decoded # <<>>

USE LinkConstants
USE DEF Connections

FramePart ==
    /\ unread \in [Connections -> Seq(Frame)]
    /\ decoded \in Seq(Frame) /\ batch \in Seq(Frame) /\ commands \in Seq(Frame)
    /\ (decoded # <<>>) => pc \in {"announce", "drain", "close"}

EventPart ==
    events \in [connected : BOOLEAN, disconnected : BOOLEAN, error : BOOLEAN,
                frames : Seq(Frame)]

ConnectedPart == connected = (client # 0)

ReceivedPart == received \in BOOLEAN

TopicPart == topic \in BOOLEAN

PlainPart ==
    /\ state \in [Connections -> {"unused", "waiting", "served", "refused", "closed"}]
    /\ sent \in [Connections -> 0..MaxFrames]
    /\ ended \subseteq Connections
    /\ listening \in BOOLEAN
    /\ pc \in {"poll", "announce", "drain", "close", "report"}
    /\ client \in Connections \cup {0}
    /\ handled \in [Connections -> SUBSET (1..MaxFrames)]
    /\ told \subseteq Connections

AgePart ==
    /\ heartbeatAge \in 0..(HeartbeatTimeout + 1)
    /\ pollAge \in 0..PollPeriod /\ publishAge \in 0..PublishPeriod
    /\ quiet \in 0..(AliveLimit + 1)

LEMMA TypeParts ==
    TypeOK <=> /\ FramePart /\ EventPart /\ ConnectedPart /\ ReceivedPart
               /\ TopicPart /\ PlainPart /\ AgePart
  BY Zenon DEF TypeOK, FramePart, EventPart, ConnectedPart, ReceivedPart, TopicPart,
               PlainPart, AgePart

USE DEF network, thread, shared, timers, bridge

-----------------------------------------------------------------------------
(* The next frame a client may send is one.                                *)
LEMMA NextFrameTyped ==
    ASSUME PlainPart, NEW c \in Connections, NEW kind \in Kinds, sent[c] < MaxFrames
    PROVE  [from |-> c, number |-> sent[c] + 1, kind |-> kind] \in Frame
  <1>1. sent[c] \in 0..MaxFrames
    BY DEF PlainPart
  <1>2. sent[c] + 1 \in 1..MaxFrames
    BY <1>1
  <1>3. QED
    BY <1>2 DEF Frame

(* Frames move from one place to the next and only Send makes new ones: if *)
(* all frames are of some set, and the next one sent is too, they stay so. *)
FramesIn(T) ==
    /\ unread \in [Connections -> Seq(T)]
    /\ decoded \in Seq(T) /\ batch \in Seq(T) /\ commands \in Seq(T)
    /\ events.frames \in Seq(T)

LEMMA FramesStay ==
    ASSUME EventPart, PlainPart, PhaseInv, [Next]_vars, NEW T, FramesIn(T),
           \A c \in Connections, kind \in Kinds :
               sent[c] < MaxFrames /\ sent'[c] = sent[c] + 1 =>
                   [from |-> c, number |-> sent[c] + 1, kind |-> kind] \in T
    PROVE  FramesIn(T)'
  <1> USE DEF FramesIn
  <1>1. CASE Connect
    BY <1>1 DEF Connect
  <1>2. CASE Send
    <2> PICK c \in Connections, kind \in Kinds :
          /\ sent[c] < MaxFrames /\ sent'[c] = sent[c] + 1
          /\ unread' = [unread EXCEPT
                ![c] = Append(@, [from |-> c, number |-> sent[c] + 1, kind |-> kind])]
      BY <1>2 DEF Send, PlainPart
    <2>1. [from |-> c, number |-> sent[c] + 1, kind |-> kind] \in T
      OBVIOUS
    <2>2. unread' \in [Connections -> Seq(T)]
      BY <2>1
    <2>3. QED
      BY <2>2, <1>2 DEF Send
  <1>3. CASE End
    BY <1>3 DEF End
  <1>4. CASE OpenPort
    BY <1>4 DEF OpenPort
  <1>5. CASE Accept
    <2> PICK c \in Connections : \E n \in 0..Len(unread[c]) :
          /\ decoded' = SubSeq(unread[c], 1, n)
          /\ unread' = [unread EXCEPT ![c] = SubSeq(@, n + 1, Len(@))]
      BY <1>5 DEF Accept
    <2> PICK n \in 0..Len(unread[c]) :
          /\ decoded' = SubSeq(unread[c], 1, n)
          /\ unread' = [unread EXCEPT ![c] = SubSeq(@, n + 1, Len(@))]
      OBVIOUS
    <2>1. unread[c] \in Seq(T) /\ \A i \in 1..Len(unread[c]) : unread[c][i] \in T
      BY ElementOfSeq
    <2>2. SubSeq(unread[c], 1, n) \in Seq(T)
      <3>1. \A i \in 1..n : unread[c][i] \in T
        BY <2>1, LenProperties
      <3>2. QED
        BY <3>1, SubSeqProperties
    <2>3. SubSeq(unread[c], n + 1, Len(unread[c])) \in Seq(T)
      <3>1. \A i \in (n + 1)..Len(unread[c]) : unread[c][i] \in T
        BY <2>1, LenProperties
      <3>2. Len(unread[c]) \in Int
        BY <2>1, LenProperties
      <3>3. QED
        BY <3>1, <3>2, SubSeqProperties
    <2>4. QED
      BY <2>2, <2>3, <1>5 DEF Accept
  <1>6. CASE Refuse
    BY <1>6 DEF Refuse
  <1>7. CASE Announce
    BY <1>7 DEF Announce, EventPart
  <1>8. CASE HandleReadable
    <2>1. client \in Connections
      BY <1>8 DEF HandleReadable, PlainPart
    <2>2. unread[client] \in Seq(T)
      BY <2>1
    <2>3. decoded \o unread[client] \in Seq(T)
      BY <2>2, ConcatProperties
    <2>4. decoded' \in {decoded, decoded \o unread[client]}
          /\ unread' \in {unread, [unread EXCEPT ![client] = <<>>]}
          /\ UNCHANGED <<batch, commands, events>>
      BY <1>8 DEF HandleReadable
    <2>5. [unread EXCEPT ![client] = <<>>] \in [Connections -> Seq(T)]
      BY EmptySeq
    <2>6. QED
      BY <2>3, <2>4, <2>5
  <1>9. CASE DrainDecoder
    <2>1. decoded # <<>>
      BY <1>9 DEF DrainDecoder, PhaseInv
    <2>2. Tail(decoded) \in Seq(T)
      BY <2>1, HeadTailProperties
    <2>3. Append(events.frames, Head(decoded)) \in Seq(T)
      BY <2>1, HeadTailProperties, AppendProperties
    <2>4. events'.frames \in {events.frames, Append(events.frames, Head(decoded))}
      BY <1>9 DEF DrainDecoder, EventPart
    <2>5. QED
      BY <1>9, <2>2, <2>3, <2>4 DEF DrainDecoder
  <1>10. CASE CloseClient
    <2>1. unread' \in [Connections -> Seq(T)]
      BY <1>10, EmptySeq DEF CloseClient
    <2>2. QED
      BY <1>10, <2>1 DEF CloseClient
  <1>11. CASE ReportClosed
    BY <1>11 DEF ReportClosed, EventPart
  <1>12. CASE PollLink
    <2>1. batch' = events.frames /\ events'.frames = <<>>
          /\ UNCHANGED <<unread, decoded, commands>>
      BY <1>12 DEF PollLink, Drain, NoEvents
    <2>2. QED
      BY <2>1, EmptySeq
  <1>13. CASE HandleFrame
    <2>1. Head(batch) \in T /\ Tail(batch) \in Seq(T)
      BY <1>13, HeadTailProperties DEF HandleFrame
    <2>2. commands' \in Seq(T)
      <3>1. Append(commands, Head(batch)) \in Seq(T)
        BY <2>1, AppendProperties
      <3>2. commands' \in {commands, Append(commands, Head(batch))}
        BY <1>13 DEF HandleFrame, ForwardCommand, NoteHeartbeat
      <3>3. QED
        BY <3>1, <3>2
    <2>3. QED
      BY <1>13, <2>1, <2>2 DEF HandleFrame
  <1>14. CASE PublishHeartbeat
    BY <1>14 DEF PublishHeartbeat
  <1>15. CASE Advance
    BY <1>15 DEF Advance
  <1>16. CASE UNCHANGED vars
    BY <1>16 DEF vars
  <1>17. QED
    BY <1>1, <1>2, <1>3, <1>4, <1>5, <1>6, <1>7, <1>8, <1>9, <1>10, <1>11, <1>12, <1>13,
       <1>14, <1>15, <1>16 DEF Next, Clients, NetworkThread

\* Frames stay frames, and are only left over while a client is served.
LEMMA FramesTyped ==
    ASSUME FramePart, EventPart, PlainPart, PhaseInv, [Next]_vars
    PROVE  FramePart'
  <1>1. FramesIn(Frame)'
    <2>1. FramesIn(Frame)
      BY DEF FramesIn, FramePart, EventPart
    <2>2. QED
      BY <2>1, FramesStay, NextFrameTyped
  <1>2. (decoded' # <<>>) => pc' \in {"announce", "drain", "close"}
    <2> USE DEF FramePart
    <2>1. CASE Accept
      BY <2>1 DEF Accept
    <2>2. CASE Announce
      BY <2>2 DEF Announce
    <2>3. CASE HandleReadable
      BY <2>3 DEF HandleReadable
    <2>4. CASE DrainDecoder
      BY <2>4 DEF DrainDecoder, AfterFrame
    <2>5. CASE CloseClient
      BY <2>5 DEF CloseClient
    <2>6. CASE ReportClosed
      BY <2>6 DEF ReportClosed
    <2>7. CASE UNCHANGED <<pc, decoded>>
      BY <2>7
    <2>8. QED
      BY <2>1, <2>2, <2>3, <2>4, <2>5, <2>6, <2>7
      DEF Next, Clients, NetworkThread, vars, Connect, Send, End, OpenPort, Refuse,
          PollLink, HandleFrame, PublishHeartbeat, Advance
  <1>3. QED
    BY <1>1, <1>2 DEF FramesIn, FramePart

(* What the thread observed keeps its shape.                               *)
LEMMA EventsTyped ==
    ASSUME FramePart, EventPart, PlainPart, PhaseInv, [Next]_vars
    PROVE  EventPart'
  <1>1. CASE DrainDecoder
    <2>1. Head(decoded) \in Frame
      <3>1. decoded # <<>>
        BY <1>1 DEF DrainDecoder, PhaseInv
      <3>2. QED
        BY <3>1, HeadTailProperties DEF FramePart
    <2>2. events.frames \in Seq(Frame)
      BY DEF EventPart
    <2>3. Append(events.frames, Head(decoded)) \in Seq(Frame)
      BY <2>1, <2>2, AppendProperties
    <2>4. \/ events' = [events EXCEPT !.error = TRUE]
          \/ events' = [events EXCEPT !.frames = Append(@, Head(decoded))]
      BY <1>1 DEF DrainDecoder
    <2>5. QED
      BY <2>3, <2>4 DEF EventPart
  <1>2. CASE Announce
    BY <1>2 DEF Announce, EventPart
  <1>3. CASE ReportClosed
    BY <1>3 DEF ReportClosed, EventPart
  <1>4. CASE PollLink
    <2>1. events' = NoEvents
      BY <1>4 DEF PollLink, Drain
    <2>2. QED
      BY <2>1, EmptySeq DEF EventPart, NoEvents
  <1>5. CASE UNCHANGED events
    BY <1>5 DEF EventPart
  <1>6. QED
    BY <1>1, <1>2, <1>3, <1>4, <1>5
    DEF Next, Clients, NetworkThread, vars, Connect, Send, End, OpenPort, Accept, Refuse,
        HandleReadable, CloseClient, HandleFrame, PublishHeartbeat, Advance

(* connected_ says whether there is a client socket, at every step.        *)
LEMMA ConnectedKept ==
    ASSUME ConnectedPart, PlainPart, [Next]_vars
    PROVE  ConnectedPart'
  <1>1. CASE Accept
    <2>1. client' \in Connections /\ connected' = TRUE
      BY <1>1 DEF Accept
    <2>2. client' # 0
      BY <2>1
    <2>3. QED
      BY <2>1, <2>2 DEF ConnectedPart
  <1>2. CASE CloseClient
    BY <1>2 DEF CloseClient, ConnectedPart
  <1>3. CASE UNCHANGED <<client, connected>>
    BY <1>3 DEF ConnectedPart
  <1>4. QED
    BY <1>1, <1>2, <1>3
    DEF Next, Clients, NetworkThread, vars, Connect, Send, End, OpenPort, Refuse, Announce,
        HandleReadable, DrainDecoder, ReportClosed, PollLink, Drain, HandleFrame,
        PublishHeartbeat, Advance

LEMMA ReceivedTyped ==
    ASSUME ReceivedPart, EventPart, [Next]_vars
    PROVE  ReceivedPart'
  <1>1. CASE PollLink
    <2>1. received' = (received /\ ~(events.connected \/ events.disconnected \/ events.error))
      BY <1>1, Zenon DEF PollLink
    <2>2. QED
      BY <2>1, Zenon DEF ReceivedPart
  <1>2. CASE HandleFrame
    BY <1>2 DEF HandleFrame, NoteHeartbeat, ForwardCommand, ReceivedPart
  <1>3. CASE UNCHANGED received
    BY <1>3 DEF ReceivedPart
  <1>4. QED
    BY <1>1, <1>2, <1>3
    DEF Next, Clients, NetworkThread, vars, Connect, Send, End, OpenPort, Accept, Refuse,
        Announce, HandleReadable, DrainDecoder, CloseClient, ReportClosed,
        PublishHeartbeat, Advance

LEMMA TopicTyped ==
    ASSUME TopicPart, PlainPart, ConnectedPart, ReceivedPart, [Next]_vars
    PROVE  TopicPart'
  <1>1. ASSUME NEW alive \in BOOLEAN, Publish(alive)
        PROVE  TopicPart'
    BY <1>1 DEF Publish, TopicPart, PlainPart
  <1>2. CASE PollLink
    <2>1. ReportLoss \/ UNCHANGED topic
      BY <1>2 DEF PollLink
    <2>2. QED
      BY <1>1, <2>1 DEF ReportLoss, TopicPart
  <1>3. CASE PublishHeartbeat
    <2>1. Alive \in BOOLEAN
      BY Zenon DEF Alive
    <2>2. Publish(Alive)
      BY <1>3, Zenon DEF PublishHeartbeat
    <2>3. QED
      BY <1>1, <2>1, <2>2
  <1>4. CASE UNCHANGED topic
    BY <1>4 DEF TopicPart
  <1>5. QED
    BY <1>2, <1>3, <1>4
    DEF Next, Clients, NetworkThread, vars, Connect, Send, End, OpenPort, Accept, Refuse,
        Announce, HandleReadable, DrainDecoder, CloseClient, ReportClosed, HandleFrame,
        Advance

LEMMA AgesTyped ==
    ASSUME AgePart, [Next]_vars
    PROVE  AgePart'
  <1> USE DEF AgePart, AliveLimit
  <1>1. CASE DrainDecoder
    BY <1>1 DEF DrainDecoder
  <1>2. CASE PollLink
    BY <1>2 DEF PollLink
  <1>3. CASE HandleFrame
    BY <1>3 DEF HandleFrame, NoteHeartbeat, ForwardCommand
  <1>4. CASE PublishHeartbeat
    BY <1>4 DEF PublishHeartbeat
  <1>5. CASE Advance
    BY <1>5 DEF Advance, Older
  <1>6. CASE UNCHANGED <<heartbeatAge, pollAge, publishAge, quiet>>
    BY <1>6
  <1>7. QED
    BY <1>1, <1>2, <1>3, <1>4, <1>5, <1>6
    DEF Next, Clients, NetworkThread, vars, Connect, Send, End, OpenPort, Accept, Refuse,
        Announce, HandleReadable, CloseClient, ReportClosed

(* The thread's program counter agrees with its client and its frames.     *)
LEMMA PhaseKept ==
    ASSUME FramePart, PlainPart, PhaseInv, [Next]_vars
    PROVE  PhaseInv'
  <1> USE DEF PhaseInv
  <1>1. CASE Accept
    BY <1>1 DEF Accept
  <1>2. CASE Announce
    BY <1>2 DEF Announce
  <1>3. CASE HandleReadable
    <2>1. client \in Connections
      BY <1>3 DEF HandleReadable, PlainPart
    <2>2. unread[client] \in Seq(Frame) /\ decoded \in Seq(Frame)
      BY <2>1 DEF FramePart
    <2>3. unread[client] # <<>> => decoded \o unread[client] # <<>>
      BY <2>2, ConcatEqualIffEmpty
    <2>4. QED
      BY <1>3, <2>3 DEF HandleReadable
  <1>4. CASE DrainDecoder
    BY <1>4 DEF DrainDecoder, AfterFrame
  <1>5. CASE CloseClient
    BY <1>5 DEF CloseClient
  <1>6. CASE ReportClosed
    BY <1>6 DEF ReportClosed
  <1>7. CASE UNCHANGED <<pc, client, decoded>>
    BY <1>7
  <1>8. QED
    BY <1>1, <1>2, <1>3, <1>4, <1>5, <1>6, <1>7
    DEF Next, Clients, NetworkThread, vars, Connect, Send, End, OpenPort, Refuse,
        PollLink, HandleFrame, PublishHeartbeat, Advance

LEMMA PlainTyped ==
    ASSUME FramePart, EventPart, PlainPart, PhaseInv, [Next]_vars
    PROVE  PlainPart'
  <1> USE DEF PlainPart
  <1>1. CASE Connect
    BY <1>1 DEF Connect
  <1>2. CASE Send
    BY <1>2 DEF Send
  <1>3. CASE End
    BY <1>3 DEF End
  <1>4. CASE OpenPort
    BY <1>4 DEF OpenPort
  <1>5. CASE Accept
    BY <1>5 DEF Accept
  <1>6. CASE Refuse
    BY <1>6 DEF Refuse
  <1>7. CASE Announce
    BY <1>7 DEF Announce
  <1>8. CASE HandleReadable
    BY <1>8 DEF HandleReadable
  <1>9. CASE DrainDecoder
    BY <1>9 DEF DrainDecoder, AfterFrame
  <1>10. CASE CloseClient
    BY <1>10 DEF CloseClient
  <1>11. CASE ReportClosed
    BY <1>11 DEF ReportClosed
  <1>12. CASE PollLink
    BY <1>12 DEF PollLink, ReportLoss, Publish
  <1>13. CASE HandleFrame
    <2>1. Head(batch) \in Frame
      BY <1>13, HeadTailProperties DEF HandleFrame, FramePart
    <2>2. Head(batch).from \in Connections /\ Head(batch).number \in 1..MaxFrames
      BY <2>1 DEF Frame
    <2>3. handled' \in [Connections -> SUBSET (1..MaxFrames)]
      BY <1>13, <2>2 DEF HandleFrame
    <2>4. QED
      BY <1>13, <2>3 DEF HandleFrame
  <1>14. CASE PublishHeartbeat
    BY <1>14 DEF PublishHeartbeat, Publish
  <1>15. CASE Advance
    BY <1>15 DEF Advance
  <1>16. CASE UNCHANGED vars
    BY <1>16 DEF vars
  <1>17. QED
    BY <1>1, <1>2, <1>3, <1>4, <1>5, <1>6, <1>7, <1>8, <1>9, <1>10, <1>11, <1>12, <1>13,
       <1>14, <1>15, <1>16 DEF Next, Clients, NetworkThread

TypeInv == TypeOK /\ PhaseInv

LEMMA InitTyped == Init => TypeInv
  <1> SUFFICES ASSUME Init PROVE TypeInv
    OBVIOUS
  <1> USE DEF Init
  <1>1. FramePart
    BY EmptySeq DEF FramePart
  <1>2. EventPart
    BY EmptySeq DEF EventPart, NoEvents
  <1>3. ConnectedPart
    BY DEF ConnectedPart
  <1>4. ReceivedPart
    BY DEF ReceivedPart
  <1>5. TopicPart
    BY DEF TopicPart
  <1>6. PlainPart
    <2>1. 0 \in 0..MaxFrames
      OBVIOUS
    <2>2. /\ sent \in [Connections -> 0..MaxFrames]
          /\ handled \in [Connections -> SUBSET (1..MaxFrames)]
      BY <2>1
    <2>3. QED
      BY <2>2 DEF PlainPart
  <1>7. AgePart
    BY DEF AgePart, AliveLimit
  <1>8. PhaseInv
    BY DEF PhaseInv
  <1>9. QED
    BY <1>1, <1>2, <1>3, <1>4, <1>5, <1>6, <1>7, <1>8, TypeParts DEF TypeInv

LEMMA TypeStep == TypeInv /\ [Next]_vars => TypeInv'
  <1> SUFFICES ASSUME TypeInv, [Next]_vars PROVE TypeInv'
    OBVIOUS
  <1>1. /\ FramePart /\ EventPart /\ ConnectedPart /\ ReceivedPart
        /\ TopicPart /\ PlainPart /\ AgePart /\ PhaseInv
    BY TypeParts DEF TypeInv
  <1>2. /\ FramePart' /\ EventPart' /\ ConnectedPart' /\ ReceivedPart'
        /\ TopicPart' /\ PlainPart' /\ AgePart' /\ PhaseInv'
    BY <1>1, FramesTyped, EventsTyped, ConnectedKept, ReceivedTyped, TopicTyped,
       PlainTyped, AgesTyped, PhaseKept
  <1>3. TypeOK'
    BY <1>2, Zenon DEF TypeOK, FramePart, EventPart, ConnectedPart, ReceivedPart, TopicPart,
               PlainPart, AgePart
  <1>4. QED
    BY <1>2, <1>3 DEF TypeInv

\* Every variable keeps its type, connected_ always says whether the thread has a
\* client, and decoded frames are only left over while the thread serves one.
THEOREM TypeCorrect == Spec => []TypeOK
  <1>1. TypeInv => TypeOK
    BY DEF TypeInv
  <1>2. QED
    BY InitTyped, TypeStep, <1>1, PTL DEF Spec

-----------------------------------------------------------------------------
(* Who is served, in which order, and which losses are still to be told.   *)
Admitted(c) == state[c] \in {"served", "closed"}

\* Connections are made, and taken off the listening socket, in order.
QueueInv ==
    \A c, d \in Connections : c < d =>
        /\ state[c] = "unused" => state[d] = "unused"
        /\ state[c] = "waiting" => state[d] \in {"unused", "waiting"}

\* The client served is the only one and the last one admitted.
ServedInv ==
    /\ client # 0 => state[client] = "served"
    /\ \A c \in Connections : state[c] = "served" => c = client
    /\ \A c \in Connections : client # 0 /\ client < c => ~Admitted(c)

\* A loss not told yet is on its way to the executor.
PendingInv ==
    \A c \in Connections : state[c] = "closed" =>
        \/ c \in told
        \/ events.disconnected
        \/ pc = "report" /\ \A d \in Connections : c < d => ~Admitted(d)

LEMMA QueueStep ==
    ASSUME PlainPart, PhaseInv, QueueInv, ServedInv, [Next]_vars
    PROVE  QueueInv'
  <1> USE DEF QueueInv, PlainPart
  <1>1. CASE Connect
    BY <1>1 DEF Connect
  <1>2. CASE Accept
    BY <1>2 DEF Accept, FirstWaiting
  <1>3. CASE Refuse
    BY <1>3 DEF Refuse, FirstWaiting
  <1>4. CASE CloseClient
    <2>1. client \in Connections /\ state[client] = "served"
      BY <1>4 DEF CloseClient, PhaseInv, ServedInv
    <2>2. state' = [state EXCEPT ![client] = "closed"]
      BY <1>4 DEF CloseClient
    <2>3. QED
      BY <2>1, <2>2
  <1>5. CASE UNCHANGED state
    BY <1>5
  <1>6. QED
    BY <1>1, <1>2, <1>3, <1>4, <1>5
    DEF Next, Clients, NetworkThread, vars, Send, End, OpenPort, Announce, HandleReadable,
        DrainDecoder, ReportClosed, PollLink, HandleFrame, PublishHeartbeat, Advance

LEMMA ServedStep ==
    ASSUME PlainPart, PhaseInv, QueueInv, ServedInv, [Next]_vars
    PROVE  ServedInv'
  <1> USE DEF ServedInv, Admitted, PlainPart
  <1>1. CASE Connect
    BY <1>1 DEF Connect
  <1>2. CASE Accept
    <2> PICK c \in Connections :
          /\ state[c] = "waiting" /\ client = 0
          /\ state' = [state EXCEPT ![c] = "served"] /\ client' = c
      BY <1>2 DEF Accept, FirstWaiting
    <2>1. \A d \in Connections : c < d => state[d] \in {"unused", "waiting"}
      BY DEF QueueInv
    <2>2. \A d \in Connections : state[d] # "served"
      OBVIOUS
    <2>3. \A d \in Connections : state'[d] = IF d = c THEN "served" ELSE state[d]
      OBVIOUS
    <2>4. client' = c /\ c \in Connections
      OBVIOUS
    <2>5. client' # 0 => state'[client'] = "served"
      BY <2>3, <2>4
    <2>6. \A d \in Connections : state'[d] = "served" => d = client'
      BY <2>2, <2>3, <2>4
    <2>7. \A d \in Connections : client' < d => state'[d] \notin {"served", "closed"}
      <3> SUFFICES ASSUME NEW d \in Connections, c < d
                   PROVE  state'[d] \notin {"served", "closed"}
        BY <2>4, Zenon
      <3>1. state[d] \in {"unused", "waiting"}
        BY <2>1
      <3>2. state'[d] = state[d]
        BY <2>3
      <3>3. QED
        BY <3>1, <3>2
    <2>8. QED
      BY <2>5, <2>6, <2>7, Zenon
  <1>3. CASE Refuse
    BY <1>3 DEF Refuse, FirstWaiting
  <1>4. CASE CloseClient
    BY <1>4 DEF CloseClient
  <1>5. CASE UNCHANGED <<state, client>>
    BY <1>5
  <1>6. QED
    BY <1>1, <1>2, <1>3, <1>4, <1>5
    DEF Next, Clients, NetworkThread, vars, Send, End, OpenPort, Announce, HandleReadable,
        DrainDecoder, ReportClosed, PollLink, HandleFrame, PublishHeartbeat, Advance

LEMMA PendingStep ==
    ASSUME PlainPart, EventPart, PhaseInv, ServedInv, PendingInv, [Next]_vars
    PROVE  PendingInv'
  <1> USE DEF PendingInv, Admitted
  <1>1. CASE Connect
    BY <1>1 DEF Connect, PlainPart
  <1>2. CASE Accept
    BY <1>2 DEF Accept, PlainPart
  <1>3. CASE Refuse
    BY <1>3 DEF Refuse, PlainPart
  <1>4. CASE Announce
    BY <1>4 DEF Announce, EventPart
  <1>5. CASE HandleReadable
    BY <1>5 DEF HandleReadable
  <1>6. CASE DrainDecoder
    <2>1. events'.disconnected = events.disconnected
      BY <1>6 DEF DrainDecoder, EventPart
    <2>2. QED
      BY <1>6, <2>1 DEF DrainDecoder
  <1>7. CASE CloseClient
    <2>1. client \in Connections
      BY <1>7 DEF CloseClient, PhaseInv, PlainPart
    <2>2. state' = [state EXCEPT ![client] = "closed"] /\ pc = "close" /\ pc' = "report"
          /\ UNCHANGED <<events, told>>
      BY <1>7 DEF CloseClient
    <2>3. QED
      BY <2>1, <2>2 DEF ServedInv, PlainPart
  <1>8. CASE ReportClosed
    <2>1. events'.disconnected
      BY <1>8 DEF ReportClosed, EventPart
    <2>2. QED
      BY <1>8, <2>1 DEF ReportClosed
  <1>9. CASE PollLink
    <2>1. UNCHANGED <<state, pc>> /\ told \subseteq told'
      BY <1>9 DEF PollLink, ReportLoss, Publish
    <2>2. events.disconnected => \A c \in Connections : state[c] = "closed" => c \in told'
      BY <1>9 DEF PollLink, ReportLoss, Publish
    <2>3. QED
      BY <2>1, <2>2
  <1>10. CASE PublishHeartbeat
    <2>1. UNCHANGED <<state, pc, events>> /\ told \subseteq told'
      BY <1>10 DEF PublishHeartbeat, Publish
    <2>2. QED
      BY <2>1
  <1>11. CASE UNCHANGED <<state, pc, events, told>>
    BY <1>11
  <1>12. QED
    BY <1>1, <1>2, <1>3, <1>4, <1>5, <1>6, <1>7, <1>8, <1>9, <1>10, <1>11
    DEF Next, Clients, NetworkThread, vars, Send, End, OpenPort, HandleFrame, Advance

-----------------------------------------------------------------------------
(* Whose frames are where.                                                 *)
Of(c) == {f \in Frame : f.from = c}
FromAdmitted == {f \in Frame : Admitted(f.from)}

\* Frames before which every earlier loss has been told.
Cleared ==
    {f \in FromAdmitted :
        \A c \in Connections : c < f.from /\ state[c] = "closed" => c \in told}

OriginInv ==
    /\ \A c \in Connections : unread[c] \in Seq(Of(c))
    /\ decoded \in Seq(Of(client))
    /\ events.frames \in Seq(FromAdmitted)
    /\ batch \in Seq(Cleared)
    /\ \A d \in Connections : handled[d] # {} => Admitted(d)

\* A connection once served stays admitted, and what was told stays told.
LEMMA AdmittedStays ==
    ASSUME PlainPart, PhaseInv, ServedInv, [Next]_vars
    PROVE  \A c \in Connections : Admitted(c) => Admitted(c)'
  <1> USE DEF Admitted, PlainPart
  <1>1. CASE Connect
    BY <1>1 DEF Connect
  <1>2. CASE Accept
    BY <1>2 DEF Accept
  <1>3. CASE Refuse
    BY <1>3 DEF Refuse, FirstWaiting
  <1>4. CASE CloseClient
    BY <1>4 DEF CloseClient
  <1>5. CASE UNCHANGED state
    BY <1>5
  <1>6. QED
    BY <1>1, <1>2, <1>3, <1>4, <1>5
    DEF Next, Clients, NetworkThread, vars, Send, End, OpenPort, Announce, HandleReadable,
        DrainDecoder, ReportClosed, PollLink, HandleFrame, PublishHeartbeat, Advance

LEMMA ToldStays ==
    ASSUME [Next]_vars
    PROVE  told \subseteq told'
  BY DEF Next, Clients, NetworkThread, vars, Connect, Send, End, OpenPort, Accept, Refuse,
         Announce, HandleReadable, DrainDecoder, CloseClient, ReportClosed, PollLink,
         ReportLoss, Publish, HandleFrame, PublishHeartbeat, Advance

\* Only the client served can newly be lost, and none came after it.
LEMMA NewlyClosed ==
    ASSUME PlainPart, PhaseInv, ServedInv, [Next]_vars,
           NEW c \in Connections, state'[c] = "closed"
    PROVE  \/ state[c] = "closed"
           \/ /\ \A d \in Connections : c < d => ~Admitted(d)
              /\ state[c] = "served" /\ UNCHANGED <<handled, batch, events>>
  <1> USE DEF PlainPart
  <1>1. CASE Connect
    BY <1>1 DEF Connect
  <1>2. CASE Accept
    BY <1>2 DEF Accept
  <1>3. CASE Refuse
    BY <1>3 DEF Refuse
  <1>4. CASE CloseClient
    <2>1. client \in Connections /\ state[client] = "served"
      BY <1>4 DEF CloseClient, PhaseInv, ServedInv
    <2>2. state' = [state EXCEPT ![client] = "closed"] /\ UNCHANGED <<handled, batch, events>>
      BY <1>4 DEF CloseClient
    <2>3. QED
      BY <2>1, <2>2 DEF ServedInv
  <1>5. CASE UNCHANGED state
    BY <1>5
  <1>6. QED
    BY <1>1, <1>2, <1>3, <1>4, <1>5
    DEF Next, Clients, NetworkThread, vars, Send, End, OpenPort, Announce, HandleReadable,
        DrainDecoder, ReportClosed, PollLink, HandleFrame, PublishHeartbeat, Advance

LEMMA FramesMonotone ==
    ASSUME PlainPart, PhaseInv, ServedInv, [Next]_vars
    PROVE  FromAdmitted \subseteq FromAdmitted' /\ Cleared \subseteq Cleared'
  <1>1. \A f \in Frame : f.from \in Connections
    BY DEF Frame
  <1>2. FromAdmitted \subseteq FromAdmitted'
    BY <1>1, AdmittedStays DEF FromAdmitted
  <1>3. ASSUME NEW f \in Cleared, NEW c \in Connections, c < f.from, state'[c] = "closed"
        PROVE  c \in told'
    <2>1. f \in Frame /\ Admitted(f.from) /\ f.from \in Connections
      BY <1>1 DEF Cleared, FromAdmitted
    <2>2. state[c] = "closed"
      BY <1>3, <2>1, NewlyClosed
    <2>3. QED
      BY <1>3, <2>2, ToldStays DEF Cleared
  <1>4. QED
    BY <1>2, <1>3 DEF Cleared

\* Frames drained by the executor come after every loss they must come after.
LEMMA DrainedCleared ==
    ASSUME PlainPart, EventPart, PendingInv, OriginInv, PollLink
    PROVE  FromAdmitted \subseteq Cleared'
  <1> SUFFICES ASSUME NEW f \in FromAdmitted, NEW c \in Connections, c < f.from,
                      state[c] = "closed"
               PROVE  c \in told'
    <2>1. state' = state
      BY DEF PollLink
    <2>2. FromAdmitted' = FromAdmitted
      BY <2>1 DEF FromAdmitted, Admitted
    <2>3. QED
      BY <2>1, <2>2 DEF Cleared
  <1>1. f.from \in Connections /\ Admitted(f.from)
    BY DEF FromAdmitted, Frame
  <1>2. c \in told \/ events.disconnected
    BY <1>1 DEF PendingInv
  <1>3. told \subseteq told' /\ (events.disconnected => c \in told')
    BY DEF PollLink, ReportLoss, Publish
  <1>4. QED
    BY <1>2, <1>3

\* A part of a sequence has its elements.
LEMMA PartTyped ==
    ASSUME NEW S, NEW s \in Seq(S), NEW m \in Nat \ {0}, NEW n \in 0..Len(s)
    PROVE  SubSeq(s, m, n) \in Seq(S)
  <1>1. \A i \in m..n : s[i] \in S
    <2>1. Len(s) \in Nat
      BY LenProperties
    <2>2. QED
      BY <2>1, ElementOfSeq
  <1>2. QED
    BY <1>1, SubSeqProperties

\* A client's unread and decoded frames are its own.
LEMMA OwnFrames ==
    ASSUME FramePart, PlainPart, PhaseInv, OriginInv, [Next]_vars
    PROVE  /\ \A c \in Connections : unread'[c] \in Seq(Of(c))
           /\ decoded' \in Seq(Of(client'))
  <1> USE DEF OriginInv
  <1>1. CASE Send
    <2> PICK c \in Connections, kind \in Kinds :
          /\ sent[c] < MaxFrames
          /\ unread' = [unread EXCEPT
                ![c] = Append(@, [from |-> c, number |-> sent[c] + 1, kind |-> kind])]
      BY <1>1 DEF Send
    <2>1. [from |-> c, number |-> sent[c] + 1, kind |-> kind] \in Of(c)
      BY NextFrameTyped DEF Of
    <2>2. Append(unread[c], [from |-> c, number |-> sent[c] + 1, kind |-> kind]) \in Seq(Of(c))
      BY <2>1, AppendProperties
    <2>3. UNCHANGED <<decoded, client>>
      BY <1>1 DEF Send
    <2>4. QED
      BY <2>2, <2>3 DEF FramePart
  <1>2. CASE Accept
    <2> PICK c \in Connections : client' = c /\ \E n \in 0..Len(unread[c]) :
          /\ decoded' = SubSeq(unread[c], 1, n)
          /\ unread' = [unread EXCEPT ![c] = SubSeq(@, n + 1, Len(@))]
      BY <1>2 DEF Accept
    <2> PICK n \in 0..Len(unread[c]) :
          /\ decoded' = SubSeq(unread[c], 1, n)
          /\ unread' = [unread EXCEPT ![c] = SubSeq(@, n + 1, Len(@))]
      OBVIOUS
    <2>1. unread[c] \in Seq(Of(c)) /\ Len(unread[c]) \in Nat
      BY LenProperties
    <2>2. decoded' \in Seq(Of(c))
      BY <2>1, PartTyped
    <2>3. SubSeq(unread[c], n + 1, Len(unread[c])) \in Seq(Of(c))
      BY <2>1, PartTyped
    <2>4. \A d \in Connections : unread'[d] \in Seq(Of(d))
      BY <2>3 DEF FramePart
    <2>5. QED
      BY <2>2, <2>4
  <1>3. CASE Refuse
    <2>1. \A c \in Connections : unread'[c] \in {<<>>, unread[c]}
      BY <1>3 DEF Refuse, FramePart
    <2>2. QED
      BY <1>3, <2>1, EmptySeq DEF Refuse
  <1>4. CASE HandleReadable
    <2>1. client \in Connections /\ client' = client
      BY <1>4 DEF HandleReadable, PlainPart
    <2>2. decoded' \in {decoded, decoded \o unread[client]}
      BY <1>4 DEF HandleReadable
    <2>3. decoded \o unread[client] \in Seq(Of(client))
      BY <2>1, ConcatProperties
    <2>4. \A c \in Connections : unread'[c] \in {<<>>, unread[c]}
      BY <1>4 DEF HandleReadable, FramePart
    <2>5. QED
      BY <2>1, <2>2, <2>3, <2>4, EmptySeq
  <1>5. CASE DrainDecoder
    <2>1. decoded # <<>> /\ UNCHANGED <<unread, client>>
      BY <1>5 DEF DrainDecoder, PhaseInv
    <2>2. Tail(decoded) \in Seq(Of(client))
      BY <2>1, HeadTailProperties
    <2>3. decoded' \in {decoded, Tail(decoded)}
      BY <1>5 DEF DrainDecoder
    <2>4. QED
      BY <2>1, <2>2, <2>3
  <1>6. CASE CloseClient
    <2>1. \A c \in Connections : unread'[c] \in {<<>>, unread[c]}
      BY <1>6 DEF CloseClient, FramePart
    <2>2. decoded' = <<>>
      BY <1>6 DEF CloseClient
    <2>3. QED
      BY <2>1, <2>2, EmptySeq
  <1>7. CASE UNCHANGED <<unread, decoded, client>>
    BY <1>7
  <1>8. QED
    BY <1>1, <1>2, <1>3, <1>4, <1>5, <1>6, <1>7
    DEF Next, Clients, NetworkThread, vars, Connect, End, OpenPort, Announce, ReportClosed,
        PollLink, HandleFrame, PublishHeartbeat, Advance

\* What waits for the executor came from clients that were admitted.
LEMMA ObservedFrames ==
    ASSUME FramePart, EventPart, PlainPart, PhaseInv, ServedInv, OriginInv, [Next]_vars
    PROVE  events'.frames \in Seq(FromAdmitted')
  <1>1. events.frames \in Seq(FromAdmitted')
    BY FramesMonotone, SeqMonotonic DEF OriginInv
  <1>2. CASE DrainDecoder
    <2>1. decoded # <<>> /\ client \in Connections
      BY <1>2 DEF DrainDecoder, PhaseInv, PlainPart
    <2>2. Head(decoded) \in Of(client)
      BY <2>1, HeadTailProperties DEF OriginInv
    <2>3. Head(decoded) \in FromAdmitted
      BY <2>1, <2>2 DEF Of, FromAdmitted, ServedInv, Admitted
    <2>4. Head(decoded) \in FromAdmitted'
      BY <2>3, FramesMonotone
    <2>5. Append(events.frames, Head(decoded)) \in Seq(FromAdmitted')
      BY <1>1, <2>4, AppendProperties
    <2>6. events'.frames \in {events.frames, Append(events.frames, Head(decoded))}
      BY <1>2 DEF DrainDecoder, EventPart
    <2>7. QED
      BY <1>1, <2>5, <2>6
  <1>3. CASE PollLink
    <2>1. events'.frames = <<>>
      BY <1>3 DEF PollLink, Drain, NoEvents
    <2>2. QED
      BY <2>1, EmptySeq
  <1>4. CASE events'.frames = events.frames
    BY <1>1, <1>4
  <1>5. Announce => events'.frames = events.frames
    BY DEF Announce, EventPart
  <1>6. ReportClosed => events'.frames = events.frames
    BY DEF ReportClosed, EventPart
  <1>7. QED
    BY <1>2, <1>3, <1>4, <1>5, <1>6
    DEF Next, Clients, NetworkThread, vars, Connect, Send, End, OpenPort, Accept, Refuse,
        HandleReadable, CloseClient, HandleFrame, PublishHeartbeat, Advance

\* Once drained, frames have every earlier loss behind them.
LEMMA DrainedFrames ==
    ASSUME FramePart, EventPart, PlainPart, PhaseInv, ServedInv, PendingInv, OriginInv,
           [Next]_vars
    PROVE  /\ batch' \in Seq(Cleared')
           /\ \A d \in Connections : handled'[d] # {} => Admitted(d)'
  <1>1. batch \in Seq(Cleared')
    BY FramesMonotone, SeqMonotonic DEF OriginInv
  <1>2. \A d \in Connections : handled[d] # {} => Admitted(d)'
    BY AdmittedStays DEF OriginInv
  <1>3. CASE PollLink
    <2>1. batch' = events.frames /\ handled' = handled
      BY <1>3 DEF PollLink, Drain
    <2>2. batch' \in Seq(Cleared')
      BY <1>3, <2>1, DrainedCleared, SeqMonotonic DEF OriginInv
    <2>3. QED
      BY <1>2, <2>1, <2>2
  <1>4. CASE HandleFrame
    <2>1. batch # <<>> /\ batch' = Tail(batch)
          /\ handled' = [handled EXCEPT ![Head(batch).from] = @ \cup {Head(batch).number}]
      BY <1>4 DEF HandleFrame
    <2>2. Tail(batch) \in Seq(Cleared') /\ Head(batch) \in Cleared'
      BY <1>1, <2>1, HeadTailProperties
    <2>3. state'[Head(batch).from] \in {"served", "closed"}
      BY <2>2 DEF Cleared, FromAdmitted, Admitted
    <2>4. \A d \in Connections : handled'[d] # {} => Admitted(d)'
      <3>1. ASSUME NEW d \in Connections, handled'[d] # {}, d = Head(batch).from
            PROVE  Admitted(d)'
        BY <2>3, <3>1 DEF Admitted
      <3>2. ASSUME NEW d \in Connections, handled'[d] # {}, d # Head(batch).from
            PROVE  Admitted(d)'
        BY <1>2, <2>1, <3>2 DEF PlainPart
      <3>3. QED
        BY <3>1, <3>2
    <2>5. QED
      BY <2>1, <2>2, <2>4
  <1>5. CASE UNCHANGED <<batch, handled>>
    BY <1>1, <1>2, <1>5
  <1>6. QED
    BY <1>3, <1>4, <1>5
    DEF Next, Clients, NetworkThread, vars, Connect, Send, End, OpenPort, Accept, Refuse,
        Announce, HandleReadable, DrainDecoder, CloseClient, ReportClosed,
        PublishHeartbeat, Advance

LEMMA LossStep ==
    ASSUME PlainPart, PhaseInv, ServedInv, OriginInv, LossAnnounced, [Next]_vars
    PROVE  LossAnnounced'
  <1> SUFFICES ASSUME NEW c \in Connections, NEW d \in Connections,
                      handled'[d] # {}, c < d, state'[c] = "closed"
               PROVE  c \in told'
    BY DEF LossAnnounced
  <1>1. CASE handled[d] # {}
    <2>1. state[c] = "closed"
      BY <1>1, NewlyClosed DEF OriginInv
    <2>2. QED
      BY <1>1, <2>1, ToldStays DEF LossAnnounced
  <1>2. CASE ~(handled[d] # {})
    <2>1. HandleFrame
      BY <1>2
      DEF Next, Clients, NetworkThread, vars, Connect, Send, End, OpenPort, Accept, Refuse,
          Announce, HandleReadable, DrainDecoder, CloseClient, ReportClosed, PollLink,
          PublishHeartbeat, Advance
    <2>2. batch # <<>> /\ Head(batch) \in Cleared
      BY <2>1, HeadTailProperties DEF HandleFrame, OriginInv
    <2>3. Head(batch).from = d
      BY <1>2, <2>1 DEF HandleFrame, PlainPart
    <2>4. state[c] = "closed" /\ told' = told
      BY <2>1 DEF HandleFrame
    <2>5. QED
      BY <2>2, <2>3, <2>4 DEF Cleared
  <1>3. QED
    BY <1>1, <1>2

LinkInv == QueueInv /\ ServedInv /\ PendingInv /\ OriginInv /\ LossAnnounced

LEMMA LinkStep == TypeInv /\ LinkInv /\ [Next]_vars => LinkInv'
  <1> SUFFICES ASSUME TypeInv, LinkInv, [Next]_vars PROVE LinkInv'
    OBVIOUS
  <1>1. FramePart /\ EventPart /\ PlainPart /\ PhaseInv
    BY TypeParts DEF TypeInv
  <1>2. QueueInv /\ ServedInv /\ PendingInv /\ OriginInv /\ LossAnnounced
    BY DEF LinkInv
  <1>3. QueueInv' /\ ServedInv' /\ PendingInv' /\ LossAnnounced'
    BY <1>1, <1>2, QueueStep, ServedStep, PendingStep, LossStep
  <1>4. OriginInv'
    <2>1. /\ \A c \in Connections : unread'[c] \in Seq(Of(c))
          /\ decoded' \in Seq(Of(client'))
      BY <1>1, <1>2, OwnFrames
    <2>2. events'.frames \in Seq(FromAdmitted')
      BY <1>1, <1>2, ObservedFrames
    <2>3. /\ batch' \in Seq(Cleared')
          /\ \A d \in Connections : handled'[d] # {} => Admitted(d)'
      BY <1>1, <1>2, DrainedFrames
    <2>4. QED
      BY <2>1, <2>2, <2>3 DEF OriginInv, Of
  <1>5. QED
    BY <1>3, <1>4 DEF LinkInv

LEMMA InitLink == Init => LinkInv
  <1> SUFFICES ASSUME Init PROVE LinkInv
    OBVIOUS
  <1>1. \A c \in Connections : state[c] = "unused" /\ unread[c] = <<>> /\ handled[c] = {}
    BY DEF Init
  <1>2. client = 0 /\ decoded = <<>> /\ batch = <<>> /\ events.frames = <<>>
    BY DEF Init, NoEvents
  <1>3. QueueInv /\ ServedInv /\ PendingInv /\ LossAnnounced
    BY <1>1, <1>2 DEF QueueInv, ServedInv, PendingInv, LossAnnounced
  <1>4. OriginInv
    <2>1. \A S : <<>> \in Seq(S)
      BY EmptySeq
    <2>2. \A d \in Connections : ~(handled[d] # {})
      BY <1>1
    <2>3. QED
      BY <1>1, <1>2, <2>1, <2>2, Zenon DEF OriginInv
  <1>5. QED
    BY <1>3, <1>4 DEF LinkInv

\* Before anything a client says counts, safety_manager has been told that every
\* client served before it was lost, wherever loss, reconnect and polls fall.
THEOREM LossesAnnounced == Spec => []LossAnnounced
  <1>1. Init => TypeInv /\ LinkInv
    BY InitTyped, InitLink
  <1>2. (TypeInv /\ LinkInv) /\ [Next]_vars => (TypeInv /\ LinkInv)'
    BY TypeStep, LinkStep
  <1>3. TypeInv /\ LinkInv => LossAnnounced
    BY DEF LinkInv
  <1>4. QED
    BY <1>1, <1>2, <1>3, PTL DEF Spec

-----------------------------------------------------------------------------
(* How long "alive" can outlive the heartbeats.  A heartbeat waits in the  *)
(* queue no longer than the poll timer has run, counts from when it was    *)
(* handled, and what is published stands no longer than the publish timer  *)
(* has run.                                                                *)
HasHeartbeat(frames) == \E i \in DOMAIN frames : frames[i].kind = "HB"

AliveInv ==
    /\ HasHeartbeat(events.frames) => quiet <= pollAge
    /\ HasHeartbeat(batch) => quiet <= PollPeriod
    /\ received /\ heartbeatAge <= HeartbeatTimeout => quiet <= heartbeatAge + PollPeriod
    /\ topic => quiet <= HeartbeatTimeout + PollPeriod + publishAge

LEMMA AliveStep ==
    ASSUME TypeInv, AliveInv, [Next]_vars
    PROVE  AliveInv'
  <1>0. FramePart /\ EventPart /\ AgePart /\ PhaseInv /\ ReceivedPart
    BY TypeParts DEF TypeInv
  <1> USE DEF AliveInv
  <1>1. CASE DrainDecoder
    <2>1. CASE Head(decoded).kind = "HB"
      <3>1. quiet' = 0 /\ UNCHANGED <<pollAge, publishAge, batch, topic, received, heartbeatAge>>
        BY <1>1, <2>1 DEF DrainDecoder
      <3>2. QED
        BY <1>0, <3>1 DEF AgePart
    <2>2. CASE Head(decoded).kind # "HB"
      <3>1. Head(decoded) \in Frame /\ events.frames \in Seq(Frame)
        BY <1>0, <1>1, HeadTailProperties DEF DrainDecoder, PhaseInv, FramePart, EventPart
      <3>2. events'.frames \in {events.frames, Append(events.frames, Head(decoded))}
        BY <1>0, <1>1 DEF DrainDecoder, EventPart
      <3>3. HasHeartbeat(events'.frames) => HasHeartbeat(events.frames)
        BY <2>2, <3>1, <3>2, AppendProperties DEF HasHeartbeat
      <3>4. UNCHANGED <<quiet, pollAge, publishAge, batch, topic, received, heartbeatAge>>
        BY <1>1, <2>2 DEF DrainDecoder
      <3>5. QED
        BY <3>3, <3>4
    <2>3. QED
      BY <2>1, <2>2
  <1>2. CASE PollLink
    <2>1. events'.frames = <<>> /\ batch' = events.frames
          /\ UNCHANGED <<quiet, publishAge, heartbeatAge>>
      BY <1>2 DEF PollLink, Drain, NoEvents
    <2>2. ~HasHeartbeat(events'.frames)
      BY <2>1 DEF HasHeartbeat
    <2>3. HasHeartbeat(batch') => quiet' <= PollPeriod
      BY <1>0, <2>1 DEF AgePart
    <2>4. received' => received
      BY <1>2 DEF PollLink
    <2>5. topic' => topic
      BY <1>2 DEF PollLink, ReportLoss, Publish
    <2>6. QED
      BY <2>1, <2>2, <2>3, <2>4, <2>5
  <1>3. CASE HandleFrame
    <2>1. batch # <<>> /\ batch' = Tail(batch)
          /\ UNCHANGED <<quiet, pollAge, publishAge, events, topic>>
      BY <1>3 DEF HandleFrame
    <2>2. HasHeartbeat(batch') => HasHeartbeat(batch)
      BY <1>0, <2>1, HeadTailProperties DEF HasHeartbeat, FramePart
    <2>3. CASE Head(batch).kind = "HB"
      <3>1. HasHeartbeat(batch)
        BY <1>0, <2>1, <2>3 DEF HasHeartbeat, FramePart
      <3>2. heartbeatAge' = 0
        BY <1>3, <2>3 DEF HandleFrame, NoteHeartbeat, Requests
      <3>3. QED
        BY <1>0, <2>1, <2>2, <3>1, <3>2 DEF AgePart
    <2>4. CASE Head(batch).kind # "HB"
      <3>1. UNCHANGED <<received, heartbeatAge>>
        BY <1>3, <2>4 DEF HandleFrame, ForwardCommand
      <3>2. QED
        BY <2>1, <2>2, <3>1
    <2>5. QED
      BY <2>3, <2>4
  <1>4. CASE PublishHeartbeat
    <2>1. UNCHANGED <<quiet, pollAge, events, batch, received, heartbeatAge>>
      BY <1>4 DEF PublishHeartbeat
    <2>2. publishAge' = 0 /\ topic' = Alive
      BY <1>4 DEF PublishHeartbeat, Publish
    <2>3. topic' => received /\ heartbeatAge <= HeartbeatTimeout
      BY <2>2 DEF Alive
    <2>4. QED
      BY <1>0, <2>1, <2>2, <2>3 DEF AgePart
  <1>5. CASE Advance
    <2>1. batch = <<>> /\ UNCHANGED <<batch, events, received, topic>>
      BY <1>5 DEF Advance
    <2>2. pollAge' = pollAge + 1 /\ publishAge' = publishAge + 1
          /\ quiet' \in {quiet, quiet + 1}
          /\ heartbeatAge' = IF heartbeatAge <= HeartbeatTimeout
                             THEN heartbeatAge + 1 ELSE heartbeatAge
      BY <1>5 DEF Advance, Older
    <2>3. ~HasHeartbeat(batch)
      BY <2>1 DEF HasHeartbeat
    <2>4. quiet \in Int /\ pollAge \in Int /\ publishAge \in Int /\ heartbeatAge \in Int
      BY <1>0 DEF AgePart, AliveLimit
    <2>5. HasHeartbeat(events'.frames) => quiet' <= pollAge'
      BY <2>1, <2>2, <2>4
    <2>6. received' /\ heartbeatAge' <= HeartbeatTimeout => quiet' <= heartbeatAge' + PollPeriod
      BY <2>1, <2>2, <2>4
    <2>7. topic' => quiet' <= HeartbeatTimeout + PollPeriod + publishAge'
      BY <2>1, <2>2, <2>4
    <2>8. ~HasHeartbeat(batch')
      BY <2>1, <2>3
    <2>9. QED
      BY <2>5, <2>6, <2>7, <2>8
  <1>6. CASE UNCHANGED <<events, batch, received, heartbeatAge, topic, quiet, pollAge, publishAge>>
    BY <1>6
  <1>7. CASE Announce
    <2>1. events'.frames = events.frames
          /\ UNCHANGED <<batch, received, heartbeatAge, topic, quiet, pollAge, publishAge>>
      BY <1>0, <1>7 DEF Announce, EventPart
    <2>2. QED
      BY <2>1
  <1>8. CASE ReportClosed
    <2>1. events'.frames = events.frames
          /\ UNCHANGED <<batch, received, heartbeatAge, topic, quiet, pollAge, publishAge>>
      BY <1>0, <1>8 DEF ReportClosed, EventPart
    <2>2. QED
      BY <2>1
  <1>9. QED
    BY <1>1, <1>2, <1>3, <1>4, <1>5, <1>6, <1>7, <1>8
    DEF Next, Clients, NetworkThread, vars, Connect, Send, End, OpenPort, Accept, Refuse,
        HandleReadable, CloseClient

\* A heartbeat that says alive rests on one the thread read no longer ago than
\* the timeout and the periods of the two timers together.
THEOREM AliveIsBounded == Spec => []AliveBounded
  <1>1. Init => AliveInv
    BY DEF Init, NoEvents, AliveInv, HasHeartbeat
  <1>2. (TypeInv /\ AliveInv) /\ [Next]_vars => (TypeInv /\ AliveInv)'
    BY TypeStep, AliveStep
  <1>3. TypeInv /\ AliveInv => AliveBounded
    <2> SUFFICES ASSUME TypeInv, AliveInv, topic PROVE quiet <= AliveLimit
      BY DEF AliveBounded
    <2>1. AgePart
      BY TypeParts DEF TypeInv
    <2>2. QED
      BY <2>1 DEF AliveInv, AgePart, AliveLimit
  <1>4. QED
    BY InitTyped, <1>1, <1>2, <1>3, PTL DEF Spec

-----------------------------------------------------------------------------
(* The order of frames along the way from a client to safety_manager.      *)
Sorted(s) == \A i, j \in DOMAIN s : i < j => Before(s[i], s[j])
Precedes(s, t) == \A i \in DOMAIN s, j \in DOMAIN t : Before(s[i], t[j])

\* Taking the first element away disturbs no order.
LEMMA DropHead ==
    ASSUME NEW t \in Seq(Frame), t # <<>>, NEW r \in Seq(Frame)
    PROVE  /\ Sorted(t) => Sorted(Tail(t))
           /\ Precedes(r, t) => Precedes(r, Tail(t))
           /\ Precedes(t, r) => Precedes(Tail(t), r)
  <1>1. /\ DOMAIN t = 1..Len(t) /\ Len(t) \in Nat
        /\ Tail(t) \in Seq(Frame) /\ Len(Tail(t)) = Len(t) - 1
        /\ \A i \in 1..Len(Tail(t)) : Tail(t)[i] = t[i + 1]
    BY HeadTailProperties, LenProperties
  <1>2. DOMAIN Tail(t) = 1..(Len(t) - 1)
    BY <1>1, LenProperties
  <1>3. \A i \in DOMAIN Tail(t) : i + 1 \in DOMAIN t /\ Tail(t)[i] = t[i + 1]
    BY <1>1, <1>2
  <1>4. Sorted(t) => Sorted(Tail(t))
    BY <1>1, <1>2, <1>3 DEF Sorted
  <1>5. Precedes(r, t) => Precedes(r, Tail(t))
    BY <1>3 DEF Precedes
  <1>6. Precedes(t, r) => Precedes(Tail(t), r)
    BY <1>3 DEF Precedes
  <1>7. QED
    BY <1>4, <1>5, <1>6

\* An element that follows all of a sequence may be appended to it.
LEMMA AppendLast ==
    ASSUME NEW s \in Seq(Frame), NEW e \in Frame, NEW r \in Seq(Frame)
    PROVE  /\ Sorted(s) /\ (\A i \in DOMAIN s : Before(s[i], e)) => Sorted(Append(s, e))
           /\ Precedes(r, s) /\ (\A i \in DOMAIN r : Before(r[i], e)) => Precedes(r, Append(s, e))
           /\ Precedes(s, r) /\ (\A i \in DOMAIN r : Before(e, r[i])) => Precedes(Append(s, e), r)
  <1>1. /\ DOMAIN s = 1..Len(s) /\ Len(s) \in Nat
        /\ DOMAIN Append(s, e) = 1..(Len(s) + 1)
        /\ \A i \in 1..Len(s) : Append(s, e)[i] = s[i]
        /\ Append(s, e)[Len(s) + 1] = e
    BY AppendProperties, LenProperties
  <1>2. \A i \in DOMAIN Append(s, e) :
           \/ i \in DOMAIN s /\ Append(s, e)[i] = s[i]
           \/ i = Len(s) + 1 /\ Append(s, e)[i] = e
    BY <1>1
  <1>3. Sorted(s) /\ (\A i \in DOMAIN s : Before(s[i], e)) => Sorted(Append(s, e))
    <2> SUFFICES ASSUME Sorted(s), \A i \in DOMAIN s : Before(s[i], e),
                        NEW i \in DOMAIN Append(s, e), NEW j \in DOMAIN Append(s, e), i < j
                 PROVE  Before(Append(s, e)[i], Append(s, e)[j])
      BY DEF Sorted
    <2>1. i \in DOMAIN s /\ Append(s, e)[i] = s[i]
      BY <1>1, <1>2
    <2>2. QED
      BY <1>2, <2>1 DEF Sorted
  <1>4. Precedes(r, s) /\ (\A i \in DOMAIN r : Before(r[i], e)) => Precedes(r, Append(s, e))
    BY <1>2 DEF Precedes
  <1>5. Precedes(s, r) /\ (\A i \in DOMAIN r : Before(e, r[i])) => Precedes(Append(s, e), r)
    BY <1>2 DEF Precedes
  <1>6. QED
    BY <1>3, <1>4, <1>5

\* The first of t may move to the end of s when s comes before t.
LEMMA MoveHead ==
    ASSUME NEW s \in Seq(Frame), NEW t \in Seq(Frame), t # <<>>,
           Sorted(s), Sorted(t), Precedes(s, t)
    PROVE  /\ Sorted(Append(s, Head(t))) /\ Sorted(Tail(t))
           /\ Precedes(Append(s, Head(t)), Tail(t))
           /\ \A r \in Seq(Frame) : Precedes(r, s) /\ Precedes(r, t) =>
                  Precedes(r, Append(s, Head(t))) /\ Precedes(r, Tail(t))
           /\ \A r \in Seq(Frame) : Precedes(s, r) /\ Precedes(t, r) =>
                  Precedes(Append(s, Head(t)), r) /\ Precedes(Tail(t), r)
  <1>1. /\ Head(t) \in Frame /\ Tail(t) \in Seq(Frame)
        /\ Head(t) = t[1] /\ 1 \in DOMAIN t
        /\ \A i \in DOMAIN Tail(t) : 1 < i + 1 /\ i + 1 \in DOMAIN t /\ Tail(t)[i] = t[i + 1]
    <2>1. Head(t) \in Frame /\ Tail(t) \in Seq(Frame) /\ Len(Tail(t)) = Len(t) - 1
          /\ Len(t) \in Nat /\ DOMAIN t = 1..Len(t) /\ Head(t) = t[1]
          /\ \A i \in 1..Len(Tail(t)) : Tail(t)[i] = t[i + 1]
      BY HeadTailProperties, LenProperties
    <2>2. DOMAIN Tail(t) = 1..Len(Tail(t)) /\ Len(Tail(t)) \in Nat
      BY <2>1, LenProperties
    <2>3. QED
      BY <2>1, <2>2
  <1>2. \A i \in DOMAIN s : Before(s[i], Head(t))
    BY <1>1 DEF Precedes
  <1>3. \A i \in DOMAIN Tail(t) : Before(Head(t), Tail(t)[i])
    BY <1>1 DEF Sorted
  <1>4. Sorted(Append(s, Head(t))) /\ Sorted(Tail(t))
    BY <1>1, <1>2, AppendLast, DropHead
  <1>5. Precedes(Append(s, Head(t)), Tail(t))
    BY <1>1, <1>3, AppendLast, DropHead
  <1>6. ASSUME NEW r \in Seq(Frame), Precedes(r, s), Precedes(r, t)
        PROVE  Precedes(r, Append(s, Head(t))) /\ Precedes(r, Tail(t))
    <2>1. \A i \in DOMAIN r : Before(r[i], Head(t))
      BY <1>1, <1>6 DEF Precedes
    <2>2. QED
      BY <1>1, <1>6, <2>1, AppendLast, DropHead
  <1>7. ASSUME NEW r \in Seq(Frame), Precedes(s, r), Precedes(t, r)
        PROVE  Precedes(Append(s, Head(t)), r) /\ Precedes(Tail(t), r)
    <2>1. \A i \in DOMAIN r : Before(Head(t), r[i])
      BY <1>1, <1>7 DEF Precedes
    <2>2. QED
      BY <1>1, <1>7, <2>1, AppendLast, DropHead
  <1>8. QED
    BY <1>4, <1>5, <1>6, <1>7

LEMMA RestLength ==
    \A m, n \in Nat :
        n <= m => (IF n + 1 <= m THEN m - (n + 1) + 1 ELSE 0) = m - n
  OBVIOUS

\* A sorted sequence cut in two.
LEMMA CutSorted ==
    ASSUME NEW s \in Seq(Frame), NEW n \in 0..Len(s), Sorted(s)
    PROVE  /\ Sorted(SubSeq(s, 1, n)) /\ Sorted(SubSeq(s, n + 1, Len(s)))
           /\ Precedes(SubSeq(s, 1, n), SubSeq(s, n + 1, Len(s)))
           /\ \A r \in Seq(Frame) : Precedes(r, s) =>
                  Precedes(r, SubSeq(s, 1, n)) /\ Precedes(r, SubSeq(s, n + 1, Len(s)))
  <1>1. Len(s) \in Nat /\ DOMAIN s = 1..Len(s) /\ n \in Nat /\ n <= Len(s)
    BY LenProperties
  <1>2. /\ DOMAIN SubSeq(s, 1, n) = 1..n
        /\ \A i \in 1..n : i \in DOMAIN s /\ SubSeq(s, 1, n)[i] = s[i]
    <2>1. \A i \in 1..n : s[i] \in Frame
      BY <1>1, ElementOfSeq
    <2>2. SubSeq(s, 1, n) \in Seq(Frame) /\ Len(SubSeq(s, 1, n)) = n
          /\ \A i \in 1..n : SubSeq(s, 1, n)[i] = s[i]
      BY <1>1, <2>1, SubSeqProperties
    <2>3. QED
      BY <1>1, <2>2, LenProperties
  <1>3. /\ DOMAIN SubSeq(s, n + 1, Len(s)) = 1..(Len(s) - n)
        /\ \A i \in 1..(Len(s) - n) : n + i \in DOMAIN s
                                      /\ SubSeq(s, n + 1, Len(s))[i] = s[n + i]
    <2>1. \A i \in (n + 1)..Len(s) : s[i] \in Frame
      BY <1>1, ElementOfSeq
    <2>2. /\ SubSeq(s, n + 1, Len(s)) \in Seq(Frame)
          /\ Len(SubSeq(s, n + 1, Len(s))) = Len(s) - n
          /\ \A i \in 1..(Len(s) - n) : SubSeq(s, n + 1, Len(s))[i] = s[n + i]
      <3>1. n + 1 \in Int /\ Len(s) \in Int
        BY <1>1
      <3>2. /\ SubSeq(s, n + 1, Len(s)) \in Seq(Frame)
            /\ Len(SubSeq(s, n + 1, Len(s))) =
                   IF n + 1 <= Len(s) THEN Len(s) - (n + 1) + 1 ELSE 0
            /\ \A i \in 1..(Len(s) - (n + 1) + 1) :
                   SubSeq(s, n + 1, Len(s))[i] = s[(n + 1) + i - 1]
        BY <2>1, <3>1, SubSeqProperties
      <3>3. Len(s) - (n + 1) + 1 = Len(s) - n
        BY <1>1
      <3>4. Len(SubSeq(s, n + 1, Len(s))) = Len(s) - n
        BY <1>1, <3>2, RestLength
      <3>5. \A i \in 1..(Len(s) - n) : (n + 1) + i - 1 = n + i
        BY <1>1
      <3>6. QED
        BY <3>2, <3>3, <3>4, <3>5
    <2>3. DOMAIN SubSeq(s, n + 1, Len(s)) = 1..(Len(s) - n)
      BY <2>2, LenProperties
    <2>4. \A i \in 1..(Len(s) - n) : n + i \in DOMAIN s
      BY <1>1
    <2>5. QED
      BY <2>2, <2>3, <2>4
  <1>4. Sorted(SubSeq(s, 1, n))
    BY <1>1, <1>2 DEF Sorted
  <1>5. Sorted(SubSeq(s, n + 1, Len(s)))
    BY <1>1, <1>3 DEF Sorted
  <1>6. Precedes(SubSeq(s, 1, n), SubSeq(s, n + 1, Len(s)))
    BY <1>1, <1>2, <1>3 DEF Sorted, Precedes
  <1>7. ASSUME NEW r \in Seq(Frame), Precedes(r, s)
        PROVE  Precedes(r, SubSeq(s, 1, n)) /\ Precedes(r, SubSeq(s, n + 1, Len(s)))
    BY <1>1, <1>2, <1>3, <1>7 DEF Precedes
  <1>8. QED
    BY <1>4, <1>5, <1>6, <1>7

-----------------------------------------------------------------------------
(* The whole way: requests handed over, then what the executor drained,    *)
(* what it has still to drain, what is decoded, what is unread.            *)
Sent == {f \in Frame : f.number <= sent[f.from]}

EmptyInv == \A c \in Connections : state[c] \notin {"waiting", "served"} => unread[c] = <<>>

SortedInv ==
    /\ Sorted(commands) /\ Sorted(batch) /\ Sorted(events.frames) /\ Sorted(decoded)
    /\ \A c \in Connections : Sorted(unread[c])

WayInv ==
    /\ Precedes(commands, batch) /\ Precedes(commands, events.frames)
    /\ Precedes(commands, decoded)
    /\ Precedes(batch, events.frames) /\ Precedes(batch, decoded)
    /\ Precedes(events.frames, decoded)

UnreadInv ==
    \A c \in Connections :
        /\ Precedes(commands, unread[c]) /\ Precedes(batch, unread[c])
        /\ Precedes(events.frames, unread[c]) /\ Precedes(decoded, unread[c])

SourceInv == FramesIn(Sent) /\ commands \in Seq(FromAdmitted)

OrderInv == SourceInv /\ EmptyInv /\ SortedInv /\ WayInv /\ UnreadInv

\* Frames on the way were sent, and requests handed over came from clients served.
LEMMA SourceStep ==
    ASSUME TypeInv, LinkInv, SourceInv, [Next]_vars
    PROVE  SourceInv'
  <1>0. /\ FramePart /\ EventPart /\ PlainPart /\ PhaseInv
        /\ ServedInv /\ OriginInv
    BY TypeParts DEF TypeInv, LinkInv
  <1>1. \A c \in Connections : sent[c] <= sent'[c]
    <2>1. CASE Send
      BY <1>0, <2>1 DEF Send, PlainPart
    <2>2. CASE UNCHANGED sent
      BY <1>0, <2>2 DEF PlainPart
    <2>3. QED
      BY <2>1, <2>2
      DEF Next, Clients, NetworkThread, vars, Connect, End, OpenPort, Accept, Refuse, Announce,
          HandleReadable, DrainDecoder, CloseClient, ReportClosed, PollLink, HandleFrame,
          PublishHeartbeat, Advance
  <1>2. Sent \subseteq Sent'
    <2> SUFFICES ASSUME NEW f \in Frame, f.number <= sent[f.from]
                 PROVE  f.number <= sent'[f.from]
      BY DEF Sent
    <2>1. f.from \in Connections /\ f.number \in Int
      BY DEF Frame
    <2>2. sent[f.from] \in Int /\ sent'[f.from] \in Int
      <3>1. sent' \in [Connections -> 0..MaxFrames]
        BY <1>0, PlainTyped DEF PlainPart
      <3>2. QED
        BY <1>0, <2>1, <3>1 DEF PlainPart
    <2>3. QED
      BY <1>1, <2>1, <2>2
  <1>3. \A s : s \in Seq(Sent) => s \in Seq(Sent')
    BY <1>2, SeqMonotonic
  <1>4. /\ unread \in [Connections -> Seq(Sent')]
        /\ decoded \in Seq(Sent') /\ batch \in Seq(Sent') /\ commands \in Seq(Sent')
        /\ events.frames \in Seq(Sent')
    BY <1>3 DEF SourceInv, FramesIn
  <1>5. \A c \in Connections, kind \in Kinds :
           sent[c] < MaxFrames /\ sent'[c] = sent[c] + 1 =>
               [from |-> c, number |-> sent[c] + 1, kind |-> kind] \in Sent'
    <2> SUFFICES ASSUME NEW c \in Connections, NEW kind \in Kinds,
                        sent[c] < MaxFrames, sent'[c] = sent[c] + 1
                 PROVE  [from |-> c, number |-> sent[c] + 1, kind |-> kind] \in Sent'
      OBVIOUS
    <2>1. [from |-> c, number |-> sent[c] + 1, kind |-> kind] \in Frame
      BY <1>0, NextFrameTyped
    <2>2. sent[c] + 1 <= sent'[c]
      BY <1>0 DEF PlainPart
    <2>3. QED
      BY <2>1, <2>2 DEF Sent
  <1>6. FramesIn(Sent)'
    BY <1>0, <1>4, <1>5, FramesStay DEF FramesIn
  <1>7. commands' \in Seq(FromAdmitted')
    <2>1. commands \in Seq(FromAdmitted')
      BY <1>0, FramesMonotone, SeqMonotonic DEF SourceInv
    <2>2. CASE HandleFrame
      <3>1. /\ batch # <<>> /\ batch \in Seq(Cleared)
            /\ commands' \in {commands, Append(commands, Head(batch))}
        BY <1>0, <2>2 DEF HandleFrame, ForwardCommand, NoteHeartbeat, OriginInv
      <3>2. Head(batch) \in Cleared
        BY <3>1, HeadTailProperties
      <3>3. Head(batch) \in FromAdmitted'
        BY <1>0, <3>2, FramesMonotone DEF Cleared
      <3>4. QED
        BY <2>1, <3>1, <3>3, AppendProperties
    <2>3. CASE UNCHANGED commands
      BY <2>1, <2>3
    <2>4. QED
      BY <2>2, <2>3
      DEF Next, Clients, NetworkThread, vars, Connect, Send, End, OpenPort, Accept, Refuse,
          Announce, HandleReadable, DrainDecoder, CloseClient, ReportClosed, PollLink,
          PublishHeartbeat, Advance
  <1>8. QED
    BY <1>6, <1>7 DEF SourceInv

\* Nothing is unread of a connection that is not open.
LEMMA EmptyStep ==
    ASSUME FramePart, PlainPart, EmptyInv, [Next]_vars
    PROVE  EmptyInv'
  <1> USE DEF EmptyInv, FramePart, PlainPart
  <1>1. CASE Connect
    BY <1>1 DEF Connect
  <1>2. CASE Send
    BY <1>2 DEF Send, Reachable
  <1>3. CASE Accept
    BY <1>3 DEF Accept
  <1>4. CASE Refuse
    BY <1>4 DEF Refuse
  <1>5. CASE HandleReadable
    BY <1>5 DEF HandleReadable
  <1>6. CASE CloseClient
    BY <1>6 DEF CloseClient
  <1>7. CASE UNCHANGED <<state, unread>>
    BY <1>7
  <1>8. QED
    BY <1>1, <1>2, <1>3, <1>4, <1>5, <1>6, <1>7
    DEF Next, Clients, NetworkThread, vars, End, OpenPort, Announce, DrainDecoder,
        ReportClosed, PollLink, HandleFrame, PublishHeartbeat, Advance

LEMMA EmptyOrder ==
    ASSUME NEW s
    PROVE  Sorted(<<>>) /\ Precedes(<<>>, s) /\ Precedes(s, <<>>)
  BY DEF Sorted, Precedes

\* Frames of different connections are ordered like the connections.
LEMMA FromOrder ==
    ASSUME NEW c \in Connections, NEW d \in Connections, c < d,
           NEW s \in Seq(Of(c)), NEW t \in Seq(Of(d))
    PROVE  Precedes(s, t)
  <1>1. \A i \in DOMAIN s : s[i].from = c
    BY LenProperties, ElementOfSeq DEF Of
  <1>2. \A i \in DOMAIN t : t[i].from = d
    BY LenProperties, ElementOfSeq DEF Of
  <1>3. QED
    BY <1>1, <1>2 DEF Precedes, Before

\* A client that may still send comes after everything sent by those admitted.
LEMMA NextIsLast ==
    ASSUME PlainPart, QueueInv, ServedInv,
           NEW c \in Connections, state[c] \in {"waiting", "served"},
           NEW kind, NEW s \in Seq(Sent), s \in Seq(FromAdmitted) \/ s \in Seq(Of(c))
    PROVE  \A i \in DOMAIN s :
               Before(s[i], [from |-> c, number |-> sent[c] + 1, kind |-> kind])
  <1> SUFFICES ASSUME NEW i \in DOMAIN s
               PROVE  Before(s[i], [from |-> c, number |-> sent[c] + 1, kind |-> kind])
    OBVIOUS
  <1>1. s[i] \in Sent /\ (s[i] \in FromAdmitted \/ s[i] \in Of(c))
    BY LenProperties, ElementOfSeq
  <1>2. s[i].from \in Connections /\ s[i].number \in Int /\ s[i].number <= sent[s[i].from]
    BY <1>1 DEF Sent, Frame
  <1>3. sent[c] \in Int
    BY DEF PlainPart
  <1>4. s[i].from <= c
    <2>1. CASE s[i] \in Of(c)
      BY <2>1 DEF Of
    <2>2. CASE s[i] \in FromAdmitted
      <3>1. Admitted(s[i].from)
        BY <2>2 DEF FromAdmitted
      <3>2. c < s[i].from => ~Admitted(s[i].from)
        BY <1>2 DEF QueueInv, ServedInv, Admitted
      <3>3. QED
        BY <1>2, <3>1, <3>2
    <2>3. QED
      BY <1>1, <2>1, <2>2
  <1>5. CASE s[i].from < c
    BY <1>5 DEF Before
  <1>6. CASE s[i].from = c
    BY <1>2, <1>3, <1>6 DEF Before
  <1>7. QED
    BY <1>2, <1>4, <1>5, <1>6

\* Nothing is unread of connections before the one served, or next to be.
LEMMA EarlierRead ==
    ASSUME PlainPart, QueueInv, ServedInv, EmptyInv, NEW c \in Connections,
           \/ state[c] = "served"
           \/ client = 0 /\ FirstWaiting(c),
           NEW d \in Connections, d < c
    PROVE  unread[d] = <<>>
  <1>1. state[d] # "served"
    BY DEF ServedInv, FirstWaiting
  <1>2. state[d] # "waiting"
    BY DEF QueueInv, FirstWaiting
  <1>3. QED
    BY <1>1, <1>2 DEF EmptyInv

OrderHypotheses ==
    /\ FramePart /\ EventPart /\ PlainPart /\ PhaseInv
    /\ QueueInv /\ ServedInv /\ OriginInv
    /\ SourceInv /\ EmptyInv /\ SortedInv /\ WayInv /\ UnreadInv

OrderConclusions == SortedInv' /\ WayInv' /\ UnreadInv'

LEMMA SendInOrder ==
    ASSUME OrderHypotheses, Send
    PROVE  OrderConclusions
  <1> USE DEF OrderHypotheses, OrderConclusions
  <1> PICK c \in Connections, kind \in Kinds :
        /\ Reachable(c) /\ sent[c] < MaxFrames
        /\ unread' = [unread EXCEPT
              ![c] = Append(@, [from |-> c, number |-> sent[c] + 1, kind |-> kind])]
    BY DEF Send
  <1> DEFINE e == [from |-> c, number |-> sent[c] + 1, kind |-> kind]
  <1>1. UNCHANGED <<commands, batch, events, decoded>>
    BY DEF Send
  <1>2. e \in Frame
    BY NextFrameTyped
  <1>3. state[c] \in {"waiting", "served"}
    BY DEF Reachable
  <1>4. /\ commands \in Seq(Sent) /\ commands \in Seq(FromAdmitted)
        /\ batch \in Seq(Sent) /\ batch \in Seq(FromAdmitted)
        /\ events.frames \in Seq(Sent) /\ events.frames \in Seq(FromAdmitted)
        /\ decoded \in Seq(Sent) /\ decoded \in Seq(FromAdmitted)
        /\ unread[c] \in Seq(Sent) /\ unread[c] \in Seq(Of(c))
    <2>1. Cleared \subseteq FromAdmitted
      BY DEF Cleared
    <2>2. batch \in Seq(FromAdmitted)
      BY <2>1, SeqMonotonic DEF OriginInv
    <2>3. decoded \in Seq(FromAdmitted)
      <3>1. CASE client = 0
        <4>1. decoded = <<>>
          BY <3>1 DEF FramePart, PhaseInv
        <4>2. QED
          BY <4>1, EmptySeq
      <3>2. CASE client # 0
        <4>1. Of(client) \subseteq FromAdmitted
          BY <3>2 DEF Of, FromAdmitted, ServedInv, Admitted
        <4>2. QED
          BY <4>1, SeqMonotonic DEF OriginInv
      <3>3. QED
        BY <3>1, <3>2
    <2>4. QED
      BY <2>2, <2>3 DEF SourceInv, FramesIn, OriginInv
  <1>5. /\ \A i \in DOMAIN commands : Before(commands[i], e)
        /\ \A i \in DOMAIN batch : Before(batch[i], e)
        /\ \A i \in DOMAIN events.frames : Before(events.frames[i], e)
        /\ \A i \in DOMAIN decoded : Before(decoded[i], e)
        /\ \A i \in DOMAIN unread[c] : Before(unread[c][i], e)
    BY <1>3, <1>4, NextIsLast
  <1>6. /\ commands \in Seq(Frame) /\ batch \in Seq(Frame) /\ decoded \in Seq(Frame)
        /\ events.frames \in Seq(Frame) /\ unread[c] \in Seq(Frame)
    BY DEF FramePart, EventPart
  <1>7. /\ Sorted(Append(unread[c], e))
        /\ Precedes(commands, Append(unread[c], e)) /\ Precedes(batch, Append(unread[c], e))
        /\ Precedes(events.frames, Append(unread[c], e))
        /\ Precedes(decoded, Append(unread[c], e))
    <2> HIDE DEF e
    <2>1. Sorted(Append(unread[c], e))
      BY <1>2, <1>5, <1>6, AppendLast DEF SortedInv
    <2>2. Precedes(commands, Append(unread[c], e)) /\ Precedes(batch, Append(unread[c], e))
      BY <1>2, <1>5, <1>6, AppendLast DEF UnreadInv
    <2>3. /\ Precedes(events.frames, Append(unread[c], e))
          /\ Precedes(decoded, Append(unread[c], e))
      BY <1>2, <1>5, <1>6, AppendLast DEF UnreadInv
    <2>4. QED
      BY <2>1, <2>2, <2>3
  <1>8. \A d \in Connections : unread'[d] = IF d = c THEN Append(unread[c], e) ELSE unread[d]
    BY DEF FramePart
  <1> HIDE DEF e
  <1>9. SortedInv'
    BY <1>1, <1>7, <1>8 DEF SortedInv
  <1>10. WayInv'
    BY <1>1 DEF WayInv
  <1>11. UnreadInv'
    BY <1>1, <1>7, <1>8 DEF UnreadInv
  <1>12. QED
    BY <1>9, <1>10, <1>11

\* A client accepted: what it had sent is cut into what is read and what is not.
LEMMA AcceptInOrder ==
    ASSUME OrderHypotheses, Accept
    PROVE  OrderConclusions
  <1> USE DEF OrderHypotheses, OrderConclusions
  <1> PICK c \in Connections :
        /\ pc = "poll" /\ FirstWaiting(c) /\ client = 0
        /\ \E n \in 0..Len(unread[c]) :
             /\ decoded' = SubSeq(unread[c], 1, n)
             /\ unread' = [unread EXCEPT ![c] = SubSeq(@, n + 1, Len(@))]
    BY DEF Accept
  <1> PICK n \in 0..Len(unread[c]) :
        /\ decoded' = SubSeq(unread[c], 1, n)
        /\ unread' = [unread EXCEPT ![c] = SubSeq(@, n + 1, Len(@))]
    OBVIOUS
  <1>1. UNCHANGED <<commands, batch, events>>
    BY DEF Accept
  <1> DEFINE read == SubSeq(unread[c], 1, n)
             rest == SubSeq(unread[c], n + 1, Len(unread[c]))
  <1>2. /\ commands \in Seq(Frame) /\ batch \in Seq(Frame) /\ events.frames \in Seq(Frame)
        /\ unread[c] \in Seq(Frame) /\ Sorted(unread[c])
    BY DEF FramePart, EventPart, SortedInv
  <1>3. Sorted(read) /\ Sorted(rest) /\ Precedes(read, rest)
    BY <1>2, CutSorted
  <1>4. /\ Precedes(commands, read) /\ Precedes(commands, rest)
        /\ Precedes(batch, read) /\ Precedes(batch, rest)
        /\ Precedes(events.frames, read) /\ Precedes(events.frames, rest)
    BY <1>2, CutSorted DEF UnreadInv
  <1>5. \A d \in Connections : unread'[d] = IF d = c THEN rest ELSE unread[d]
    BY DEF FramePart
  <1>6. read \in Seq(Of(c))
    <2>1. unread[c] \in Seq(Of(c))
      BY DEF OriginInv
    <2>2. \A i \in 1..n : unread[c][i] \in Of(c)
      BY <2>1, ElementOfSeq, LenProperties
    <2>3. QED
      BY <2>2, SubSeqProperties
  <1> HIDE DEF read, rest
  <1>7. \A d \in Connections : Precedes(read, unread'[d])
    <2> TAKE d \in Connections
    <2>1. CASE d = c
      BY <1>3, <1>5, <2>1
    <2>2. CASE d < c
      <3>1. unread'[d] = <<>>
        BY <1>5, <2>2, EarlierRead
      <3>2. QED
        BY <3>1, EmptyOrder
    <2>3. CASE c < d
      <3>1. unread'[d] = unread[d] /\ unread[d] \in Seq(Of(d))
        BY <1>5, <2>3 DEF OriginInv
      <3>2. QED
        BY <1>6, <2>3, <3>1, FromOrder
    <2>4. QED
      BY <2>1, <2>2, <2>3
  <1>8. decoded' = read
    BY DEF read
  <1>9. SortedInv'
    BY <1>1, <1>3, <1>5, <1>8 DEF SortedInv
  <1>10. WayInv'
    BY <1>1, <1>4, <1>8 DEF WayInv
  <1>11. UnreadInv'
    BY <1>1, <1>4, <1>5, <1>7, <1>8 DEF UnreadInv
  <1>12. QED
    BY <1>9, <1>10, <1>11

\* Throwing unread or decoded frames away disturbs no order.
LEMMA DropInOrder ==
    ASSUME OrderHypotheses, Refuse \/ CloseClient
    PROVE  OrderConclusions
  <1> USE DEF OrderHypotheses, OrderConclusions
  <1>1. UNCHANGED <<commands, batch, events>>
    BY DEF Refuse, CloseClient
  <1>2. decoded' \in {<<>>, decoded}
    BY DEF Refuse, CloseClient
  <1>3. \A d \in Connections : unread'[d] \in {<<>>, unread[d]}
    BY DEF Refuse, CloseClient, FramePart
  <1>4. SortedInv'
    BY <1>1, <1>2, <1>3, EmptyOrder DEF SortedInv
  <1>5. WayInv'
    BY <1>1, <1>2, EmptyOrder DEF WayInv
  <1>6. UnreadInv'
    BY <1>1, <1>2, <1>3, EmptyOrder DEF UnreadInv
  <1>7. QED
    BY <1>4, <1>5, <1>6

\* All that is unread of the client served is read at once.
LEMMA ReadInOrder ==
    ASSUME OrderHypotheses, HandleReadable
    PROVE  OrderConclusions
  <1> USE DEF OrderHypotheses, OrderConclusions
  <1>1. UNCHANGED <<commands, batch, events>>
    BY DEF HandleReadable
  <1>2. client \in Connections /\ state[client] = "served" /\ decoded = <<>>
    BY DEF HandleReadable, PlainPart, ServedInv, FramePart
  <1>3. unread[client] \in Seq(Frame)
    BY <1>2 DEF FramePart
  <1>4. CASE UNCHANGED <<decoded, unread>>
    BY <1>1, <1>4 DEF SortedInv, WayInv, UnreadInv
  <1>5. CASE decoded' = decoded \o unread[client]
             /\ unread' = [unread EXCEPT ![client] = <<>>]
    <2>1. decoded' = unread[client]
      BY <1>2, <1>3, <1>5, ConcatEmptySeq
    <2>2. \A d \in Connections : unread'[d] = IF d = client THEN <<>> ELSE unread[d]
      BY <1>5 DEF FramePart
    <2>3. \A d \in Connections : Precedes(decoded', unread'[d])
      <3> TAKE d \in Connections
      <3>1. CASE d = client
        BY <2>2, <3>1, EmptyOrder
      <3>2. CASE d < client
        <4>1. unread'[d] = <<>>
          BY <1>2, <2>2, <3>2, EarlierRead
        <4>2. QED
          BY <4>1, EmptyOrder
      <3>3. CASE client < d
        <4>1. unread'[d] = unread[d] /\ unread[d] \in Seq(Of(d))
              /\ unread[client] \in Seq(Of(client))
          BY <1>2, <2>2, <3>3 DEF OriginInv
        <4>2. QED
          BY <1>2, <2>1, <3>3, <4>1, FromOrder
      <3>4. QED
        BY <1>2, <3>1, <3>2, <3>3
    <2>4. SortedInv'
      BY <1>1, <1>2, <2>1, <2>2, EmptyOrder DEF SortedInv
    <2>5. WayInv'
      BY <1>1, <1>2, <2>1 DEF WayInv, UnreadInv
    <2>6. UnreadInv'
      BY <1>1, <2>2, <2>3, EmptyOrder DEF UnreadInv
    <2>7. QED
      BY <2>4, <2>5, <2>6
  <1>6. QED
    BY <1>4, <1>5 DEF HandleReadable

\* One decoded frame becomes an event.
LEMMA DrainInOrder ==
    ASSUME OrderHypotheses, DrainDecoder
    PROVE  OrderConclusions
  <1> USE DEF OrderHypotheses, OrderConclusions
  <1>1. UNCHANGED <<commands, batch, unread>> /\ decoded # <<>>
    BY DEF DrainDecoder, PhaseInv
  <1>2. CASE events'.frames = events.frames /\ decoded' = decoded
    BY <1>1, <1>2 DEF SortedInv, WayInv, UnreadInv
  <1>3. CASE events'.frames = Append(events.frames, Head(decoded)) /\ decoded' = Tail(decoded)
    <2>1. /\ events.frames \in Seq(Frame) /\ decoded \in Seq(Frame)
          /\ commands \in Seq(Frame) /\ batch \in Seq(Frame)
          /\ \A c \in Connections : unread[c] \in Seq(Frame)
      BY DEF FramePart, EventPart
    <2>2. Sorted(events.frames) /\ Sorted(decoded) /\ Precedes(events.frames, decoded)
      BY DEF SortedInv, WayInv
    <2>3. /\ Sorted(events'.frames) /\ Sorted(decoded')
          /\ Precedes(events'.frames, decoded')
      BY <1>1, <1>3, <2>1, <2>2, MoveHead
    <2>4. \A r \in Seq(Frame) : Precedes(r, events.frames) /\ Precedes(r, decoded) =>
              Precedes(r, events'.frames) /\ Precedes(r, decoded')
      BY <1>1, <1>3, <2>1, <2>2, MoveHead
    <2>5. \A r \in Seq(Frame) : Precedes(events.frames, r) /\ Precedes(decoded, r) =>
              Precedes(events'.frames, r) /\ Precedes(decoded', r)
      BY <1>1, <1>3, <2>1, <2>2, MoveHead
    <2>6. SortedInv'
      BY <1>1, <2>3 DEF SortedInv
    <2>7. WayInv'
      BY <1>1, <2>1, <2>3, <2>4 DEF WayInv
    <2>8. UnreadInv'
      BY <1>1, <2>1, <2>5 DEF UnreadInv
    <2>9. QED
      BY <2>6, <2>7, <2>8
  <1>4. QED
    BY <1>2, <1>3 DEF DrainDecoder, EventPart

\* The executor takes what was observed as its next batch.
LEMMA PollInOrder ==
    ASSUME OrderHypotheses, PollLink
    PROVE  OrderConclusions
  <1> USE DEF OrderHypotheses, OrderConclusions
  <1>1. UNCHANGED <<commands, unread, decoded>>
    BY DEF PollLink
  <1>2. batch' = events.frames /\ events'.frames = <<>>
    BY DEF PollLink, Drain, NoEvents
  <1>3. SortedInv'
    BY <1>1, <1>2, EmptyOrder DEF SortedInv
  <1>4. WayInv'
    BY <1>1, <1>2, EmptyOrder DEF WayInv
  <1>5. UnreadInv'
    BY <1>1, <1>2, EmptyOrder DEF UnreadInv
  <1>6. QED
    BY <1>3, <1>4, <1>5

\* A frame handled becomes a request handed over, or nothing.
LEMMA HandleInOrder ==
    ASSUME OrderHypotheses, HandleFrame
    PROVE  OrderConclusions
  <1> USE DEF OrderHypotheses, OrderConclusions
  <1>1. UNCHANGED <<events, unread, decoded>> /\ batch # <<>> /\ batch' = Tail(batch)
    BY DEF HandleFrame
  <1>2. /\ events.frames \in Seq(Frame) /\ decoded \in Seq(Frame)
        /\ commands \in Seq(Frame) /\ batch \in Seq(Frame)
        /\ \A c \in Connections : unread[c] \in Seq(Frame)
    BY DEF FramePart, EventPart
  <1>3. Sorted(commands) /\ Sorted(batch) /\ Precedes(commands, batch)
    BY DEF SortedInv, WayInv
  <1>4. /\ Sorted(commands') /\ Sorted(batch') /\ Precedes(commands', batch')
        /\ \A r \in Seq(Frame) : Precedes(commands, r) /\ Precedes(batch, r) =>
               Precedes(commands', r) /\ Precedes(batch', r)
    <2>1. CASE commands' = commands
      BY <1>1, <1>2, <1>3, <2>1, DropHead
    <2>2. CASE commands' = Append(commands, Head(batch))
      BY <1>1, <1>2, <1>3, <2>2, MoveHead
    <2>3. QED
      BY <2>1, <2>2 DEF HandleFrame, ForwardCommand, NoteHeartbeat
  <1>5. SortedInv'
    BY <1>1, <1>4 DEF SortedInv
  <1>6. WayInv'
    BY <1>1, <1>2, <1>4 DEF WayInv
  <1>7. UnreadInv'
    BY <1>1, <1>2, <1>4 DEF UnreadInv
  <1>8. QED
    BY <1>5, <1>6, <1>7

\* The order along the whole way survives every step.
LEMMA OrderStep == TypeInv /\ LinkInv /\ OrderInv /\ [Next]_vars => OrderInv'
  <1> SUFFICES ASSUME TypeInv, LinkInv, OrderInv, [Next]_vars PROVE OrderInv'
    OBVIOUS
  <1>1. OrderHypotheses
    BY TypeParts DEF TypeInv, LinkInv, OrderInv, OrderHypotheses
  <1>2. SourceInv' /\ EmptyInv'
    BY <1>1, SourceStep, EmptyStep DEF OrderInv, OrderHypotheses
  <1>3. OrderConclusions
    <2>1. CASE Send
      BY <1>1, <2>1, SendInOrder
    <2>2. CASE Accept
      BY <1>1, <2>2, AcceptInOrder
    <2>3. CASE Refuse \/ CloseClient
      BY <1>1, <2>3, DropInOrder
    <2>4. CASE HandleReadable
      BY <1>1, <2>4, ReadInOrder
    <2>5. CASE DrainDecoder
      BY <1>1, <2>5, DrainInOrder
    <2>6. CASE PollLink
      BY <1>1, <2>6, PollInOrder
    <2>7. CASE HandleFrame
      BY <1>1, <2>7, HandleInOrder
    <2>8. CASE UNCHANGED <<commands, batch, decoded, unread>> /\ events'.frames = events.frames
      BY <1>1, <2>8 DEF OrderHypotheses, OrderConclusions, SortedInv, WayInv, UnreadInv
    <2>9. CASE Announce \/ ReportClosed
      BY <1>1, <2>8, <2>9 DEF Announce, ReportClosed, OrderHypotheses, EventPart
    <2>10. QED
      BY <2>1, <2>2, <2>3, <2>4, <2>5, <2>6, <2>7, <2>8, <2>9
      DEF Next, Clients, NetworkThread, vars, Connect, End, OpenPort, PublishHeartbeat,
          Advance
  <1>4. QED
    BY <1>2, <1>3 DEF OrderInv, OrderConclusions

LEMMA InitOrder == Init => OrderInv
  <1> SUFFICES ASSUME Init PROVE OrderInv
    OBVIOUS
  <1>1. /\ \A c \in Connections : unread[c] = <<>>
        /\ unread = [c \in Connections |-> <<>>]
        /\ decoded = <<>> /\ batch = <<>> /\ commands = <<>> /\ events.frames = <<>>
    BY DEF Init, NoEvents
  <1>2. \A S : <<>> \in Seq(S)
    BY EmptySeq
  <1>3. SourceInv
    BY <1>1, <1>2 DEF SourceInv, FramesIn
  <1>4. EmptyInv /\ SortedInv /\ WayInv /\ UnreadInv
    BY <1>1, EmptyOrder DEF EmptyInv, SortedInv, WayInv, UnreadInv
  <1>5. QED
    BY <1>3, <1>4 DEF OrderInv

\* Requests reach safety_manager at most once and in the order they were sent,
\* over any number of reconnects.
THEOREM CommandsOrdered == Spec => []CommandsInOrder
  <1> DEFINE Inv == TypeInv /\ LinkInv /\ OrderInv
  <1>1. Init => Inv
    BY InitTyped, InitLink, InitOrder
  <1>2. Inv /\ [Next]_vars => Inv'
    BY TypeStep, LinkStep, OrderStep
  <1>3. Inv => CommandsInOrder
    BY DEF OrderInv, SortedInv, Sorted, CommandsInOrder
  <1>4. QED
    BY <1>1, <1>2, <1>3, PTL DEF Spec

-----------------------------------------------------------------------------
(* No frame is lost between a client and the executor.                     *)
Underway ==
    {f \in Frame :
        \/ f \in Range(unread[f.from]) \/ f \in Range(decoded)
        \/ f \in Range(events.frames) \/ f \in Range(batch)}

Open(c) == state[c] \in {"unused", "waiting", "served"}

\* Every frame sent over a connection still open has been handled or is underway.
HeedInv ==
    \A c \in Connections : Open(c) =>
        \A n \in 1..sent[c] :
            n \in handled[c] \/ \E f \in Underway : f.from = c /\ f.number = n

\* What is in a sequence after it was extended, shortened or cut.
LEMMA Contents ==
    ASSUME NEW s \in Seq(Frame)
    PROVE  /\ \A e \in Frame : Range(Append(s, e)) = Range(s) \cup {e}
           /\ s # <<>> => Range(s) = {Head(s)} \cup Range(Tail(s))
           /\ \A n \in 0..Len(s) :
                  Range(s) = Range(SubSeq(s, 1, n)) \cup Range(SubSeq(s, n + 1, Len(s)))
  <1>0. DOMAIN s = 1..Len(s) /\ Len(s) \in Nat
    BY LenProperties
  <1>1. ASSUME NEW e \in Frame
        PROVE  Range(Append(s, e)) = Range(s) \cup {e}
    <2>1. /\ DOMAIN Append(s, e) = 1..(Len(s) + 1)
          /\ \A i \in 1..Len(s) : Append(s, e)[i] = s[i]
          /\ Append(s, e)[Len(s) + 1] = e
      BY <1>0, AppendProperties, LenProperties
    <2>2. \A x \in Range(Append(s, e)) : x \in Range(s) \cup {e}
      BY <1>0, <2>1 DEF Range
    <2>3. \A x \in Range(s) \cup {e} : x \in Range(Append(s, e))
      BY <1>0, <2>1 DEF Range
    <2>4. QED
      BY <2>2, <2>3
  <1>2. ASSUME s # <<>>
        PROVE  Range(s) = {Head(s)} \cup Range(Tail(s))
    <2>1. /\ Tail(s) \in Seq(Frame) /\ Len(Tail(s)) = Len(s) - 1 /\ Head(s) = s[1]
          /\ \A i \in 1..Len(Tail(s)) : Tail(s)[i] = s[i + 1]
      BY <1>2, HeadTailProperties
    <2>2. DOMAIN Tail(s) = 1..(Len(s) - 1) /\ Len(s) # 0
      BY <1>2, <2>1, LenProperties, EmptySeq
    <2>3. \A x \in Range(s) : x \in {Head(s)} \cup Range(Tail(s))
      <3> SUFFICES ASSUME NEW i \in 1..Len(s) PROVE s[i] \in {Head(s)} \cup Range(Tail(s))
        BY <1>0 DEF Range
      <3>1. CASE i = 1
        BY <2>1, <3>1
      <3>2. CASE i # 1
        <4>1. i - 1 \in DOMAIN Tail(s) /\ Tail(s)[i - 1] = s[i]
          BY <1>0, <2>1, <2>2, <3>2
        <4>2. QED
          BY <4>1 DEF Range
      <3>3. QED
        BY <3>1, <3>2
    <2>4. \A x \in {Head(s)} \cup Range(Tail(s)) : x \in Range(s)
      BY <1>0, <2>1, <2>2 DEF Range
    <2>5. QED
      BY <2>3, <2>4
  <1>3. ASSUME NEW n \in 0..Len(s)
        PROVE  Range(s) = Range(SubSeq(s, 1, n)) \cup Range(SubSeq(s, n + 1, Len(s)))
    <2>1. SubSeq(s, 1, n) \in Seq(Frame) /\ SubSeq(s, n + 1, Len(s)) \in Seq(Frame)
      BY <1>0, PartTyped
    <2>2. SubSeq(s, 1, n) \o SubSeq(s, n + 1, Len(s)) = s
      <3>1. 1 \in 1..(Len(s) + 1) /\ n \in (1 - 1)..Len(s) /\ Len(s) \in n..Len(s)
        BY <1>0
      <3>2. SubSeq(s, 1, n) \o SubSeq(s, n + 1, Len(s)) = SubSeq(s, 1, Len(s))
        BY <3>1, ConcatAdjacentSubSeq
      <3>3. QED
        BY <3>2, SubSeqFull
    <2>3. Range(SubSeq(s, 1, n) \o SubSeq(s, n + 1, Len(s))) =
              Range(SubSeq(s, 1, n)) \cup Range(SubSeq(s, n + 1, Len(s)))
      <3>1. \A a, b \in Seq(Frame) : Range(a \o b) = Range(a) \cup Range(b)
        BY RangeConcatenation
      <3>2. QED
        BY <2>1, <3>1, Zenon
    <2>4. QED
      BY <2>2, <2>3, Zenon
  <1>4. QED
    BY <1>1, <1>2, <1>3

LEMMA NoContents == Range(<<>>) = {}
  BY DEF Range

\* A step that only moves frames on, or throws away those of a connection it ends.
MovedOn ==
    /\ UNCHANGED <<sent, handled>>
    /\ \A c \in Connections : Open(c)' => Open(c)
    /\ Underway' \subseteq Underway
    /\ \A f \in Underway : Open(f.from)' => f \in Underway'

\* Every step but a client sending and the executor handling a frame is of that kind.
LEMMA StepMovesOn ==
    ASSUME OrderHypotheses, [Next]_vars, ~Send, ~HandleFrame
    PROVE  MovedOn
  <1> USE DEF OrderHypotheses
  <1>0. /\ decoded \in Seq(Frame) /\ batch \in Seq(Frame) /\ events.frames \in Seq(Frame)
        /\ \A c \in Connections : unread[c] \in Seq(Frame) /\ unread[c] \in Seq(Of(c))
        /\ \A f \in Frame : f.from \in Connections
    BY DEF FramePart, EventPart, OriginInv, Frame
  <1>1. CASE Connect
    BY <1>1 DEF Connect, MovedOn, Open, Underway, PlainPart
  <1>2. CASE Accept
    <2> PICK c \in Connections :
          /\ state[c] = "waiting"
          /\ client = 0 /\ pc = "poll"
          /\ state' = [state EXCEPT ![c] = "served"]
          /\ \E n \in 0..Len(unread[c]) :
               /\ decoded' = SubSeq(unread[c], 1, n)
               /\ unread' = [unread EXCEPT ![c] = SubSeq(@, n + 1, Len(@))]
      BY <1>2 DEF Accept, FirstWaiting
    <2> PICK n \in 0..Len(unread[c]) :
          /\ decoded' = SubSeq(unread[c], 1, n)
          /\ unread' = [unread EXCEPT ![c] = SubSeq(@, n + 1, Len(@))]
      OBVIOUS
    <2>1. UNCHANGED <<sent, handled, events, batch>> /\ decoded = <<>>
      BY <1>2 DEF Accept, FramePart
    <2>2. Range(unread[c]) = Range(decoded') \cup Range(unread'[c])
      BY <1>0, Contents DEF FramePart
    <2>3. \A d \in Connections : d # c => unread'[d] = unread[d]
      BY DEF FramePart
    <2>4. \A f \in Range(decoded') : f.from = c
      <3>1. \A f \in Range(unread[c]) : f \in Of(c)
        BY <1>0, RangeOfSeq
      <3>2. QED
        BY <2>2, <3>1 DEF Of
    <2>5. Underway' = Underway
      <3>1. \A f \in Frame : f.from = c =>
               (f \in Range(unread[f.from]) \/ f \in Range(decoded) <=>
                f \in Range(unread'[f.from]) \/ f \in Range(decoded'))
        BY <2>1, <2>2, NoContents
      <3>2. \A f \in Frame : f.from # c =>
               (f \in Range(unread[f.from]) \/ f \in Range(decoded) <=>
                f \in Range(unread'[f.from]) \/ f \in Range(decoded'))
        BY <1>0, <2>1, <2>3, <2>4, NoContents
      <3>3. QED
        BY <2>1, <3>1, <3>2 DEF Underway
    <2>6. \A d \in Connections : Open(d)' => Open(d)
      BY DEF Open, PlainPart
    <2>7. QED
      BY <2>1, <2>5, <2>6 DEF MovedOn
  <1>3. CASE Refuse
    <2> PICK c \in Connections :
          /\ state' = [state EXCEPT ![c] = "refused"]
          /\ unread' = [unread EXCEPT ![c] = <<>>]
      BY <1>3 DEF Refuse
    <2>1. UNCHANGED <<sent, handled, events, batch, decoded>>
      BY <1>3 DEF Refuse
    <2>2. \A d \in Connections :
             /\ Open(d)' => Open(d) /\ d # c
             /\ d # c => unread'[d] = unread[d]
             /\ unread'[d] = unread[d] \/ Range(unread'[d]) = {}
      BY NoContents DEF Open, PlainPart, FramePart
    <2>3. QED
      BY <1>0, <2>1, <2>2 DEF MovedOn, Underway
  <1>4. CASE Announce
    <2>1. events'.frames = events.frames
      BY <1>4 DEF Announce, EventPart
    <2>2. QED
      BY <1>4, <2>1 DEF Announce, MovedOn, Open, Underway
  <1>5. CASE HandleReadable
    <2>1. client \in Connections /\ UNCHANGED <<sent, handled, events, batch, state>>
      BY <1>5 DEF HandleReadable, PlainPart
    <2>2. CASE UNCHANGED <<decoded, unread>>
      BY <2>1, <2>2 DEF MovedOn, Open, Underway
    <2>3. CASE decoded' = decoded \o unread[client]
               /\ unread' = [unread EXCEPT ![client] = <<>>]
      <3>1. Range(decoded') = Range(decoded) \cup Range(unread[client])
        BY <1>0, <2>1, <2>3, RangeConcatenation
      <3>2. \A d \in Connections :
               Range(unread'[d]) = IF d = client THEN {} ELSE Range(unread[d])
        BY <2>1, <2>3, NoContents DEF FramePart
      <3>3. \A f \in Range(unread[client]) : f.from = client
        <4>1. unread[client] \in Seq(Of(client))
          BY <1>0, <2>1
        <4>2. QED
          BY <4>1, RangeOfSeq DEF Of
      <3>4. Underway' = Underway
        BY <1>0, <2>1, <3>1, <3>2, <3>3 DEF Underway
      <3>5. QED
        BY <2>1, <3>4 DEF MovedOn, Open
    <2>4. QED
      BY <1>5, <2>2, <2>3 DEF HandleReadable
  <1>6. CASE DrainDecoder
    <2>1. UNCHANGED <<sent, handled, unread, batch, state>> /\ decoded # <<>>
      BY <1>6 DEF DrainDecoder, PhaseInv
    <2>2. CASE events'.frames = events.frames /\ decoded' = decoded
      BY <2>1, <2>2 DEF MovedOn, Open, Underway
    <2>3. CASE events'.frames = Append(events.frames, Head(decoded)) /\ decoded' = Tail(decoded)
      <3>1. Head(decoded) \in Frame
        BY <1>0, <2>1, HeadTailProperties
      <3>2. /\ Range(events'.frames) = Range(events.frames) \cup {Head(decoded)}
            /\ Range(decoded) = {Head(decoded)} \cup Range(decoded')
        BY <1>0, <2>1, <2>3, <3>1, Contents
      <3>3. Underway' = Underway
        BY <2>1, <3>2 DEF Underway
      <3>4. QED
        BY <2>1, <3>3 DEF MovedOn, Open
    <2>4. QED
      BY <1>6, <2>2, <2>3 DEF DrainDecoder, EventPart
  <1>7. CASE CloseClient
    <2>1. client \in Connections /\ UNCHANGED <<sent, handled, events, batch>>
      BY <1>7 DEF CloseClient, PhaseInv, PlainPart
    <2>2. /\ state' = [state EXCEPT ![client] = "closed"]
          /\ unread' = [unread EXCEPT ![client] = <<>>] /\ decoded' = <<>>
      BY <1>7 DEF CloseClient
    <2>3. \A d \in Connections :
             /\ Open(d)' => Open(d) /\ d # client
             /\ d # client => unread'[d] = unread[d]
             /\ unread'[d] = unread[d] \/ Range(unread'[d]) = {}
      BY <2>1, <2>2, NoContents DEF Open, PlainPart, FramePart
    <2>4. \A f \in Range(decoded) : f.from = client
      BY RangeOfSeq DEF OriginInv, Of
    <2>5. QED
      BY <1>0, <2>1, <2>2, <2>3, <2>4, NoContents DEF MovedOn, Underway
  <1>8. CASE ReportClosed
    <2>1. events'.frames = events.frames
      BY <1>8 DEF ReportClosed, EventPart
    <2>2. QED
      BY <1>8, <2>1 DEF ReportClosed, MovedOn, Open, Underway
  <1>9. CASE PollLink
    <2>1. /\ UNCHANGED <<sent, handled, unread, decoded, state>>
          /\ batch = <<>> /\ batch' = events.frames /\ events'.frames = <<>>
      BY <1>9 DEF PollLink, Drain, NoEvents
    <2>2. Underway' = Underway
      BY <2>1, NoContents DEF Underway
    <2>3. QED
      BY <2>1, <2>2 DEF MovedOn, Open
  <1>10. CASE UNCHANGED <<sent, handled, state, unread, decoded, events, batch>>
    BY <1>10 DEF MovedOn, Open, Underway
  <1>11. QED
    BY <1>1, <1>2, <1>3, <1>4, <1>5, <1>6, <1>7, <1>8, <1>9, <1>10
    DEF Next, Clients, NetworkThread, vars, End, OpenPort, PublishHeartbeat, Advance

\* Moving frames on forgets none of an open connection.
LEMMA MovedHeeded ==
    ASSUME HeedInv, MovedOn
    PROVE  HeedInv'
  <1> SUFFICES ASSUME NEW c \in Connections, Open(c)', NEW n \in 1..sent'[c], n \notin handled'[c]
               PROVE  \E f \in Underway' : f.from = c /\ f.number = n
    BY DEF HeedInv
  <1>1. Open(c) /\ UNCHANGED <<sent, handled>>
    BY DEF MovedOn
  <1>2. PICK f \in Underway : f.from = c /\ f.number = n
    BY <1>1 DEF HeedInv
  <1>3. QED
    BY <1>2 DEF MovedOn

\* The next frame sent over a connection is underway.
LEMMA SendHeeded ==
    ASSUME OrderHypotheses, HeedInv, Send
    PROVE  HeedInv'
  <1> USE DEF OrderHypotheses
  <1> PICK c \in Connections, kind \in Kinds :
        /\ sent[c] < MaxFrames
        /\ sent' = [sent EXCEPT ![c] = @ + 1]
        /\ unread' = [unread EXCEPT
              ![c] = Append(@, [from |-> c, number |-> sent[c] + 1, kind |-> kind])]
    BY DEF Send
  <1> DEFINE e == [from |-> c, number |-> sent[c] + 1, kind |-> kind]
  <1>1. UNCHANGED <<state, handled, decoded, events, batch>>
    BY DEF Send
  <1>2. e \in Frame /\ e.from = c /\ e.number = sent[c] + 1
    BY NextFrameTyped
  <1> HIDE DEF e
  <1>3. \A d \in Connections :
           Range(unread'[d]) = IF d = c THEN Range(unread[c]) \cup {e} ELSE Range(unread[d])
    BY <1>2, Contents DEF FramePart, e
  <1>4. Underway' = Underway \cup {e}
    BY <1>1, <1>2, <1>3 DEF Underway, Frame
  <1>5. /\ \A d \in Connections : sent'[d] = IF d = c THEN sent[c] + 1 ELSE sent[d]
        /\ \A d \in Connections : sent[d] \in Nat
    BY DEF PlainPart
  <1> SUFFICES ASSUME NEW d \in Connections, Open(d)', NEW n \in 1..sent'[d], n \notin handled'[d]
               PROVE  \E f \in Underway' : f.from = d /\ f.number = n
    BY DEF HeedInv
  <1>6. CASE d = c /\ n = sent[c] + 1
    BY <1>2, <1>4, <1>6
  <1>7. CASE ~(d = c /\ n = sent[c] + 1)
    <2>1. Open(d) /\ n \in 1..sent[d] /\ n \notin handled[d]
      BY <1>1, <1>5, <1>7 DEF Open
    <2>2. QED
      BY <1>4, <2>1 DEF HeedInv
  <1>8. QED
    BY <1>6, <1>7

\* Only the frame handled leaves the way.
LEMMA HandledLeaves ==
    ASSUME FramePart, HandleFrame
    PROVE  Head(batch) \in Underway /\ Underway \subseteq Underway' \cup {Head(batch)}
  <1>1. /\ UNCHANGED <<unread, decoded, events>>
        /\ batch # <<>> /\ batch' = Tail(batch) /\ batch \in Seq(Frame)
    BY DEF HandleFrame, FramePart
  <1>2. Head(batch) \in Frame /\ Range(batch) = {Head(batch)} \cup Range(batch')
    BY <1>1, HeadTailProperties, Contents
  <1>3. QED
    BY <1>1, <1>2 DEF Underway

\* Handling a frame leaves the others to be handled.
LEMMA HandleHeeded ==
    ASSUME FramePart, PlainPart, HeedInv, HandleFrame
    PROVE  HeedInv'
  <1> DEFINE e == Head(batch)
  <1>1. /\ UNCHANGED <<state, sent>>
        /\ handled' = [handled EXCEPT ![e.from] = @ \cup {e.number}]
    BY DEF HandleFrame
  <1>2. e \in Underway /\ Underway \subseteq Underway' \cup {e}
    BY HandledLeaves
  <1> HIDE DEF e
  <1> SUFFICES ASSUME NEW c \in Connections, Open(c)', NEW n \in 1..sent'[c], n \notin handled'[c]
               PROVE  \E f \in Underway' : f.from = c /\ f.number = n
    BY DEF HeedInv
  <1>3. Open(c) /\ n \in 1..sent[c] /\ n \notin handled[c]
    BY <1>1 DEF Open, PlainPart
  <1>4. PICK f \in Underway : f.from = c /\ f.number = n
    BY <1>3 DEF HeedInv
  <1>5. f # e
    BY <1>1, <1>4 DEF PlainPart
  <1>6. QED
    BY <1>2, <1>4, <1>5

LEMMA HeedStep == TypeInv /\ LinkInv /\ OrderInv /\ HeedInv /\ [Next]_vars => HeedInv'
  <1> SUFFICES ASSUME TypeInv, LinkInv, OrderInv, HeedInv, [Next]_vars PROVE HeedInv'
    OBVIOUS
  <1>1. OrderHypotheses
    BY TypeParts DEF TypeInv, LinkInv, OrderInv, OrderHypotheses
  <1>2. CASE Send
    BY <1>1, <1>2, SendHeeded
  <1>3. CASE HandleFrame
    BY <1>1, <1>3, HandleHeeded DEF OrderHypotheses
  <1>4. CASE ~Send /\ ~HandleFrame
    BY <1>1, <1>4, StepMovesOn, MovedHeeded DEF OrderHypotheses
  <1>5. QED
    BY <1>2, <1>3, <1>4

LEMMA InitHeeded == Init => HeedInv
  <1> SUFFICES ASSUME Init PROVE HeedInv
    OBVIOUS
  <1>1. \A c \in Connections : sent[c] = 0
    BY DEF Init
  <1>2. QED
    BY <1>1 DEF HeedInv

\* When all is settled, nothing is underway over a connection still open.
LEMMA SettledIsEmpty ==
    ASSUME FramePart, PlainPart, ServedInv, EmptyInv, Settled,
           NEW f \in Underway
    PROVE  ~Open(f.from)
  <1>1. f.from \in Connections
    BY DEF Underway, Frame
  <1>2. decoded = <<>> /\ batch = <<>> /\ events.frames = <<>>
    BY DEF Settled, FramePart, NoEvents
  <1>3. unread[f.from] # <<>>
    BY <1>2, NoContents DEF Underway
  <1>4. state[f.from] = "served"
    BY <1>1, <1>3 DEF EmptyInv, Settled
  <1>5. FALSE
    BY <1>1, <1>3, <1>4 DEF ServedInv, Settled
  <1>6. QED
    BY <1>5

\* No frame is lost in silence: whenever thread and executor have nothing left to do,
\* each frame sent over a connection has been handled, or safety_manager knows the
\* connection dead, or it was refused.
THEOREM FramesAreHeeded == Spec => []FramesHeeded
  <1> DEFINE Inv == TypeInv /\ LinkInv /\ OrderInv /\ HeedInv
  <1>1. Init => Inv
    BY InitTyped, InitLink, InitOrder, InitHeeded
  <1>2. Inv /\ [Next]_vars => Inv'
    BY TypeStep, LinkStep, OrderStep, HeedStep
  <1>3. Inv => FramesHeeded
    <2> SUFFICES ASSUME Inv, Settled, NEW c \in Connections
                 PROVE  1..sent[c] \subseteq handled[c] \/ c \in told \/ state[c] = "refused"
      BY DEF FramesHeeded
    <2>1. FramePart /\ PlainPart /\ ServedInv /\ EmptyInv /\ PendingInv
      BY TypeParts DEF TypeInv, LinkInv, OrderInv
    <2>2. CASE Open(c)
      BY <2>1, <2>2, SettledIsEmpty DEF HeedInv
    <2>3. CASE state[c] = "closed"
      BY <2>1, <2>3 DEF PendingInv, Settled, NoEvents
    <2>4. QED
      BY <2>1, <2>2, <2>3 DEF Open, PlainPart
  <1>4. QED
    BY <1>1, <1>2, <1>3, PTL DEF Spec
=============================================================================
