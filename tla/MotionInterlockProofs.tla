------------------------ MODULE MotionInterlockProofs ------------------------
(***************************************************************************)
(* Proofs about motion_interlock_manager, for every set of request ids,    *)
(* every cache size and every timeout: the inductive invariant, the        *)
(* properties it gives, and the refinement of ExclusiveAuthority.          *)
(***************************************************************************)
EXTENDS MotionInterlock, TLAPS

Pendings == {"NONE", "BASE_ACTIVE", "ARM_ACTIVE"}

(* The pending authority is that of the other resource during a handover.  *)
AuthorityInv ==
    /\ authority \in Authorities
    /\ pending \in Pendings
    /\ PendingOnlyInHandover

(* The transition timer runs exactly in a stopping state, and it is at     *)
(* most as late as the node's timer.                                       *)
TimerInv ==
    /\ started \in BOOLEAN /\ startedAge \in Nat /\ stoppingFor \in Nat
    /\ tickAge \in 0..TickPeriod
    /\ started <=> authority \in StoppingStates
    /\ started => stoppingFor = startedAge
    /\ ~started => stoppingFor = 0
    /\ stoppingFor <= TransitionTimeout + tickAge

(* Without an alarm, the one resource not confirmed stopped is the one     *)
(* that holds authority or is giving it up.                                *)
OwnerInv ==
    /\ unconfirmed \subseteq Resources
    /\ alarmed \in BOOLEAN
    /\ \A r \in Resources : authority = Active(r) => r \in unconfirmed
    /\ \A r \in Resources :
         authority \in {Active(r), Stopping(r)} => unconfirmed \subseteq {r} \/ alarmed
    /\ authority = "NONE" => unconfirmed = {} \/ alarmed

TopicInv == topic = [authority |-> authority, pending |-> pending]

ServedInv == served \in Seq(RequestIds) /\ Len(served) <= CacheLimit

(* A fresh enough report tells how long its resource can have been moving,  *)
(* the age of the sample behind the report included.                       *)
WorldInv ==
    /\ feedback \subseteq Feedbacks
    /\ moving \subseteq Resources
    /\ movingFor \in [Resources -> Nat]
    /\ \A r \in Resources : r \notin moving => movingFor[r] = 0
    /\ \A m \in feedback : m.age <= FeedbackTimeout => movingFor[m.resource] <= m.age + MonitorLag

InterlockInv ==
    /\ AuthorityInv /\ TimerInv /\ OwnerInv /\ TopicInv /\ ServedInv /\ WorldInv
    /\ boot \in BOOLEAN

USE DEF Resources, Authorities, Pendings, Active, Stopping, StoppingStates

-----------------------------------------------------------------------------
(* What a request does: it grants or confirms the authority, starts a      *)
(* handover from the other resource, or changes nothing.                   *)
LEMMA RequestEffect ==
    ASSUME authority \in Authorities, NEW r \in Resources, Request(r)
    PROVE  \/ authority \in {"NONE", Active(r)} /\ AcceptTransition(Active(r), pending)
           \/ \E other \in Resources \ {r} :
                authority = Active(other) /\ AcceptTransition(Stopping(other), Active(r))
           \/ Reject
  <1>1. CASE authority \in {"NONE", Active(r)}
    BY <1>1 DEF Request
  <1>2. CASE authority \notin {"NONE", Active(r)}
             /\ \E other \in Resources \ {r} : authority = Active(other)
    <2>1. PICK other \in Resources \ {r} : AcceptTransition(Stopping(other), Active(r))
      BY <1>2 DEF Request
    <2>2. authority = Active(other)
      BY <1>2
    <2>3. QED
      BY <2>1, <2>2
  <1>3. CASE authority \notin {"NONE", Active(r)}
             /\ ~ \E other \in Resources \ {r} : authority = Active(other)
    BY <1>3 DEF Request
  <1>4. QED
    BY <1>1, <1>2, <1>3

(* A release starts the stop of the active resource, or changes nothing.   *)
LEMMA ReleaseEffect ==
    ASSUME authority \in Authorities, Release
    PROVE  \/ \E r \in Resources : authority = Active(r) /\ AcceptTransition(Stopping(r), "NONE")
           \/ Reject
  BY DEF Release

(* A stop that has just begun, or none at all, is in time.                 *)
LEMMA JustStarted ==
    ASSUME NEW age \in 0..TickPeriod
    PROVE  0 <= TransitionTimeout + age
  BY InterlockConstants

(* An accepted transition starts or stops the transition timer and is      *)
(* published.                                                              *)
LEMMA TransitionEffect ==
    ASSUME TimerInv, UNCHANGED tickAge \/ tickAge' = 0,
           NEW to \in Authorities, NEW next \in Pendings, AcceptTransition(to, next)
    PROVE  TimerInv' /\ TopicInv' /\ authority' = to /\ pending' = next
  <1>1. authority' = to /\ pending' = next /\ started' = (to \in StoppingStates)
    BY Zenon DEF AcceptTransition
  <1>2. TopicInv'
    BY <1>1 DEF AcceptTransition, TopicInv
  <1>3. started' \in BOOLEAN
    <2>1. (to \in StoppingStates) \in BOOLEAN
      OBVIOUS
    <2>2. QED
      BY <1>1, <2>1, Zenon
  <1>4. started' <=> authority' \in StoppingStates
    <2> HIDE DEF StoppingStates
    <2>1. QED
      BY <1>1, Zenon
  <1>5. startedAge' = 0 /\ stoppingFor' = 0
    BY DEF AcceptTransition
  <1>6. tickAge' \in 0..TickPeriod
    BY InterlockConstants DEF TimerInv
  <1>7. TimerInv'
    <2>1. stoppingFor' <= TransitionTimeout + tickAge'
      BY <1>5, <1>6, JustStarted, Zenon
    <2>2. QED
      BY <1>3, <1>4, <1>5, <1>6, <2>1 DEF TimerInv
  <1>8. QED
    BY <1>1, <1>2, <1>7

(* A rejected transition changes nothing.                                  *)
LEMMA RejectEffect ==
    ASSUME TimerInv, TopicInv, UNCHANGED tickAge, Reject
    PROVE  /\ TimerInv' /\ TopicInv'
           /\ UNCHANGED <<authority, pending, started, startedAge, topic, stoppingFor>>
  BY DEF TimerInv, TopicInv, Reject, core

LEMMA RememberTyped ==
    ASSUME ServedInv, NEW id \in RequestIds, Remember(id)
    PROVE  ServedInv'
  <1> USE InterlockConstants DEF ServedInv
  <1>1. CASE Len(served) < CacheLimit
    BY <1>1 DEF Remember
  <1>2. CASE ~(Len(served) < CacheLimit)
    <2>1. served # <<>>
      BY <1>2
    <2>2. Tail(served) \in Seq(RequestIds) /\ Len(Tail(served)) = Len(served) - 1
      BY <2>1
    <2>3. served' = Append(Tail(served), id)
      BY <1>2 DEF Remember
    <2>4. QED
      BY <2>2, <2>3
  <1>3. QED
    BY <1>1, <1>2

LEMMA InitEstablishesInv == Init => InterlockInv
  <1> SUFFICES ASSUME Init
               PROVE  InterlockInv
    OBVIOUS
  <1>1. AuthorityInv
    BY DEF Init, AuthorityInv, PendingOnlyInHandover
  <1>2. TimerInv
    <2>1. started \in BOOLEAN /\ ~started
      BY Zenon DEF Init
    <2>2. QED
      BY <2>1, InterlockConstants DEF Init, TimerInv
  <1>3. OwnerInv
    <2>1. alarmed \in BOOLEAN
      BY Zenon DEF Init
    <2>2. QED
      BY <2>1 DEF Init, OwnerInv
  <1>4. TopicInv /\ ServedInv /\ boot \in BOOLEAN
    <2>1. boot \in BOOLEAN
      BY Zenon DEF Init
    <2>2. served = <<>> /\ topic = [authority |-> authority, pending |-> pending]
      BY DEF Init
    <2>3. QED
      BY <2>1, <2>2, InterlockConstants DEF TopicInv, ServedInv
  <1>6. WorldInv
    <2>1. feedback = {} /\ moving = {} /\ movingFor = [r \in Resources |-> 0]
      BY DEF Init
    <2>2. QED
      BY <2>1 DEF WorldInv
  <1>5. QED
    BY <1>1, <1>2, <1>3, <1>4, <1>6 DEF InterlockInv

-----------------------------------------------------------------------------
(* Each action keeps the invariant.                                        *)

(* What a request makes of the authority and of the unconfirmed resources. *)
LEMMA RequestKeepsOwner ==
    ASSUME AuthorityInv, OwnerInv, TimerInv, TopicInv, NEW op \in Requests,
           UNCHANGED <<tickAge, alarmed>>,
           \/ op = "REQUEST_BASE" /\ Request("BASE")
           \/ op = "REQUEST_ARM" /\ Request("ARM")
           \/ op = "RELEASE" /\ Release,
           unconfirmed' = Holding(authority')
    PROVE  AuthorityInv' /\ OwnerInv' /\ TimerInv' /\ TopicInv'
  <1> USE DEF AuthorityInv, PendingOnlyInHandover
  <1>1. ASSUME NEW r \in Resources, authority \in {"NONE", Active(r)},
               AcceptTransition(Active(r), pending)
        PROVE  AuthorityInv' /\ OwnerInv' /\ TimerInv' /\ TopicInv'
    <2>1. TimerInv' /\ TopicInv' /\ authority' = Active(r) /\ pending' = pending
      BY <1>1, TransitionEffect
    <2>2. pending = "NONE"
      BY <1>1
    <2>3. OwnerInv'
      BY <1>1, <2>1 DEF OwnerInv, Holding
    <2>4. QED
      BY <2>1, <2>2, <2>3
  <1>2. ASSUME NEW r \in Resources, NEW next \in {"NONE"} \cup {Active(o) : o \in Resources \ {r}},
               authority = Active(r), AcceptTransition(Stopping(r), next)
        PROVE  AuthorityInv' /\ OwnerInv' /\ TimerInv' /\ TopicInv'
    <2>1. TimerInv' /\ TopicInv' /\ authority' = Stopping(r) /\ pending' = next
      BY <1>2, TransitionEffect
    <2>2. OwnerInv'
      BY <1>2, <2>1 DEF OwnerInv, Holding
    <2>3. QED
      BY <1>2, <2>1, <2>2
  <1>3. ASSUME Reject
        PROVE  AuthorityInv' /\ OwnerInv' /\ TimerInv' /\ TopicInv'
    <2>1. TimerInv' /\ TopicInv' /\ UNCHANGED <<authority, pending>>
      BY <1>3, RejectEffect
    <2>2. unconfirmed' = unconfirmed
      BY <2>1 DEF Holding, OwnerInv
    <2>3. QED
      BY <2>1, <2>2 DEF OwnerInv
  <1>4. ASSUME NEW r \in Resources, Request(r)
        PROVE  AuthorityInv' /\ OwnerInv' /\ TimerInv' /\ TopicInv'
    <2>1. CASE authority \in {"NONE", Active(r)} /\ AcceptTransition(Active(r), pending)
      BY <1>1, <2>1
    <2>2. CASE \E other \in Resources \ {r} :
                 authority = Active(other) /\ AcceptTransition(Stopping(other), Active(r))
      <3>1. PICK other \in Resources \ {r} :
              authority = Active(other) /\ AcceptTransition(Stopping(other), Active(r))
        BY <2>2
      <3>2. Active(r) \in {"NONE"} \cup {Active(o) : o \in Resources \ {other}}
        BY <3>1
      <3>3. QED
        BY <1>2, <3>1, <3>2
    <2>3. QED
      BY <1>3, <1>4, <2>1, <2>2, RequestEffect
  <1>5. CASE op = "RELEASE" /\ Release
    BY <1>2, <1>3, <1>5, ReleaseEffect
  <1>6. QED
    BY <1>4, <1>5

LEMMA RequestKeepsInv ==
    ASSUME InterlockInv, boot' \in BOOLEAN,
           NEW id \in RequestIds, NEW op \in Requests, OnRequest(id, op)
    PROVE  InterlockInv'
  <1> USE DEF InterlockInv
  <1>1. AuthorityInv' /\ OwnerInv' /\ TimerInv' /\ TopicInv'
    BY RequestKeepsOwner DEF OnRequest
  <1>2. ServedInv'
    BY RememberTyped DEF OnRequest
  <1>3. WorldInv'
    BY DEF OnRequest, WorldInv, world
  <1>4. QED
    BY <1>1, <1>2, <1>3

(* A removed message takes no knowledge away from the others.              *)
LEMMA FewerMessages ==
    ASSUME WorldInv, NEW m, feedback' = feedback \ {m}, UNCHANGED <<moving, movingFor>>
    PROVE  WorldInv'
  BY DEF WorldInv

LEMMA StoppedKeepsInv ==
    ASSUME InterlockInv, boot' \in BOOLEAN, NEW m \in feedback, OnStopped(m)
    PROVE  InterlockInv'
  <1> USE DEF InterlockInv
  <1>1. ServedInv' /\ WorldInv' /\ UNCHANGED <<tickAge, alarmed>>
    BY FewerMessages DEF OnStopped, ServedInv
  <1>2. m.resource \in Resources
    BY DEF WorldInv, Feedbacks
  <1>3. CASE m.age <= FeedbackTimeout /\ authority = Stopping(m.resource)
    <2>1. /\ AcceptTransition(pending, "NONE")
          /\ unconfirmed' = (unconfirmed \ {m.resource})
                             \cup {r \in Resources : pending = Active(r)}
      BY <1>3 DEF OnStopped
    <2>2. TimerInv' /\ TopicInv' /\ authority' = pending /\ pending' = "NONE"
      BY <1>1, <2>1, TransitionEffect DEF AuthorityInv
    <2>3. AuthorityInv'
      BY <2>2 DEF AuthorityInv, PendingOnlyInHandover
    <2>4. OwnerInv'
      BY <1>1, <1>2, <1>3, <2>1, <2>2 DEF OwnerInv, AuthorityInv, PendingOnlyInHandover
    <2>5. QED
      BY <1>1, <2>2, <2>3, <2>4
  <1>4. CASE ~(m.age <= FeedbackTimeout /\ authority = Stopping(m.resource))
    <2>1. Reject /\ UNCHANGED unconfirmed
      BY <1>4 DEF OnStopped
    <2>2. TimerInv' /\ TopicInv' /\ UNCHANGED <<authority, pending>>
      BY <1>1, <2>1, RejectEffect
    <2>3. AuthorityInv' /\ OwnerInv'
      BY <1>1, <2>1, <2>2 DEF AuthorityInv, PendingOnlyInHandover, OwnerInv
    <2>4. QED
      BY <1>1, <2>2, <2>3
  <1>5. QED
    BY <1>3, <1>4

LEMMA TickKeepsInv ==
    ASSUME InterlockInv, boot' \in BOOLEAN, Tick
    PROVE  InterlockInv'
  <1> USE DEF InterlockInv
  <1>1. ServedInv' /\ WorldInv' /\ tickAge' = 0 /\ UNCHANGED unconfirmed
    BY DEF Tick, ServedInv, WorldInv, world
  <1>2. CASE started /\ startedAge > TransitionTimeout
    <2>1. AcceptTransition("NONE", "NONE") /\ alarmed'
      BY <1>2, Zenon DEF Tick
    <2>2. alarmed' \in BOOLEAN
      BY <1>2, Zenon DEF Tick
    <2>3. TimerInv' /\ TopicInv' /\ authority' = "NONE" /\ pending' = "NONE"
      BY <1>1, <2>1, TransitionEffect
    <2>4. AuthorityInv' /\ OwnerInv'
      BY <1>1, <2>1, <2>2, <2>3 DEF AuthorityInv, PendingOnlyInHandover, OwnerInv
    <2>5. QED
      BY <1>1, <2>3, <2>4
  <1>3. CASE ~(started /\ startedAge > TransitionTimeout)
    <2>1. Reject /\ UNCHANGED alarmed
      BY <1>3 DEF Tick
    <2>2. UNCHANGED <<authority, pending, started, startedAge, topic, stoppingFor>>
      BY <2>1 DEF Reject, core
    <2>3. stoppingFor' <= TransitionTimeout + tickAge'
      BY <1>1, <1>3, <2>2, InterlockConstants DEF TimerInv
    <2>4. TimerInv'
      BY <1>1, <2>2, <2>3, InterlockConstants DEF TimerInv
    <2>5. AuthorityInv' /\ OwnerInv' /\ TopicInv'
      BY <1>1, <2>1, <2>2 DEF AuthorityInv, PendingOnlyInHandover, OwnerInv, TopicInv
    <2>6. QED
      BY <1>1, <2>4, <2>5
  <1>4. QED
    BY <1>2, <1>3

(* The robot and its monitors leave the node as it is.                     *)
LEMMA WorldKeepsNode ==
    ASSUME InterlockInv, boot' \in BOOLEAN, WorldInv',
           UNCHANGED <<authority, pending, started, startedAge, topic, tickAge, served,
                       unconfirmed, alarmed, stoppingFor>>
    PROVE  InterlockInv'
  BY DEF InterlockInv, AuthorityInv, PendingOnlyInHandover, TimerInv, OwnerInv, TopicInv, ServedInv

LEMMA AdvanceKeepsInv ==
    ASSUME InterlockInv, boot' \in BOOLEAN, Advance
    PROVE  InterlockInv'
  <1> USE DEF InterlockInv
  <1>1. UNCHANGED <<authority, pending, started, served, topic, moving, unconfirmed, alarmed>>
    BY DEF Advance
  <1>2. AuthorityInv' /\ OwnerInv' /\ TopicInv' /\ ServedInv'
    BY <1>1 DEF AuthorityInv, PendingOnlyInHandover, OwnerInv, TopicInv, ServedInv
  <1>3. TimerInv'
    <2>1. tickAge < TickPeriod /\ tickAge' = tickAge + 1
      BY DEF Advance
    <2>2. CASE started
      <3>1. stoppingFor' = stoppingFor + 1 /\ startedAge' = startedAge + 1
        BY <2>1, <2>2, InterlockConstants DEF Advance, Older, TimerInv
      <3>2. QED
        BY <1>1, <2>1, <2>2, <3>1, InterlockConstants DEF TimerInv
    <2>3. CASE ~started
      <3>1. stoppingFor' = 0 /\ startedAge' = 0
        BY <2>3 DEF Advance, TimerInv
      <3>2. QED
        BY <1>1, <2>1, <2>3, <3>1, InterlockConstants DEF TimerInv
    <2>4. QED
      BY <2>2, <2>3 DEF TimerInv
  <1>4. WorldInv'
    <2>1. movingFor' = [r \in Resources |->
                          IF r \in moving
                          THEN Older(movingFor[r], FeedbackTimeout + MonitorLag) ELSE 0]
      BY DEF Advance
    <2>2. movingFor' \in [Resources -> Nat]
      BY <2>1, InterlockConstants DEF Older, WorldInv
    <2>3. \A r \in Resources : r \notin moving' => movingFor'[r] = 0
      BY <1>1, <2>1
    <2>4. ASSUME NEW n \in feedback'
          PROVE  /\ n \in Feedbacks
                 /\ n.age <= FeedbackTimeout => movingFor'[n.resource] <= n.age + MonitorLag
      <3>1. PICK m \in feedback : n = [m EXCEPT !.age = Older(m.age, FeedbackTimeout)]
        BY <2>4 DEF Advance
      <3>2. m \in Feedbacks /\ m.resource \in Resources /\ m.age \in Nat
        BY DEF WorldInv, Feedbacks
      <3>3. n.resource = m.resource /\ n.age = Older(m.age, FeedbackTimeout) /\ n \in Feedbacks
        BY <3>1, <3>2, InterlockConstants DEF Feedbacks, Older
      <3>4. CASE m.age <= FeedbackTimeout
        <4>1. movingFor[m.resource] \in Nat /\ movingFor[m.resource] <= m.age + MonitorLag
          BY <3>2, <3>4 DEF WorldInv
        <4>2. movingFor'[m.resource] <= m.age + 1 + MonitorLag
          BY <2>1, <3>2, <4>1, InterlockConstants DEF Older
        <4>3. QED
          BY <3>2, <3>3, <3>4, <4>2 DEF Older
      <3>5. CASE ~(m.age <= FeedbackTimeout)
        BY <3>2, <3>3, <3>5, InterlockConstants DEF Older
      <3>6. QED
        BY <3>4, <3>5
    <2>5. QED
      BY <1>1, <2>2, <2>3, <2>4 DEF WorldInv
  <1>5. QED
    BY <1>2, <1>3, <1>4

LEMMA SurroundingsKeepInv ==
    ASSUME InterlockInv, boot' \in BOOLEAN, Surroundings
    PROVE  InterlockInv'
  <1>1. WorldInv
    BY DEF InterlockInv
  <1>2. ASSUME NEW r \in Resources, StartMoving(r)
        PROVE  InterlockInv'
    <2>1. WorldInv'
      BY <1>1, <1>2 DEF StartMoving, WorldInv
    <2>2. QED
      BY <1>2, <2>1, WorldKeepsNode DEF StartMoving, core, history
  <1>3. ASSUME NEW r \in Resources, ComeToRest(r)
        PROVE  InterlockInv'
    <2>1. WorldInv'
      BY <1>1, <1>3, InterlockConstants DEF ComeToRest, WorldInv, Feedbacks
    <2>2. QED
      BY <1>3, <2>1, WorldKeepsNode DEF ComeToRest, core, history
  <1>4. ASSUME NEW r \in Resources, ReportStopped(r)
        PROVE  InterlockInv'
    <2>1. [resource |-> r, age |-> 0] \in Feedbacks
      BY DEF Feedbacks
    <2>2. movingFor[r] <= 0 + MonitorLag
      BY <1>1, <1>4, InterlockConstants DEF ReportStopped, WorldInv
    <2>3. WorldInv'
      BY <1>1, <1>4, <2>1, <2>2 DEF ReportStopped, WorldInv
    <2>4. QED
      BY <1>4, <2>3, WorldKeepsNode DEF ReportStopped, core, history
  <1>5. ASSUME NEW m \in feedback, LoseFeedback(m)
        PROVE  InterlockInv'
    <2>1. WorldInv'
      BY <1>1, <1>5, FewerMessages DEF LoseFeedback
    <2>2. QED
      BY <1>5, <2>1, WorldKeepsNode DEF LoseFeedback, core, history
  <1>6. QED
    BY <1>2, <1>3, <1>4, <1>5, AdvanceKeepsInv DEF Surroundings

LEMMA RestartKeepsInv ==
    ASSUME InterlockInv, Restart
    PROVE  InterlockInv'
  <1> USE DEF InterlockInv
  <1>1. tickAge' = 0 /\ AcceptTransition("NONE", "NONE") /\ unconfirmed' = {}
        /\ served' = <<>> /\ UNCHANGED world
    BY DEF Restart
  <1>2. alarmed' \in BOOLEAN /\ boot' \in BOOLEAN
    BY Zenon DEF Restart
  <1>3. TimerInv' /\ TopicInv' /\ authority' = "NONE" /\ pending' = "NONE"
    BY <1>1, TransitionEffect
  <1>4. AuthorityInv' /\ OwnerInv'
    BY <1>1, <1>2, <1>3 DEF AuthorityInv, PendingOnlyInHandover, OwnerInv
  <1>5. ServedInv' /\ WorldInv'
    BY <1>1, InterlockConstants DEF ServedInv, WorldInv, world
  <1>6. QED
    BY <1>2, <1>3, <1>4, <1>5

(* The invariant is inductive.                                             *)
LEMMA StepKeepsInv == InterlockInv /\ [Next]_vars => InterlockInv'
  <1> SUFFICES ASSUME InterlockInv, [Next]_vars
               PROVE  InterlockInv'
    OBVIOUS
  <1>1. CASE Serve /\ UNCHANGED boot
    <2>1. boot' \in BOOLEAN
      BY <1>1 DEF InterlockInv
    <2>2. QED
      BY <1>1, <2>1, RequestKeepsInv, StoppedKeepsInv, TickKeepsInv DEF Serve
  <1>2. CASE Surroundings /\ UNCHANGED boot
    <2>1. boot' \in BOOLEAN
      BY <1>2 DEF InterlockInv
    <2>2. QED
      BY <1>2, <2>1, SurroundingsKeepInv
  <1>3. CASE Restart
    BY <1>3, RestartKeepsInv
  <1>4. CASE UNCHANGED vars
    <2>1. WorldInv'
      BY <1>4 DEF vars, InterlockInv, WorldInv
    <2>2. boot' \in BOOLEAN
      BY <1>4 DEF vars, InterlockInv
    <2>3. QED
      BY <1>4, <2>1, <2>2, WorldKeepsNode DEF vars
  <1>5. QED
    BY <1>1, <1>2, <1>3, <1>4 DEF Next

(* Every reachable state satisfies the invariant.                          *)
THEOREM InterlockInvariant == Spec => []InterlockInv
  BY InitEstablishesInv, StepKeepsInv, PTL DEF Spec

(* The variables keep their types: the published authority is the present  *)
(* one and the response cache never outgrows its limit.                    *)
THEOREM TypeCorrect == Spec => []TypeOK
  <1>1. InterlockInv => TypeOK
    BY DEF InterlockInv, AuthorityInv, TimerInv, OwnerInv, TopicInv, ServedInv, WorldInv, TypeOK
  <1>2. QED
    BY <1>1, InterlockInvariant, PTL

(* Authority passes to a resource only after the other one was confirmed   *)
(* stopped, or with a safety fault raised.                                 *)
THEOREM HandoverIsConfirmed == Spec => []HandoverConfirmed
  <1>1. InterlockInv => HandoverConfirmed
    BY DEF InterlockInv, OwnerInv, HandoverConfirmed
  <1>2. QED
    BY <1>1, InterlockInvariant, PTL

(* No order of requests and callbacks keeps the node in a stopping state   *)
(* for longer than the transition timeout and one timer period.            *)
THEOREM StoppingIsBounded == Spec => []StoppingBounded
  <1>1. ASSUME NEW age \in 0..TickPeriod, NEW for \in Nat, for <= TransitionTimeout + age
        PROVE  for <= TransitionTimeout + TickPeriod
    BY <1>1, InterlockConstants
  <1>2. InterlockInv => StoppingBounded
    BY <1>1 DEF InterlockInv, TimerInv, StoppingBounded
  <1>3. QED
    BY <1>2, InterlockInvariant, PTL

(* A pending authority exists only while the other resource is stopping.   *)
THEOREM PendingIsHandover == Spec => []PendingOnlyInHandover
  <1>1. InterlockInv => PendingOnlyInHandover
    BY DEF InterlockInv, AuthorityInv
  <1>2. QED
    BY <1>1, InterlockInvariant, PTL

-----------------------------------------------------------------------------
(* Steps.  Authority leaves a stopping state only by fresh stop feedback   *)
(* of its resource, by the timeout or with the process.                    *)
LEMMA RequestStaysStopping ==
    ASSUME AuthorityInv, NEW id \in RequestIds, NEW op \in Requests, OnRequest(id, op),
           authority \in StoppingStates
    PROVE  authority' = authority
  <1>1. ASSUME NEW r \in Resources, Request(r)
        PROVE  authority' = authority
    BY <1>1, RequestEffect DEF Reject, core, AuthorityInv
  <1>2. ASSUME Release
        PROVE  authority' = authority
    BY <1>2, ReleaseEffect DEF Reject, core, AuthorityInv
  <1>3. QED
    BY <1>1, <1>2 DEF OnRequest

(* A handover completes only on feedback that proves a recent stop.        *)
THEOREM HandoverIsFresh == Spec => HandoverFresh
  <1> DEFINE Fresh ==
        \A r \in Resources :
          (authority = Stopping(r) /\ authority' \in {Active(o) : o \in Resources \ {r}})
            => movingFor[r] <= FeedbackTimeout + MonitorLag
  <1>1. InterlockInv /\ [Next]_vars => [Fresh]_vars
    <2> SUFFICES ASSUME InterlockInv, Next, NEW r \in Resources, authority = Stopping(r),
                        authority' \in {Active(o) : o \in Resources \ {r}}
                 PROVE  movingFor[r] <= FeedbackTimeout + MonitorLag
      OBVIOUS
    <2>1. authority' # authority /\ authority' # "NONE"
      OBVIOUS
    <2>2. ASSUME NEW id \in RequestIds, NEW op \in Requests, OnRequest(id, op)
          PROVE  FALSE
      BY <2>1, <2>2, RequestStaysStopping DEF InterlockInv
    <2>3. ASSUME NEW m \in feedback, OnStopped(m)
          PROVE  movingFor[r] <= FeedbackTimeout + MonitorLag
      <3>1. m.age <= FeedbackTimeout /\ authority = Stopping(m.resource)
        BY <2>1, <2>3 DEF OnStopped, Reject, core
      <3>2. m.resource \in Resources /\ m.age \in Nat
        BY DEF InterlockInv, WorldInv, Feedbacks
      <3>3. m.resource = r
        BY <3>1, <3>2
      <3>4. movingFor[r] \in Nat /\ movingFor[r] <= m.age + MonitorLag
        BY <3>1, <3>3 DEF InterlockInv, WorldInv
      <3>5. QED
        BY <3>1, <3>2, <3>4, InterlockConstants
    <2>4. Tick \/ Surroundings \/ Restart => authority' \in {authority, "NONE"}
      BY DEF Tick, Reject, AcceptTransition, Surroundings, StartMoving, ComeToRest,
             ReportStopped, LoseFeedback, Advance, Restart, core
    <2>5. QED
      BY <2>1, <2>2, <2>3, <2>4 DEF Next, Serve
  <1>2. QED
    BY <1>1, InterlockInvariant, PTL DEF Spec, HandoverFresh

-----------------------------------------------------------------------------
(* The node implements ExclusiveAuthority.                                 *)
AbstractVars == <<Holder, unconfirmed, alarmed, boot>>

USE DEF Holder

LEMMA RequestImplements ==
    ASSUME InterlockInv, UNCHANGED boot,
           NEW id \in RequestIds, NEW op \in Requests, OnRequest(id, op)
    PROVE  Exclusive!Next \/ UNCHANGED AbstractVars
  <1>1. UNCHANGED alarmed /\ unconfirmed' = Holding(authority')
    BY DEF OnRequest
  <1>2. AuthorityInv /\ OwnerInv /\ authority \in Authorities
    BY DEF InterlockInv, AuthorityInv
  <1>3. ASSUME NEW r \in Resources, authority \in {"NONE", Active(r)}, authority' = Active(r)
        PROVE  Exclusive!Next \/ UNCHANGED AbstractVars
    <2>1. unconfirmed' = unconfirmed \cup {r}
      BY <1>1, <1>3 DEF Holding
    <2>2. CASE authority = "NONE"
      <3>1. Exclusive!Grant(r)
        BY <1>1, <1>2, <1>3, <2>1, <2>2 DEF Exclusive!Grant, OwnerInv
      <3>2. QED
        BY <3>1 DEF Exclusive!Next, Exclusive!Manage
    <2>3. CASE authority = Active(r)
      <3>1. unconfirmed' = unconfirmed
        BY <1>2, <2>1, <2>3 DEF OwnerInv
      <3>2. QED
        BY <1>1, <1>3, <2>3, <3>1 DEF AbstractVars
    <2>4. QED
      BY <1>3, <2>2, <2>3
  <1>4. ASSUME NEW r \in Resources, authority' = Stopping(r)
        PROVE  Exclusive!Next \/ UNCHANGED AbstractVars
    <2>1. unconfirmed' = unconfirmed
      BY <1>1, <1>2, <1>4 DEF Holding, OwnerInv
    <2>2. Exclusive!Withdraw
      BY <1>1, <1>4, <2>1 DEF Exclusive!Withdraw
    <2>3. QED
      BY <2>2 DEF Exclusive!Next, Exclusive!Manage
  <1>5. ASSUME UNCHANGED authority
        PROVE  UNCHANGED AbstractVars
    BY <1>1, <1>2, <1>5 DEF Holding, OwnerInv, AbstractVars
  <1>6. ASSUME NEW r \in Resources, Request(r)
        PROVE  Exclusive!Next \/ UNCHANGED AbstractVars
    <2>1. CASE authority \in {"NONE", Active(r)} /\ AcceptTransition(Active(r), pending)
      BY <1>3, <2>1 DEF AcceptTransition
    <2>2. CASE \E other \in Resources \ {r} :
                 authority = Active(other) /\ AcceptTransition(Stopping(other), Active(r))
      BY <1>4, <2>2 DEF AcceptTransition
    <2>3. CASE Reject
      BY <1>5, <2>3 DEF Reject, core
    <2>4. QED
      BY <1>2, <1>6, <2>1, <2>2, <2>3, RequestEffect
  <1>7. ASSUME Release
        PROVE  Exclusive!Next \/ UNCHANGED AbstractVars
    BY <1>2, <1>4, <1>5, <1>7, ReleaseEffect DEF AcceptTransition, Reject, core
  <1>8. QED
    BY <1>6, <1>7 DEF OnRequest

LEMMA StoppedImplements ==
    ASSUME InterlockInv, UNCHANGED boot, NEW m \in feedback, OnStopped(m)
    PROVE  Exclusive!Next \/ UNCHANGED AbstractVars
  <1>1. UNCHANGED alarmed
    BY DEF OnStopped
  <1>2. m.resource \in Resources
    BY DEF InterlockInv, WorldInv, Feedbacks
  <1>3. CASE m.age <= FeedbackTimeout /\ authority = Stopping(m.resource)
    <2>1. /\ authority' = pending
          /\ unconfirmed' = (unconfirmed \ {m.resource})
                             \cup {r \in Resources : pending = Active(r)}
      BY <1>3 DEF OnStopped, AcceptTransition
    <2>2. pending = "NONE" \/ \E next \in Resources \ {m.resource} : pending = Active(next)
      BY <1>2, <1>3 DEF InterlockInv, AuthorityInv, PendingOnlyInHandover
    <2>3. Holder = "NONE" /\ (unconfirmed \subseteq {m.resource} \/ alarmed)
      BY <1>2, <1>3 DEF InterlockInv, OwnerInv
    <2>4. CASE pending = "NONE"
      <3>1. Holder' = "NONE" /\ unconfirmed' = unconfirmed \ {m.resource}
        BY <2>1, <2>4
      <3>2. Exclusive!Confirm(m.resource)
        BY <1>1, <2>3, <3>1 DEF Exclusive!Confirm
      <3>3. QED
        BY <1>2, <3>2 DEF Exclusive!Next, Exclusive!Manage
    <2>5. ASSUME NEW next \in Resources \ {m.resource}, pending = Active(next)
          PROVE  Exclusive!Next
      <3>1. Holder' = next /\ unconfirmed' = (unconfirmed \ {m.resource}) \cup {next}
        BY <2>1, <2>5
      <3>2. unconfirmed \ {m.resource} \subseteq {next} \/ alarmed
        BY <2>3
      <3>3. Exclusive!Confirm(m.resource)
        BY <1>1, <2>3, <3>1, <3>2 DEF Exclusive!Confirm
      <3>4. QED
        BY <1>2, <3>3 DEF Exclusive!Next, Exclusive!Manage
    <2>6. QED
      BY <2>2, <2>4, <2>5
  <1>4. CASE ~(m.age <= FeedbackTimeout /\ authority = Stopping(m.resource))
    BY <1>1, <1>4 DEF OnStopped, Reject, core, AbstractVars
  <1>5. QED
    BY <1>3, <1>4

LEMMA TickImplements ==
    ASSUME UNCHANGED boot, Tick
    PROVE  Exclusive!Next \/ UNCHANGED AbstractVars
  <1>1. UNCHANGED unconfirmed
    BY DEF Tick
  <1>2. CASE started /\ startedAge > TransitionTimeout
    <2>1. authority' = "NONE"
      BY <1>2 DEF Tick, AcceptTransition
    <2>2. alarmed' = TRUE
      BY <1>2, Zenon DEF Tick
    <2>3. Holder' = "NONE"
      BY <2>1
    <2>4. Exclusive!Alarm
      BY <1>1, <2>2, <2>3, Zenon DEF Exclusive!Alarm
    <2>5. QED
      BY <2>4 DEF Exclusive!Next, Exclusive!Manage
  <1>3. CASE ~(started /\ startedAge > TransitionTimeout)
    BY <1>1, <1>3 DEF Tick, Reject, core, AbstractVars
  <1>4. QED
    BY <1>2, <1>3

LEMMA RestartImplements ==
    ASSUME Restart
    PROVE  Exclusive!Next
  <1>1. authority' = "NONE"
    BY DEF Restart, AcceptTransition
  <1>2. Holder' = "NONE"
    BY <1>1
  <1>3. Exclusive!Forget
    BY <1>2, Zenon DEF Restart, Exclusive!Forget
  <1>4. QED
    BY <1>3 DEF Exclusive!Next

(* Every behaviour of the node is one of the exclusive authority.          *)
THEOREM ExclusiveRefinement == Spec => ImplementsExclusive
  <1>1. Init => Exclusive!Init
    <2> SUFFICES ASSUME Init
                 PROVE  Exclusive!Init
      OBVIOUS
    <2>1. Holder = "NONE"
      BY DEF Init
    <2>2. QED
      BY <2>1, Zenon DEF Init, Exclusive!Init
  <1>2. InterlockInv /\ [Next]_vars => [Exclusive!Next]_AbstractVars
    <2> SUFFICES ASSUME InterlockInv, [Next]_vars
                 PROVE  Exclusive!Next \/ UNCHANGED AbstractVars
      OBVIOUS
    <2>1. CASE Serve /\ UNCHANGED boot
      BY <2>1, RequestImplements, StoppedImplements, TickImplements DEF Serve
    <2>2. CASE Surroundings /\ UNCHANGED boot
      BY <2>2 DEF Surroundings, StartMoving, ComeToRest, ReportStopped, LoseFeedback, Advance,
                  core, history, AbstractVars
    <2>3. CASE Restart
      BY <2>3, RestartImplements
    <2>4. CASE UNCHANGED vars
      BY <2>4 DEF vars, AbstractVars
    <2>5. QED
      BY <2>1, <2>2, <2>3, <2>4 DEF Next
  <1>3. QED
    BY <1>1, <1>2, InterlockInvariant, PTL
    DEF Spec, ImplementsExclusive, Exclusive!Spec, AbstractVars
=============================================================================
