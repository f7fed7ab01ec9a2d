--------------------------- MODULE MotionInterlock ---------------------------
(***************************************************************************)
(* The motion_interlock_manager node: base and arm authority, the handover *)
(* through a stopping state that waits for stop feedback, the transition   *)
(* timeout with its safety fault, and the bounded idempotency cache.       *)
(*                                                                         *)
(* The node's surroundings are part of the state, because what a handover  *)
(* means is about them: which resource is really moving, for how long, and *)
(* which MotionStopped messages are on their way.  A resource may start to *)
(* move only while it holds the authority the safety gate checks.          *)
(*                                                                         *)
(* owner_, reason and detail texts are left out.                           *)
(***************************************************************************)
EXTENDS Integers, Sequences, FiniteSets

CONSTANTS
    RequestIds,         \* non-empty request ids clients may send, and resend
    CacheLimit,         \* responses remembered (128 in the code)
    FeedbackTimeout,    \* stopped_feedback_timeout_ms
    TransitionTimeout,  \* transition_timeout_ms
    TickPeriod,         \* period of the node's timer (50 ms)
    MonitorLag,         \* how old the sample behind a stop report may be
    MaxInFlight         \* bound: MotionStopped messages on their way at once

ASSUME InterlockConstants ==
    /\ CacheLimit \in Nat \ {0}
    /\ FeedbackTimeout \in Nat
    /\ TransitionTimeout \in Nat
    /\ TickPeriod \in Nat \ {0}
    /\ MonitorLag \in Nat
    /\ MaxInFlight \in Nat

Resources == {"BASE", "ARM"}

Authorities == {"NONE", "BASE_ACTIVE", "BASE_STOPPING", "ARM_ACTIVE", "ARM_STOPPING"}

Active(r) == IF r = "BASE" THEN "BASE_ACTIVE" ELSE "ARM_ACTIVE"
Stopping(r) == IF r = "BASE" THEN "BASE_STOPPING" ELSE "ARM_STOPPING"
StoppingStates == {Stopping(r) : r \in Resources}

Requests == {"REQUEST_BASE", "REQUEST_ARM", "RELEASE"}

VARIABLES
    authority,    \* interlock_.state()
    pending,      \* interlock_.pending()
    started,      \* whether transition_started_ is set
    startedAge,   \* time since transition_started_
    tickAge,      \* time since the timer last ran
    served,       \* request_order_: the ids remembered, oldest first
    topic,        \* the sample /motion/authority holds
    feedback,     \* MotionStopped(stopped = true) on its way: [resource, age]
    moving,       \* resources really in motion, beyond the monitor's thresholds
    movingFor,    \* time since each resource was last at rest
    unconfirmed,  \* history: held authority, no stop accepted since
    alarmed,      \* history: a HEALTH_FAULT was published
    stoppingFor,  \* history: time spent in the present stopping state
    boot          \* which run of the process this is, as a bit

core == <<authority, pending, started, startedAge, topic>>
world == <<feedback, moving, movingFor>>
history == <<unconfirmed, alarmed, stoppingFor>>
vars == <<authority, pending, started, startedAge, tickAge, served, topic, feedback,
          moving, movingFor, unconfirmed, alarmed, stoppingFor, boot>>

ServedIds == {served[i] : i \in DOMAIN served}

-----------------------------------------------------------------------------
(* Accepting a transition to authority "to" with pending "next".           *)

\* Wrong variant: the transition timer is never armed.
AcceptTransitionUntimed(to, next) ==
    /\ authority' = to
    /\ pending' = next
    /\ topic' = [authority |-> to, pending |-> next]
    /\ started' = FALSE
    /\ startedAge' = 0
    /\ stoppingFor' = 0

AcceptTransition(to, next) ==
    /\ authority' = to
    /\ pending' = next
    /\ topic' = [authority |-> to, pending |-> next]
    /\ started' = (to \in StoppingStates)
    /\ startedAge' = 0
    /\ stoppingFor' = 0

Reject == UNCHANGED <<core, stoppingFor>>

Holding(to) == unconfirmed \cup {r \in Resources : to = Active(r)}

-----------------------------------------------------------------------------
(* The /motion/authority/request service.                                  *)

Release ==
    IF \E r \in Resources : authority = Active(r)
    THEN \E r \in Resources :
           authority = Active(r) /\ AcceptTransition(Stopping(r), "NONE")
    ELSE Reject

\* Wrong variant: an active resource is replaced without waiting for its stop.
RequestWithoutStopping(r) ==
    IF authority \in StoppingStates THEN Reject ELSE AcceptTransition(Active(r), "NONE")

\* Wrong variant: a request refused during a handover restarts its timer.
RequestRearming(r) ==
    CASE authority \in {"NONE", Active(r)} -> AcceptTransition(Active(r), pending)
      [] \E other \in Resources \ {r} : authority = Active(other) ->
           \E other \in Resources \ {r} : AcceptTransition(Stopping(other), Active(r))
      [] OTHER ->
           startedAge' = 0 /\ UNCHANGED <<authority, pending, started, topic, stoppingFor>>

Request(r) ==
    CASE authority \in {"NONE", Active(r)} -> AcceptTransition(Active(r), pending)
      [] \E other \in Resources \ {r} : authority = Active(other) ->
           \E other \in Resources \ {r} : AcceptTransition(Stopping(other), Active(r))
      [] OTHER -> Reject

Remember(id) ==
    served' = IF Len(served) < CacheLimit THEN Append(served, id) ELSE Append(Tail(served), id)

\* A remembered id is answered from the cache: a stuttering step.
OnRequest(id, op) ==
    /\ id \notin ServedIds
    /\ \/ op = "REQUEST_BASE" /\ Request("BASE")
       \/ op = "REQUEST_ARM" /\ Request("ARM")
       \/ op = "RELEASE" /\ Release
    /\ Remember(id)
    /\ unconfirmed' = Holding(authority')
    /\ UNCHANGED <<tickAge, world, alarmed>>

-----------------------------------------------------------------------------
(* Stop feedback and the transition timeout.                               *)

\* Wrong variant: the age of the feedback is not checked.
OnStoppedAnyAge(m) ==
    /\ m \in feedback
    /\ feedback' = feedback \ {m}
    /\ IF authority = Stopping(m.resource)
       THEN /\ AcceptTransition(pending, "NONE")
            /\ unconfirmed' = (unconfirmed \ {m.resource})
                               \cup {r \in Resources : pending = Active(r)}
       ELSE Reject /\ UNCHANGED unconfirmed
    /\ UNCHANGED <<tickAge, served, moving, movingFor, alarmed>>

\* Wrong variant: the pending authority is applied and kept.
OnStoppedKeepsPending(m) ==
    /\ m \in feedback
    /\ feedback' = feedback \ {m}
    /\ IF m.age <= FeedbackTimeout /\ authority = Stopping(m.resource)
       THEN /\ AcceptTransition(pending, pending)
            /\ unconfirmed' = (unconfirmed \ {m.resource})
                               \cup {r \in Resources : pending = Active(r)}
       ELSE Reject /\ UNCHANGED unconfirmed
    /\ UNCHANGED <<tickAge, served, moving, movingFor, alarmed>>

\* Stale feedback is dropped, and so is a stop nobody waits for.
OnStopped(m) ==
    /\ m \in feedback
    /\ feedback' = feedback \ {m}
    /\ IF m.age <= FeedbackTimeout /\ authority = Stopping(m.resource)
       THEN /\ AcceptTransition(pending, "NONE")
            /\ unconfirmed' = (unconfirmed \ {m.resource})
                               \cup {r \in Resources : pending = Active(r)}
       ELSE Reject /\ UNCHANGED unconfirmed
    /\ UNCHANGED <<tickAge, served, moving, movingFor, alarmed>>

\* Wrong variant: an abandoned handover raises no safety fault.
TickSilent ==
    /\ tickAge' = 0
    /\ IF started /\ startedAge > TransitionTimeout
       THEN AcceptTransition("NONE", "NONE") /\ UNCHANGED alarmed
       ELSE Reject /\ UNCHANGED alarmed
    /\ UNCHANGED <<served, world, unconfirmed>>

Tick ==
    /\ tickAge' = 0
    /\ IF started /\ startedAge > TransitionTimeout
       THEN AcceptTransition("NONE", "NONE") /\ alarmed' = TRUE
       ELSE Reject /\ UNCHANGED alarmed
    /\ UNCHANGED <<served, world, unconfirmed>>

-----------------------------------------------------------------------------
(* The robot and the stop monitors.                                        *)

StartMoving(r) ==
    /\ authority = Active(r) /\ r \notin moving
    /\ moving' = moving \cup {r}
    /\ UNCHANGED <<core, tickAge, served, feedback, movingFor, history>>

ComeToRest(r) ==
    /\ r \in moving
    /\ moving' = moving \ {r}
    /\ movingFor' = [movingFor EXCEPT ![r] = 0]
    /\ UNCHANGED <<core, tickAge, served, feedback, history>>

\* A monitor's verdict is stamped with the present and rests on a sample that may
\* be MonitorLag old (odometry_timeout_ms, 500 ms, for the base): the resource was
\* at rest then, and may have started again since.
ReportStopped(r) ==
    /\ movingFor[r] <= MonitorLag
    /\ Cardinality(feedback) < MaxInFlight
    /\ feedback' = feedback \cup {[resource |-> r, age |-> 0]}
    /\ UNCHANGED <<core, tickAge, served, moving, movingFor, history>>

LoseFeedback(m) ==
    /\ m \in feedback
    /\ feedback' = feedback \ {m}
    /\ UNCHANGED <<core, tickAge, served, moving, movingFor, history>>

Older(age, limit) == IF age <= limit THEN age + 1 ELSE age

\* The timer is served at least once per TickPeriod.  Ages stop growing one
\* unit after the last value a guard tells apart.
Advance ==
    /\ tickAge < TickPeriod
    /\ tickAge' = tickAge + 1
    /\ startedAge' = IF started THEN Older(startedAge, TransitionTimeout + TickPeriod) ELSE 0
    /\ stoppingFor' = IF authority \in StoppingStates
                      THEN Older(stoppingFor, TransitionTimeout + TickPeriod) ELSE 0
    /\ feedback' = {[m EXCEPT !.age = Older(m.age, FeedbackTimeout)] : m \in feedback}
    /\ movingFor' = [r \in Resources |->
                       IF r \in moving
                       THEN Older(movingFor[r], FeedbackTimeout + MonitorLag) ELSE 0]
    /\ UNCHANGED <<authority, pending, started, served, topic, moving, unconfirmed, alarmed>>

\* A restarted manager holds nothing and remembers nothing.
Restart ==
    /\ AcceptTransition("NONE", "NONE")
    /\ tickAge' = 0
    /\ served' = <<>>
    /\ unconfirmed' = {} /\ alarmed' = FALSE
    /\ boot' = ~boot
    /\ UNCHANGED world

Init ==
    /\ authority = "NONE" /\ pending = "NONE"
    /\ started = FALSE /\ startedAge = 0 /\ tickAge = 0
    /\ served = <<>>
    /\ topic = [authority |-> "NONE", pending |-> "NONE"]
    /\ feedback = {} /\ moving = {} /\ movingFor = [r \in Resources |-> 0]
    /\ unconfirmed = {} /\ alarmed = FALSE /\ stoppingFor = 0
    /\ boot = FALSE

Serve ==
    \/ \E id \in RequestIds, op \in Requests : OnRequest(id, op)
    \/ \E m \in feedback : OnStopped(m)
    \/ Tick

Surroundings ==
    \/ \E r \in Resources : StartMoving(r)
    \/ \E r \in Resources : ComeToRest(r)
    \/ \E r \in Resources : ReportStopped(r)
    \/ \E m \in feedback : LoseFeedback(m)
    \/ Advance

Next ==
    \/ Serve /\ UNCHANGED boot
    \/ Surroundings /\ UNCHANGED boot
    \/ Restart

Spec == Init /\ [][Next]_vars

\* The executor keeps serving the timer, and time keeps passing.
FairSpec == Spec /\ WF_vars(Tick /\ UNCHANGED boot) /\ WF_vars(Advance /\ UNCHANGED boot)

-----------------------------------------------------------------------------
(* Properties.                                                             *)

Feedbacks == [resource : Resources, age : Nat]

\* Types of every variable.
TypeOK ==
    /\ authority \in Authorities
    /\ pending \in {"NONE", "BASE_ACTIVE", "ARM_ACTIVE"}
    /\ started \in BOOLEAN /\ startedAge \in Nat /\ tickAge \in 0..TickPeriod
    /\ served \in Seq(RequestIds) /\ Len(served) <= CacheLimit
    /\ topic = [authority |-> authority, pending |-> pending]
    /\ feedback \subseteq Feedbacks
    /\ moving \subseteq Resources /\ movingFor \in [Resources -> Nat]
    /\ unconfirmed \subseteq Resources /\ alarmed \in BOOLEAN /\ stoppingFor \in Nat
    /\ boot \in BOOLEAN

\* A resource holds authority only when the other one, if it ever held it, has
\* been confirmed stopped since, or a safety fault has been raised.
HandoverConfirmed ==
    \A r \in Resources :
        authority = Active(r) => unconfirmed \subseteq {r} \/ alarmed

\* A stopping state is left within the transition timeout and one timer period,
\* whatever is requested meanwhile.
StoppingBounded == stoppingFor <= TransitionTimeout + TickPeriod

\* The pending authority exists only during a handover, and it is never the
\* authority that is being given up.
PendingOnlyInHandover ==
    \A r \in Resources : pending = Active(r) =>
        \E other \in Resources \ {r} : authority = Stopping(other)

\* A handover to the other resource completes only if the first one was at rest
\* no longer ago than the age a stamp may have plus the age of the sample behind it,
\* whatever moved, was reported, delayed and reordered in between.
HandoverFresh ==
    [][\A r \in Resources :
         (authority = Stopping(r) /\ authority' \in {Active(o) : o \in Resources \ {r}})
           => movingFor[r] <= FeedbackTimeout + MonitorLag]_vars

\* "base must stop before arm authority is granted": a handover completes only
\* while the resource that gives up authority is at rest.
StoppedBeforeHandover ==
    [][\A r \in Resources :
         (authority = Stopping(r) /\ authority' \in {Active(o) : o \in Resources \ {r}})
           => r \notin moving]_vars

\* A requested handover comes to an end: the resource gets its authority, or the
\* timeout leaves nobody with it.
HandoverEnds ==
    \A r \in Resources :
        pending = Active(r) ~> authority \in {Active(r), "NONE"}

Holder ==
    IF authority = "BASE_ACTIVE" THEN "BASE"
    ELSE IF authority = "ARM_ACTIVE" THEN "ARM" ELSE "NONE"

Exclusive == INSTANCE ExclusiveAuthority WITH
    None <- "NONE", holder <- Holder, life <- boot

\* The node implements the exclusive authority.
ImplementsExclusive == Exclusive!Spec
=============================================================================
