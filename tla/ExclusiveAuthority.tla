-------------------------- MODULE ExclusiveAuthority --------------------------
(***************************************************************************)
(* What motion_interlock_manager promises: at most one resource holds the  *)
(* authority to move, and it is handed to a resource only when every other *)
(* one that held it has been confirmed stopped, or after an alarm.         *)
(***************************************************************************)
CONSTANTS Resources, None

VARIABLES
    holder,       \* the resource with authority, or None
    unconfirmed,  \* resources that held authority and were not seen stopped since
    alarmed,      \* a safety fault has been raised
    life          \* the run of the manager, as a bit

Init ==
    /\ holder = None
    /\ unconfirmed = {}
    /\ alarmed = FALSE
    /\ life = FALSE

Grant(r) ==
    /\ holder = None
    /\ unconfirmed \subseteq {r} \/ alarmed
    /\ holder' = r
    /\ unconfirmed' = unconfirmed \cup {r}
    /\ UNCHANGED alarmed

Withdraw ==
    /\ holder' = None
    /\ UNCHANGED <<unconfirmed, alarmed>>

\* The stop of r is confirmed, and at once another resource may take over.
Confirm(r) ==
    /\ holder = None
    /\ UNCHANGED alarmed
    /\ \/ holder' = None /\ unconfirmed' = unconfirmed \ {r}
       \/ \E next \in Resources \ {r} :
            /\ unconfirmed \ {r} \subseteq {next} \/ alarmed
            /\ holder' = next
            /\ unconfirmed' = (unconfirmed \ {r}) \cup {next}

Alarm ==
    /\ alarmed' = TRUE
    /\ holder' = None
    /\ UNCHANGED unconfirmed

Forget ==
    /\ holder' = None /\ unconfirmed' = {} /\ alarmed' = FALSE
    /\ life' = ~life

Manage ==
    \/ \E r \in Resources : Grant(r) \/ Confirm(r)
    \/ Withdraw
    \/ Alarm

Next ==
    \/ Manage /\ UNCHANGED life
    \/ Forget

Spec == Init /\ [][Next]_<<holder, unconfirmed, alarmed, life>>
=============================================================================
