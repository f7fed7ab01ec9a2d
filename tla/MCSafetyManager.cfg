SPECIFICATION Spec
CONSTANTS
    r1 = r1
    r2 = r2
    r3 = r3
    RequestIds <- MCRequestIds
    CacheLimit = 2
    HeartbeatTimeout = 2
    TickPeriod = 1
    RequireHeartbeat = TRUE
SYMMETRY MCSymmetry
INVARIANTS
    EStopMirrorsInputs
    FaultHeld
    PermitBacked
PROPERTIES
    OnlyNewResumePermits
    OnlyClearDropsFault
    ImplementsPermit
