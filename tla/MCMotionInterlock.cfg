SPECIFICATION FairSpec
CONSTANTS
    r1 = r1
    r2 = r2
    RequestIds <- MCRequestIds
    CacheLimit = 1
    FeedbackTimeout = 1
    TransitionTimeout = 2
    TickPeriod = 1
    MonitorLag = 1
    MaxInFlight = 2
INVARIANTS
    HandoverConfirmed
    StoppingBounded
    PendingOnlyInHandover
PROPERTIES
    HandoverFresh
    ImplementsExclusive
    HandoverEnds
