SPECIFICATION Spec
CONSTANTS
    r1 = r1
    r2 = r2
    RequestIds <- MCRequestIds
    CacheLimit = 1
    FeedbackTimeout = 1
    TransitionTimeout = 2
    TickPeriod = 1
    MonitorLag = 0
    MaxInFlight = 1
PROPERTIES
    StoppedBeforeHandover
