SPECIFICATION Spec
CONSTANTS
    MaxConnections = 2
    MaxFrames = 2
    Kinds = {"HB", "ENGAGE", "BAD"}
    HeartbeatTimeout = 2
    PublishPeriod = 2
    PollPeriod = 1
INVARIANTS
    LossAnnounced
    AliveBounded
    CommandsInOrder
    FramesHeeded
