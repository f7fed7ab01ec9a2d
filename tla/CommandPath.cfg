SPECIFICATION Spec
CONSTANTS
    Lease = 1
    MuxLease = 1
    GateLease = 0
    StateLease = 0
    DriverLease = 1
    MaxSeq = 2
INVARIANTS
    MotionIsFresh
    StopsInTime
    HoldOverNav
    TeleopYields
    ReleaseStands
