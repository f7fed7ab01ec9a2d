SPECIFICATION FairSpec
CONSTANTS
    Robots = {r1, r2}
    Nobody = Nobody
    MaxRequests = 1
INVARIANTS
    RetryArmed
    GeneralIsShown
    RequestsAccounted
PROPERTY Reconnects
