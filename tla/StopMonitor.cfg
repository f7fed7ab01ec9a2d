SPECIFICATION FairSpec
CONSTANTS
    CommandTimeout = 10
    OdometryTimeout = 20
    SettleTime = 8
    TickPeriod = 2
PROPERTIES
    StopIsSettled
    StopIsReported
