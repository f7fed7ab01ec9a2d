SPECIFICATION Spec
CONSTANTS
    MaxRequests = 3
    MaxBorn = 1
    Maps = {m1, m2}
    InitialMap = m1
INVARIANTS
    AnsweredOnce
    NoGoalUntracked
    StartIsConfigured
    MapsAgree
