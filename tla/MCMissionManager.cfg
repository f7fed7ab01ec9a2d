SPECIFICATION FairSpec
CONSTANTS
    Plans <- MCPlans
    MaxGenerations = 3
    MaxOrphans = 1
INVARIANTS
    NoGoalForgotten
    PhaseMatchesCheckpoint
PROPERTIES
    StartAuthorised
    StopNotUndone
    ImplementsItinerary
    GivenUpGoalsEnd
