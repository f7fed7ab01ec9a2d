SPECIFICATION Spec
CONSTANTS
    Plans <- MCOnePlan
    MaxGenerations = 1
    MaxOrphans = 1
INVARIANT HaltedWhenPaused
