SPECIFICATION Spec
CONSTANTS
    MaxTests = 2
    MaxGroups = 2
CHECK_DEADLOCK FALSE
INVARIANTS
    EveryTestIsCounted
    ReturnedIsTruth
    NothingReachesNext
    DeadJumpNeedsEscape
PROPERTIES
    GroupEnds
