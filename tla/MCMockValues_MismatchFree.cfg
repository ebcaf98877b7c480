SPECIFICATION Spec
CONSTANTS
    f1 = f1
    f2 = f2
    t1 = t1
    NoName = NoName
    Functions <- MCFunctions
    Names <- MCNames
    Counts <- MCCounts
    MaxValues = 2
    MaxServed = 2
CHECK_DEADLOCK FALSE
INVARIANT
    QueuedValuesAreLive
