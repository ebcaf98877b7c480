SPECIFICATION Spec
CONSTANTS
    f1 = f1
    f2 = f2
    p1 = p1
    p2 = p2
    x1 = x1
    x2 = x2
    Functions <- MCFunctions
    Parameters <- MCParameters
    Values <- MCValues
    Checks <- MCChecks
    Counts <- MCCounts
    MaxEvents = 3
    MaxChecked = 2
INVARIANTS
    TypeOK
    EventsOwned
PROPERTIES
    ImplementsPlan
