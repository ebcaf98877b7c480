SPECIFICATION Spec
CONSTANTS
    fn = fn
    a1 = a1
    a2 = a2
    Functions = {fn}
    Counts <- MCCounts
    MaxValues = 1
    MaxServed = 1
    MaxDeclared = 1
    MaxCalls = 1
    Addresses = {a1, a2}
    ListHead = ListHead
    Null = Null
    MaxTests = 1
SYMMETRY MCSymmetry
INVARIANTS
    PassedIsClean
    ExitHasCause
