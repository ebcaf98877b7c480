SPECIFICATION Spec
CONSTANTS
    f1 = f1
    f2 = f2
    Functions <- MCFunctions
    Counts <- MCCounts
    MaxDeclared = 4
    MaxCalls = 2
INVARIANTS
    TypeOK
    BlamedIsOwed
PROPERTIES
    ImplementsPlan
