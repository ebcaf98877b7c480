SPECIFICATION Spec
CONSTANTS
    a1 = a1
    a2 = a2
    a3 = a3
    Addresses <- MCAddresses
    ListHead = ListHead
    Null = Null
    MaxTests = 2
SYMMETRY Symmetry
CHECK_DEADLOCK FALSE
INVARIANT
    LeakFailsTest
