SPECIFICATION Spec
CONSTANTS
    g1 = g1
    g2 = g2
    GroupNames = {g1, g2}
    MaxTests <- MCMaxTests
    MaxNotes = 1
    Outputs <- MCOutputs
SYMMETRY MCSymmetry
INVARIANT
    OldFilesUntouched
