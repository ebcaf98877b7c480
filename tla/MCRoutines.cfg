SPECIFICATION MCSpec
CONSTANTS
    Width = 2
    BlockSize = 2
    Arrays <- MCArrays
    MaxFloat = 9
    EpsilonInverse = 4
    Tolerances = {0, 1, 2}
    Groups <- MCGroups
    Patterns <- MCPatterns
    Replacements <- MCReplacements
    Attributes <- MCAttributes
    MessageBuffer = 3
    MaxPrints = 3
    SizeBits = 5
    GuardSize = 2
    InfoSize = 5
    Alignment = 4
    Second = 4
    MaxSeconds = 2
INVARIANTS
    ChecksWhatWasGiven
    AcceptsWhatItSays
    DumpTellsAll
    FloatIsClose
    SelectsMatching
    TextIsReplaced
    MessageIsWhole
    BlockHoldsRequest
    RuntimeIsElapsed
