SPECIFICATION SizeSpec
CONSTANTS
    SizeChanges <- MCChanges
    MaxTrue = 230
    MaxDeltas = 3
CHECK_DEADLOCK FALSE
INVARIANTS
    NeverOverstates
    ShortfallIsCounted
