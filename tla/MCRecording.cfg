SPECIFICATION Spec
CONSTANTS
    Feeds = 2
    Capacity = 1
    Days = 2
    Tickers = 2
    Writes <- WhatIsWritten
    MaxSequence <- HighestSequence
    MaxRuns = 2
    Remembered = {1}
CHECK_DEADLOCK FALSE
INVARIANTS
    ReplayIsTheRun
    CrashCutsShort
    SequencesIncrease
    EndLosesNothing
PROPERTIES
    DrainEnds
