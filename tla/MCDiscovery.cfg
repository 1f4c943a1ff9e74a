SPECIFICATION Spec
CONSTANTS
    p = p
    q = q
    Process = {p, q}
    Market = {1, 2, 3}
    EventOf <- MCEventOf
    Opening <- MCOpening
    SeriesEvents = {1}
    PageSize = 1
    MaxPages = 2
    MaxAge = 1
    MaxNow = 2
    MaxChanges = 1
    MaxStarts = 2
CHECK_DEADLOCK FALSE
PROPERTIES
    HandsOverTheStanding
    HandsOverTheOpen
    StartEnds
