SPECIFICATION FairSpec
CONSTANTS
    E1 = E1
    E2 = E2
    X1 = X1
    X2 = X2
    Y1 = Y1
    Theme = Theme
    NoTheme = NoTheme
    Event = {E1, E2}
    Outcome = {X1, X2, Y1}
    Payout = 10
    StartingCapital = 9
    LossLimit = 5
    Day = 2
    Offers <- MCMixed
    ThemeOf <- MCThemeOf
    MaxPerEvent = 5
    MaxPerTheme = 8
    MaxConcurrent = 2
    ErrorThreshold = 2
    Live = TRUE
    AllowLive = TRUE
    AllowInferred = FALSE
    Moves = {"same", "worse"}
    Faults = {"reject", "transport", "stall"}
    MaxBatch = 2
    MaxTrades = 2
CHECK_DEADLOCK FALSE
INVARIANTS
    TypeOK
    BookedIsWhole
    CostNearlyPaid
    LooseFillIsAnnounced
    ErrorsBarAdmission
    EarlierLeaveRoom
PROPERTIES
    BatchEnds
