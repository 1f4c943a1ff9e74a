SPECIFICATION Spec
CONSTANTS
    E1 = E1
    E2 = E2
    X = X
    Y1 = Y1
    Y2 = Y2
    Nobody = Nobody
    Event = {E1, E2}
    Outcome = {X, Y1, Y2}
    OutcomesOf <- MCOutcomesOf
    Payout = 4
    StartingCapital = 14
    LossLimit = 2
    Day = 2
    Offers <- MCHeld
    Bids <- MCBids
    MaxPositions = 3
    MaxTime = 4
    MaxRestarts = 1
CHECK_DEADLOCK FALSE
INVARIANTS
    TypeOK
    Conservation
    AccountIsTheVenues
    MarkIsPossible
PROPERTIES
    DailyLimitHolds
