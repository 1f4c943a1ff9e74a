SPECIFICATION FairSpec
CONSTANTS
    Par = 1
    A = A
    B = B
    Contract = {A, B}
    Polymarket = Polymarket
    Venue = {Polymarket}
    VenueOf <- MCVenueOf
    Tokens <- MCTokens
    Stranger = Stranger
    None = None
    Rows <- MCRows
    Changes = {}
    MaxSize = 1
    MaxSeq = 2
    Capacity = 1
    Moving <- MCMoving
    MayQuoteFine = {B}
    IdleTimeout = 2
    Faults = {"mute", "garbled", "malformed", "fine", "drop", "fail", "subscribe", "record", "resync", "stop"}
    MaxFaults = 2
    MaxSilence = 1
    MaxWire = 1
CHECK_DEADLOCK FALSE
INVARIANTS
    LiveMirrorsMarket
    DeadIsDown
PROPERTIES
    Recovers
