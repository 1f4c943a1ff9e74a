SPECIFICATION FeedSpec
CONSTANTS
    Par = 0
    A = A
    B = B
    Contract = {A, B}
    Kalshi = Kalshi
    Venue = {Kalshi}
    VenueOf <- MCVenueOf
    Stranger = Stranger
    None = None
    Rows <- MCRows
    Changes <- MCChanges
    MaxSize = 1
    MaxSeq = 4
    Capacity = 1
    Opening <- MCOpening
    MovingSides = {"yes"}
    Losable = {"snapshot", "delta"}
    MaxLost = 1
    MaxDrops = 1
    MaxFailures = 1
    MayStop = TRUE
CHECK_DEADLOCK FALSE
INVARIANTS
    FeedTypeOK
    LiveMirrorsVenue
