SPECIFICATION StoreSpec
CONSTANTS
    Par = 0
    K1 = K1
    K2 = K2
    P1 = P1
    Kalshi = Kalshi
    Polymarket = Polymarket
    Contract = {K1, K2, P1}
    Venue = {Kalshi, Polymarket}
    VenueOf <- MCVenueOf
    Stranger = Stranger
    None = None
    Rows <- MCRows
    Changes <- MCChanges
    MaxSize = 1
    MaxSeq = 1
CHECK_DEADLOCK FALSE
INVARIANTS
    StoreTypeOK
    LiveBacked
PROPERTIES
    VenueIsolation
    KeepsPromise
