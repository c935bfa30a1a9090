SPECIFICATION Spec
CONSTANTS
    r1 = r1
    r2 = r2
    t1 = t1
    t2 = t2
    NoRider = NoRider
    Riders <- TwoRiders
    Taps <- TwoTaps
    MaxAttempts = 2
    Polling = TRUE
    MaxCrashes = 2
CHECK_DEADLOCK FALSE
SYMMETRY Symmetry
INVARIANTS
    TypeOK
    StockReturnedOnce
    OfferedOnlineIsCaptured
    RefundIsJustified
    SettledOnce
    LegacyStatusInSync
PROPERTIES
    RiderNeverReplaced
    ExhaustedSearchStays
