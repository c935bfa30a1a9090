SPECIFICATION FairSpec
CONSTANTS
    r1 = r1
    r2 = r2
    t1 = t1
    t2 = t2
    NoRider = NoRider
    Riders <- OneRider
    Taps <- NoTaps
    MaxAttempts = 3
    Polling = TRUE
    MaxCrashes = 1
CHECK_DEADLOCK FALSE
PROPERTIES
    SellerDelayIsRaised
    FailedSearchIsRaised
    UnpaidOrderIsResolved
