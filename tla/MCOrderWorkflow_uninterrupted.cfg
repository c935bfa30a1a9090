SPECIFICATION FairSpec
CONSTANTS
    r1 = r1
    r2 = r2
    t1 = t1
    t2 = t2
    NoRider = NoRider
    Riders <- TwoRiders
    Taps <- OneTap
    MaxAttempts = 2
    Polling = FALSE
    MaxCrashes = 0
CHECK_DEADLOCK FALSE
INVARIANTS
PROPERTIES
    ContractKept
    CancelledStockReturns
    CapturedReachesSeller
    DeliveredIsSettled
