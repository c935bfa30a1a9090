SPECIFICATION Spec
CONSTANTS
    r1 = r1
    r2 = r2
    t1 = t1
    t2 = t2
    NoRider = NoRider
    Riders <- OneRider
    Taps <- OneTap
    MaxAttempts = 1
    Polling = TRUE
    MaxCrashes = 0
CHECK_DEADLOCK FALSE
PROPERTIES
    NotCancelledAfterConfirmation
