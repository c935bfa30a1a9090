SPECIFICATION ApiSpec
CONSTANTS
    r1 = r1
    r2 = r2
    t1 = t1
    q1 = q1
    q2 = q2
    NoRider = NoRider
    Self = Self
    Riders <- OneRider
    Taps <- OneTap
    Requests <- OneRequest
    MaxAttempts = 1
    Polling = FALSE
    MaxCrashes = 0
    Overlap = FALSE
CHECK_DEADLOCK FALSE
INVARIANTS
    ApiTypeOK
    RestockedAndSettledOnce
PROPERTIES
    NeverRevived
    StatusNeverBackwards
