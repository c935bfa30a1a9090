SPECIFICATION CashSpec
CONSTANTS
    q1 = q1
    q2 = q2
    Amount = 2
    Others = 1
    Requests <- TwoRequests
    MaxDeliveries = 2
    MaxCrashes = 1
CHECK_DEADLOCK FALSE
INVARIANTS
    SellerPaidAfterAdmin
