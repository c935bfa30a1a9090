SPECIFICATION ReturnsSpec
CONSTANTS
    q1 = q1
    q2 = q2
    w1 = w1
    Requests <- TwoRequests
    Workers <- OneWorker
    MaxRefunds = 2
SYMMETRY Symmetric
CHECK_DEADLOCK FALSE
INVARIANTS
    ReturnsTypeOK
    PayoutPaidOnce
    RefundIsDocumented
    SellerChargedOnce
PROPERTIES
    ReturnKept
