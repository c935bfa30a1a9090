SPECIFICATION PlacementSpec
CONSTANTS
    q1 = q1
    q2 = q2
    q3 = q3
    Requests <- ThreeRequests
    Stock = 4
    Balance = 2
    MaxOverruns = 2
SYMMETRY Symmetric
CHECK_DEADLOCK FALSE
INVARIANTS
    PlacementTypeOK
    PlacedOnce
    OneAtATime
PROPERTIES
    PlacementKept
