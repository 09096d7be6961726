SPECIFICATION FairSpec
CONSTANTS
    c1 = c1
    c2 = c2
    Request <- TwoRequests
    MaxFaults = 3
INVARIANTS
    Inv
    CutOnlyByCrash
PROPERTIES
    ServedAgain
CHECK_DEADLOCK FALSE
