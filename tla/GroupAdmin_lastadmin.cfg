SPECIFICATION Spec
CONSTANTS
    a = a
    b = b
    c = c
    r1 = r1
    r2 = r2
    r3 = r3
    User <- TwoUsers
    Req <- ThreeReqs
    Kinds <- Demotions
    PoolSize = 2
    Nobody = Nobody
INVARIANTS
    LastAdminStays
CHECK_DEADLOCK FALSE
