SPECIFICATION Spec
CONSTANTS
    a = a
    b = b
    c = c
    r1 = r1
    r2 = r2
    r3 = r3
    User <- ThreeUsers
    Req <- ThreeReqs
    Kinds <- AllKinds
    PoolSize = 3
    Nobody = Nobody
SYMMETRY Swaps
INVARIANTS
    Inv
    ConsistentUnlessDisturbed
    NobodyStuck
CHECK_DEADLOCK FALSE
