SPECIFICATION MCSpec
CONSTANTS
    r1 = r1
    r2 = r2
    r3 = r3
    c1 = c1
    c2 = c2
    Request <- MCRequest
    Client <- MCClient
    Token <- MCToken
    MaxVersions = 3
    Limit = 1
    Window = 2
    MaxTime = 5
    MaxFaults = 2
INVARIANTS
    MiddlewareInv
    LimitHolds
PROPERTIES
    HangsAlone
    OlderOnlyByOverlap
    KeysConverge
CHECK_DEADLOCK FALSE
