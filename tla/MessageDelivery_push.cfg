SPECIFICATION Spec
CONSTANTS
    m1 = m1
    alice = alice
    bob = bob
    carol = carol
    Msg <- OneMsg
    User <- Two
    Sender <- FromAlice
    Roaming <- OnlyBob
    Marker <- Nobody
    MaxTries = 2
    MaxMarks = 0
    MaxFaults = 0
    MaxStops = 0
INVARIANTS
    PushReachesUser
CHECK_DEADLOCK FALSE
