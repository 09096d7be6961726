SPECIFICATION FairSpec
CONSTANTS
    m1 = m1
    alice = alice
    bob = bob
    carol = carol
    Msg <- OneMsg
    User <- Two
    Sender <- FromAlice
    Roaming <- Nobody
    Marker <- OnlyBob
    MaxTries = 2
    MaxMarks = 2
    MaxFaults = 1
    MaxStops = 1
INVARIANTS
    RowsTrue

    
CHECK_DEADLOCK FALSE
