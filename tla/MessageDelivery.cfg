SPECIFICATION FairSpec
CONSTANTS
    m1 = m1
    alice = alice
    bob = bob
    carol = carol
    Msg <- OneMsg
    User <- Three
    Sender <- FromAlice
    Roaming <- OnlyBob
    Marker <- Two
    MaxTries = 2
    MaxMarks = 1
    MaxFaults = 1
    MaxStops = 0
INVARIANTS
    Inv
    RowsTrue
PROPERTIES
    SendRefines
    CallsFinish
CHECK_DEADLOCK FALSE
