SPECIFICATION FairSpec
CONSTANTS
    d1 = d1
    d2 = d2
    u = u
    Conn <- MCConn
    User <- MCUser
    UserOf <- MCUserOf
    MaxEvents = 2
    BroadcastCap = 2
    MaxFrames = 2
    MaxStalls = 0
PROPERTIES
    DisconnectStopsSubscription
CHECK_DEADLOCK FALSE
