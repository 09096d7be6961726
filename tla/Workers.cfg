SPECIFICATION MCSpec
CONSTANTS
    w1 = w1
    w2 = w2
    w3 = w3
    s1 = s1
    s2 = s2
    m1 = m1
    m2 = m2
    m3 = m3
    d1 = d1
    d2 = d2
    only = only
    Worker <- MCWorker
    WorkerCount = 3
    BatchSize = 2
    MaxRecipients = 8
    Sender <- MCSender
    Message <- MCMessage
    Capacity = 1
    Attempts = 3
    Conn <- MCConn
    User <- MCUser
    UserOf <- MCUserOf
    HubRoom = 1
    SendRoom = 1
    MaxFrames = 2
INVARIANTS
    WorkersInv
    FanoutInv
    BroadcastsInOrder
PROPERTIES
    FanoutRefines
    FanoutCompletes
    PoolServes
    ConnectionsEnd
CHECK_DEADLOCK FALSE
