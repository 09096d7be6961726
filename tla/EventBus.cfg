SPECIFICATION BusSpec
CONSTANTS
    p1 = p1
    p2 = p2
    qa = qa
    qb = qb
    Proc <- MCProc
    Part <- MCPart
    ReadCount = 2
    MaxEvents = 4
    PartEvents <- MCPartEvents
    MaxFaults = 2
    PartFaults = 1
    MaxStops = 1
INVARIANTS
    BusInv
    AckedWasHandled
PROPERTIES
    HandledInOrder
    ImplementsQueue
    EventsServed
    KafkaImplementsLog
    KafkaServed
CHECK_DEADLOCK FALSE
