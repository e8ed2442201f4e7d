SPECIFICATION Spec
CONSTANTS
    u1 = u1
    u2 = u2
    NoTask = NoTask
    Users <- MCUsers
    Scenarios = {"udp", "two", "resolve", "client", "server"}
    MaxPackets = 3
    MaxIo = 3
    MaxResolves = 2
INVARIANTS
    RemovedIsClosed
    SentInOrder
    EventKept
    ConnCallbacks
    OnlyTerminatePanics
PROPERTIES
    TaskFinishes
    StopReturns
CHECK_DEADLOCK FALSE
