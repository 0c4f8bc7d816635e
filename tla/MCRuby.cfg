\* The tester, the deadlock check, the controllers and the simulation all come
\* to an end: deadlock is not checked.
SPECIFICATION MCSpec
CONSTANTS
    p1 = p1
    p2 = p2
    p3 = p3
    Ports = {p1, p2, p3}
    Lines = {l1, l2}
    Types = {"LD", "ST", "Locked_RMW_Read", "Locked_RMW_Write"}
    MaxOutstanding = 2
    Threshold = 2
    Drains = FALSE
    Routers = {r1, r2, r3}
    MarkedFlit = 3
    NumFlits = 2
    Latencies = {1, 4}
    MaxAverage = 2
    NumPorts = 3
    ResponsePort = 2
    NumRequests <- MCRequests
    TransitionsPerCycle = 2
    OnBusy <- MCOnBusy
    WakeUp = "wakeUpAllBuffers"
    MayMiss = TRUE
    MaxEnqueues = 2
    LastSend = 3
    MaxTime = 9
    NumAddrs = 2
    MaxSize = 2
    StrictFifo = FALSE
    Randomization = FALSE
    Delays = {1}
CHECK_DEADLOCK FALSE
INVARIANTS
    LockedPairAtomic
    RetryListRight
    CheckFollowsDrains
    TesterRight
    ExitIsComplete
    Capacity
    
    MessageHasWakeup
    FifoOrder
PROPERTIES
    PortsAreServed
    SimulationEnds
