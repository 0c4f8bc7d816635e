SPECIFICATION Spec
CONSTANTS
    NumVnets = 1
    VcsPerVnet = 3
    Ordered = {0}
    Dests <- MCDests
    NumArrivals <- MCArrivals
    BufferSize = 2
    MaxDequeues = 1
INVARIANTS
    OneFlitEach
    OrderedLeave
    EjectedInOrder
PROPERTIES
    AllSent
    
