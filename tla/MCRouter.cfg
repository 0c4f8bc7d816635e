SPECIFICATION MCSpec
CONSTANTS
    Routers = {r1, r2}
    Inports = {1, 2}
    PipeStages = 5
    InterPeriod = 1
    NumInports = 3
    NumOutports = 2
    NumVnets = 1
    VcsPerVnet = 1
    Ordered = {}
    Bubble = FALSE
INVARIANTS
    AwakeForSA
    LosesOnceToEach
PROPERTIES
    PointToPointOrder
    
