SPECIFICATION FairSpec
CONSTANTS
    n0 = n0
    n3 = n3
    f1 = f1
    f2 = f2
    f3 = f3
    NumRows = 2
    NumCols = 2
    NumRouters = 4
    IntLinks <- MCIntLinks
    NIs = {n0, n3}
    RouterOf <- MCRouterOf
    NumVnets = 1
    VcsPerVnet = 1
    BuffersPerVC <- MCBuffers1
    Flits = {f1}
    SrcNI <- MCSrcNI
    DestNI <- MCDestNI
    VnetOf <- MCVnetOf
    NumBubble = 1
    RandBB = TRUE
    Route <- MCRouteRandom
    NextHop <- MCNextHop
PROPERTIES
    
    ImplementsBubbleNet
