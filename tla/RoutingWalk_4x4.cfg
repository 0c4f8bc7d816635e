SPECIFICATION WalkSpec
CONSTANTS
    NumRows = 4
    NumCols = 4
    MaxFreeVC = 1
INVARIANTS
    TableIsShortest
PROPERTIES
    MinimalRouting
    TurnsForbidden
    Arrives
CHECK_DEADLOCK FALSE
