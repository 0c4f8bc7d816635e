SPECIFICATION WalkSpec
CONSTANTS
    NumRows = 4
    NumCols = 2
    MaxFreeVC = 1
INVARIANT
    BorderChecks
CHECK_DEADLOCK FALSE
