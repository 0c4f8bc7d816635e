SPECIFICATION Spec
CONSTANTS
    NumRows = 3
    NumCols = 3
INVARIANTS NextRouterExists
