SPECIFICATION Spec
CONSTANTS
    NumRows = 8
    NumCols = 8
PROPERTIES MovesToNeighbour VisitsEveryRouter
