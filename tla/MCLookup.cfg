CONSTANTS
    Less <- MsgLess
    Roots <- MCRoots
    Indices <- MCIndices
    Names <- MCNames
    Shapes <- MCShapes
    MaxSteps = 3
SPECIFICATION LSpec
INVARIANTS
    ChainLeadsThere
    ShapeHolds
    EqualNumbersGetAlike
CHECK_DEADLOCK FALSE
