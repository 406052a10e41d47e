CONSTANTS
    Less <- MsgLess
    Roots <- MCRoots
    Indices <- MCIndices
    Names <- MCNames
    Shapes <- MCShapes
    MaxSteps = 3
SPECIFICATION LSpec
INVARIANTS
    HasEveryField
CHECK_DEADLOCK FALSE
