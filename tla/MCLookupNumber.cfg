CONSTANTS
    Less <- MsgLess
    Roots <- MCRoots
    Indices <- MCIndices
    Names <- MCNames
    Shapes <- MCNumberShapes
    MaxSteps = 3
SPECIFICATION LSpec
INVARIANTS
    NumbersAreNumbers
CHECK_DEADLOCK FALSE
