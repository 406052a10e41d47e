CONSTANTS
    MaxDepth = 2
    MaxRefusals = 2
    Wholes <- MCWholes
    Inputs <- MCSlices
    Errs <- MCFeedErrs
    Less <- BytesLess
SPECIFICATION FSpec
INVARIANTS
    NothingLostNorTwice
PROPERTIES
    AllDelivered
CHECK_DEADLOCK FALSE
