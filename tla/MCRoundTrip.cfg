CONSTANTS
    MaxDepth = 2
    Traffic <- MCTraffic
    Encoded <- MCEncoded
    Nesting <- MCNesting
    Back <- MCBack
    Inputs <- MCInputs
    Errs <- MCErrs
    Less <- MsgLess
SPECIFICATION RTSpec
INVARIANTS
    ReadBack
    EqualAgain
    SameToGetters
    ShownAlike
    PrefixRejected
    DeepRejected
