CONSTANTS
    MaxDepth = 2
    Inputs <- MCInputs
    Errs <- MCErrs
    Less <- BytesLess
SPECIFICATION MultiSpec
INVARIANTS
    StopPosSound
    MultiMatches
PROPERTIES
    FailureIsLast
    MultiReturns
    EveryCallReturns
