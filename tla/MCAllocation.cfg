CONSTANTS
    MaxDepth = 2
    Inputs <- MCInputs
    Errs <- MCErrs
    Less <- MsgLess
SPECIFICATION ASpec
INVARIANTS
    FailureIsReported
