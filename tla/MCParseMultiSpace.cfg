CONSTANTS
    MaxDepth = 2
    Inputs <- MCSeparatedInputs
    Errs <- MCErrs
    Less <- MsgLess
SPECIFICATION MultiSpec
INVARIANTS
    SeparatedByWhitespace
