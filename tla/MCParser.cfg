CONSTANTS
    MaxDepth = 1
    Inputs <- MCInputs
    Errs <- MCErrs
    Less <- MsgLess
SPECIFICATION Spec
INVARIANTS
    TypeOK
    FailureMeansNil
    RecursionBounded
    TurnsLeft
    MatchesReference
    MembersOrdered
PROPERTIES
    OnlyUnwindsAfterFailure
    ImplementsContract
