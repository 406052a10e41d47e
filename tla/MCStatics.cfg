CONSTANTS
    t1 = t1
    t2 = t2
    t3 = t3
    NoOne = NoOne
    Threads <- MCThreads
    Globals <- MCGlobals
    NullOrBool <- MCNullOrBool
SPECIFICATION Spec
INVARIANTS
    ConstructedOnce
    DefaultsOutliveNulls
PROPERTIES
    EveryUseReturns
CHECK_DEADLOCK FALSE
