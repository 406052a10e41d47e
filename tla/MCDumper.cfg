CONSTANTS
    Held <- MCValues
    Encoded <- MCEncoded
    Inside <- MCInside
    Longest = 16
    MaxCalls = 2
    MaxDepth = 4
    Less <- MsgLess
SPECIFICATION DSpec
INVARIANTS
    WholeOrTorn
    TornReadsTruncated
PROPERTIES
    OutWholeOrOutOfMemory
CHECK_DEADLOCK FALSE
