CONSTANTS
    Keys <- MCKeys
    Ordinary <- MCOrdinary
    Equal <- EqualOnKeys
    MaxKeys = 3
    Less <- LessOnKeys
SPECIFICATION OSpec
INVARIANTS
    EveryKeyFound
    SameInAnyOrder
    NoKeyTwice
