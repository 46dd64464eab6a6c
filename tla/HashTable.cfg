CONSTANTS
    Keys <- MCKeys
    Hash <- MCHash
    InitSize = 8
    NULL = NULL
SPECIFICATION Spec
INVARIANTS
    ChainsAreRight
PROPERTIES
    ImplementsSet
CHECK_DEADLOCK FALSE
