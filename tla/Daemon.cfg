CONSTANTS
    MaxChunks = 4
    Threads <- MCThreads
    Options <- MCOptions
    MaxFaults = 1
    NULL = NULL
    Nobody = Nobody
    Freed = Freed
SPECIFICATION Spec
INVARIANTS
    TypeOK
    ListIsHeap
    NoDoubleFree
    EverythingReleased
    CleanedUpLast
PROPERTIES
    Ends
CHECK_DEADLOCK FALSE
