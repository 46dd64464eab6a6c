CONSTANTS
    MaxSock = 2
    MaxUid = 2
    Levels <- MCLevels
    ErrLevel = 4
    ConnLevel = 3
    Free = Free
    NULL = NULL
    Freed = Freed
SPECIFICATION Spec
INVARIANTS
    DebugListsMatch
    SlotsMatchUids
PROPERTIES
    WalkedListIsStable
    LocksReleased
CHECK_DEADLOCK FALSE
