CONSTANTS
    W = 2
    TopWord = 1
    SeqSpace = 16
    NIfs = 2
    Interval = 2
    Jitter = 1
    ClockMod = 16
    MaxTime = 5
    Neighs = {n1}
    Echoes <- SeparateCells
    MaxLag = 1
    RelayTtls = {1, 2}
SPECIFICATION Spec
INVARIANTS
    TypeOK
    OneOwnPacketPerInterface
    SortedWhenWaiting
    EchoWindow
PROPERTIES
    DirectLinkOnItsInterface
    ImplementsTimers
CHECK_DEADLOCK FALSE
