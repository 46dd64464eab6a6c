CONSTANTS
    a = a
    b = b
    c = c
    eth = eth
    Orig = a
    Nodes = {a, b, c}
    Ifs = {eth}
    Links <- MCLinks
    NULL = NULL
    Freed = Freed
    W = 2
    TopWord = 2
    SeqSpace = 32
    G = 2
    TQMax = 4
    HopPenalty = 1
    SendMinimum = 1
    RecvMinimum = 1
    BidirectLimit = 1
    TtlSpace = 8
    Ogms <- MCOgms
    Echoes <- MCEchoes
    Counts = {0, 2}
    PurgeTimeout = 0
    MaxSeq = 2
    MaxTime = 1
SPECIFICATION Spec
INVARIANTS
    TypeOK
    RouterIsBest
    TqHonest
PROPERTY
    NoFlipping
