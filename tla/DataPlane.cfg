CONSTANTS
    W = 4
    TopWord = 2
    SeqSpace = 32
    Nodes <- MCNodes
    if_list <- MCIfs
    Links <- MCLinks
    TTL = 3
    MaxTtl = 4
    Traffic <- MCTraffic
    MaxEvents = 3
    Restarting = {"A"}
    NULL = NULL
SPECIFICATION Spec
INVARIANTS
    TypeOK
    DeliveredOnce
    AnswerReachesAsker
PROPERTIES
    FallsSilent
    FloodReachesAll
CHECK_DEADLOCK FALSE
