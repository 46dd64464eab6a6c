CONSTANTS
    W = 4
    TopWord = 2
    SeqSpace = 32
    MaxSeq = 12
    Gaps <- GapsInWindow
SPECIFICATION Spec
INVARIANTS
    TypeOK
    DeliveredOnce
    NothingLost
    WindowIsHistory
