CONSTANTS
    WordBits = 8
    IntBits = 4
    NumWords = 1
    SeqSpace = 64
    MaxSeq = 14
    Gaps <- GapsInWindow
SPECIFICATION Spec
INVARIANTS
    RemembersPackets
CHECK_DEADLOCK FALSE
