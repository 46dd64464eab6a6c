CONSTANTS
    WordBits = 3
    IntBits = 3
    NumWords = 2
    SeqSpace = 32
    MaxSeq = 10
    Gaps <- GapsAll
SPECIFICATION Spec
PROPERTIES
    ImplementsWindow
