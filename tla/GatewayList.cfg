CONSTANTS
    Cells = {c1, c2, c3}
    Head0 = Head0
    NULL = NULL
    Origs = {o1, o2}
    Ptrs = {p1, p2, p3}
    Classes = {0, 1, 2}
    PurgeTimeout = 1
    Interval = 1
    MaxTime = 8
SPECIFICATION Spec
SYMMETRY MCSymmetry
INVARIANTS
    ListIsWhole
    GatewaysListed
    NothingLeft
CHECK_DEADLOCK FALSE
