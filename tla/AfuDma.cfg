SPECIFICATION DmaSpec
CONSTANTS
    Buffers <- Disjoint
    Handles = {h1, h2}
    Procs = {q1, q2}
    Privileged = {q2}
    NumUmsgs = 1
    AddrSpace = 6
    LockLimit = 3
    NONE = NONE
    MayFail = TRUE
    MaxRegions = 3
    MaxShort = 1
    MaxCharge = 4
SYMMETRY Symmetry
INVARIANTS
    LastCloseCleans
    BaseFound
    FindComplete
    PinsCover
PROPERTY
    PagesAccounted
