SPECIFICATION Spec
CONSTANTS
    Buffers <- Nested
    Handles = {h1}
    Procs = {q1}
    Privileged = {}
    NumUmsgs = 1
    AddrSpace = 8
    LockLimit = 6
    NONE = NONE
    MayFail = FALSE
    MaxRegions = 3
    MaxShort = 0
    MaxCharge = 0
SYMMETRY Symmetry
INVARIANTS
    BaseRegionKnown
