SPECIFICATION Spec
CONSTANTS
    Ports = {p1, p2}
    Handles = {h1, h2, h3}
    Procs = {u1}
    Resources = {"dma", "irq"}
    FME = FME
    NONE = NONE
    SYSFS = SYSFS
    REMOVER = REMOVER
    MayFail = TRUE
    MayRemove = FALSE
    MaxLateAssign = 1
SYMMETRY Symmetry
INVARIANTS
    PrInReset
    DisableBalanced
    ExclusiveUse
    ReleasedAccounted
CHECK_DEADLOCK FALSE
