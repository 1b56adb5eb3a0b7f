SPECIFICATION FairSpec
CONSTANTS
    Ports = {p1}
    Handles = {h1, h2}
    Procs = {u1}
    Resources = {"dma", "irq"}
    FME = FME
    NONE = NONE
    SYSFS = SYSFS
    REMOVER = REMOVER
    MayFail = FALSE
    MayRemove = TRUE
    MaxLateAssign = 1
INVARIANTS
    FileHasAfu
    NothingOutlivesLastClose
PROPERTY
    AllReturn
CHECK_DEADLOCK FALSE
