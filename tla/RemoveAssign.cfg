SPECIFICATION Spec
CONSTANTS
    Ports = {p1, p2}
    Handles = {h1, h2}
    Procs = {u1}
    Resources = {"dma", "irq"}
    FME = FME
    NONE = NONE
    SYSFS = SYSFS
    REMOVER = REMOVER
    MayFail = FALSE
    MayRemove = TRUE
    MaxLateAssign = 1
SYMMETRY Symmetry
INVARIANTS
    UnregisteredFirst
CHECK_DEADLOCK FALSE
