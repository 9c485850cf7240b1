SPECIFICATION MCSpec
CONSTANTS
    Thread = {t1, t2, t3}
    Item = {a, b}
    MaxApply = 1
    NULL = NULL
INVARIANTS
    MInv
    UnitsAreKept
PROPERTIES
    ImplementsAtomicMonitor
    ImplementsFifo
    WaitsReturn
CHECK_DEADLOCK FALSE
