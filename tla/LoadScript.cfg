SPECIFICATION MCSpec
CONSTANTS
    Process = {p1, p2}
    Executable <- TwoSizes
    Loaded <- ScriptedSizes
    PageSize = 4
    NumPhysPages = 4
    UserStackSize = 2
    AddressBits = 5
    Value = {99}
    MaxWrites = 1
    NULL = NULL
SYMMETRY Symmetry
INVARIANT ImageIsLoaded
CHECK_DEADLOCK FALSE
