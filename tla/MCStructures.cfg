SPECIFICATION MCSpec
CONSTANTS
    NumSectors = 8
    SectorSize = 2
    NumDirect = 2
    NumDirEntries = 2
    SplitEntry = 1
    Name = {"a", "b", "c"}
    Prefix <- Names
    Handle = {1}
    Byte = {1}
    CloseFirst = TRUE
    MaxSize = 3
    NULL = NULL
VIEW View
INVARIANTS
    SelfChecksPass
    ContentsAreRight
    DiskIsConsistent
PROPERTIES
    ListsAreSequences
    FindsFree
    TransfersAreExact
    LatencyIsRight
CHECK_DEADLOCK FALSE
