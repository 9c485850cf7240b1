SPECIFICATION MCSpec
CONSTANTS
    Process = {p0, p1}
    Main = p0
    Name = {"f", "stdin", "stdout"}
    UserName = {"f"}
    TableSize = 3
    MaxFds = 7
    Buffer <- Buffers
    CloseId = {1, 2}
    MaxLength = 2
    MaxExecs = 2
    NULL = NULL
VIEW View
INVARIANTS
    TableIsRight
    OpenFilesAgree
    InputIsKept
PROPERTIES
    TransfersAreExact
CHECK_DEADLOCK FALSE
