SPECIFICATION Spec
CONSTANTS
    Process = {p0, p1}
    Main = p0
    Name = {"f", "stdin", "stdout"}
    TableSize = 3
    MaxFds = 7
    UserName = {"f"}
    Buffer = {}
    CloseId = {0, 1, 2, 3}
    MaxLength = 2
    MaxExecs = 4
    NULL = NULL
INVARIANT StartHasConsole
CHECK_DEADLOCK FALSE
