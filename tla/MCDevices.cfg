SPECIFICATION MCSpec
CONSTANTS
    Thread = {t1, t2, t3}
    Typed <- Letters
    IsFile = TRUE
    Printed = {"a", "b"}
    MaxPrint = 2
    EOF = "EOF"
    NULL = NULL
INVARIANTS
    ConsoleIsSafe
    InOrder
    HandshakesHold
PROPERTIES
    ConsoleFlows
    DiskServes
    PacketsMove
    TestEnds
CHECK_DEADLOCK FALSE
