SPECIFICATION Spec
CONSTANTS
    MaxProcess = 3
    NumPhysPages = 4
    shell = shell
    small = small
    large = large
    Program = {shell, small, large}
    MainProgram = shell
    NumPages <- MCNumPages
    ExitCode = {1, 2}
    MaxNumWait = 2
    Careful = FALSE
    NULL = NULL
INVARIANTS
    NoOneWaitsOnDeleted
