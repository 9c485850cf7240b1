SPECIFICATION MCSpec
CONSTANTS
    MaxProcess = 3
    NumPhysPages = 5
    shell = shell
    small = small
    large = large
    Program = {shell, large}
    MainProgram = shell
    NumPages <- MCNumPages
    ExitCode = {1, 2}
    MaxNumWait = 1
    Careful = TRUE
    NULL = NULL
    None = None
INVARIANTS
    ChildrenStay
    ResourcesAccounted
    ResultIsOwn
PROPERTIES
    CallsReturn
