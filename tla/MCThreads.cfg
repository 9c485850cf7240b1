SPECIFICATION FairSpec
CONSTANTS
    mutex = mutex
    device = device
    NULL = NULL
    Thread = {main, worker, t1, t2}
    Main = main
    Worker = worker
    Sem = {mutex, device}
    DeviceSem = {device}
    InitialValue <- MCInitialValue
    MaxValue = 2
INVARIANTS
    IInv
PROPERTIES
    ReadyRuns
    ImplementsSemaphores
