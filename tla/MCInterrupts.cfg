SPECIFICATION Spec
CONSTANTS
    Thread = {main, t1, t2}
    Main = main
    Disk = {disk, disk2, disk3}
    Network = {net}
    Delay <- MCDelay
    TimerDelay = {2, 5}
    UserTick = 1
    SystemTick = 2
    NULL = NULL
INVARIANTS
    StateFollowsThread
    HandlersOnTime
PROPERTIES
    EarliestFirst
    InterruptComes
