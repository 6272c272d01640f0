\* The start and end of the processes, and the allocator.
SPECIFICATION ProcSpec
CONSTANTS
    Workers = {1, 2}
    Pollers = {1}
    MaxInts = 1
    MaxForkFails = 2
    MaxCrashes = 1
    Users = {1, 2}
    Blocks = {1, 2}
    Word = 2
    MaxSize = 3
    MaxCalls = 3
INVARIANTS
    ShutdownTypeOK
    WorkersGoneFirst
    LoopsReleased
    Accounted
PROPERTIES
    ExitsOnCtrlC
CHECK_DEADLOCK FALSE
