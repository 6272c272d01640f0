SPECIFICATION ShutdownSpec
CONSTANTS
    Workers = {1, 2}
    Pollers = {1}
    MaxInts = 1
    MaxForkFails = 0
    MaxCrashes = 0
INVARIANT
    NeverKillsAll
