SPECIFICATION Spec
CONSTANTS
    i1 = i1
    i2 = i2
    Devices = {1, 2}
    Items = {i1}
    Titles <- MCTitles
    Flags <- MCFlags
    Wall <- MCWall
    ServerWall = 0
    StoreLock = FALSE
    BatchLimit = 1
    MaxOps = 9
    Workloads <- RaceWorkloads
INVARIANT NoEditLost
CHECK_DEADLOCK FALSE
