SPECIFICATION Spec
CONSTANTS
    i1 = i1
    i2 = i2
    Devices = {1, 2}
    Items = {i1}
    Titles <- MCTitles
    Flags <- MCFlags
    Wall <- MCWall
    ServerWall = 0
    StoreLock = TRUE
    BatchLimit = 1
    MaxOps = 9
    Workloads <- BuriedWorkloads
INVARIANT NoBuriedEdit
CHECK_DEADLOCK FALSE
