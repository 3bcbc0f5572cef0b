SPECIFICATION Spec
CONSTANTS
    i1 = i1
    i2 = i2
    Devices = {1, 2, 3}
    Items = {i1, i2}
    Titles <- MCTitles
    Flags <- MCFlags
    Wall <- MCWall
    ServerWall = 0
    StoreLock = TRUE
    BatchLimit = 1
    MaxOps = 2
    Workloads <- MCWorkloads
INVARIANTS TypeOK ClockDominates NoEditLost AppliedOnceInOrder FieldsConverge
CHECK_DEADLOCK FALSE
