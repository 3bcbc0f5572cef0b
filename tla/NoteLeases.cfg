SPECIFICATION Spec
CONSTANTS
    t1 = t1
    t2 = t2
    t3 = t3
    d1 = d1
    Tabs = {t1, t2, t3}
    Desktops = {d1}
    Device <- MCDevice
    Term = 1
    MaxTime = 2
    Workloads <- MCWorkloads
    MaxLocal = 1
INVARIANTS TypeOK EpochsNotShared
PROPERTIES FencedByEpoch LiveLeaseShields
CHECK_DEADLOCK FALSE
