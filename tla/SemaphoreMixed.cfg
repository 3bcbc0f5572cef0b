SPECIFICATION FairSpec
CONSTANTS
    b1 = b1
    b2 = b2
    b3 = b3
    n1 = n1
    n2 = n2
    n3 = n3
    Callers <- MixedCallers
    Blocking <- AcquireCallers
    Hanging = {b1, n1}
    Caps = {0, 1, 2}
    MaxQueue = 2
    MaxResets = 1
INVARIANTS
    TypeOK
    QueueExact
    NoLostWakeup
    NoLeakedSlot
PROPERTY
    WaiterSettles
CHECK_DEADLOCK FALSE
