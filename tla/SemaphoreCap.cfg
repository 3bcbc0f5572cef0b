SPECIFICATION Spec
CONSTANTS
    b1 = b1
    b2 = b2
    b3 = b3
    n1 = n1
    n2 = n2
    n3 = n3
    Callers <- AcquireCallers
    Blocking <- AcquireCallers
    Hanging = {}
    Caps = {1}
    MaxQueue = 2
    MaxResets = 0
INVARIANT
    WithinCap
