SPECIFICATION FairSpec
CONSTANTS
    a1 = a1
    a2 = a2
    b1 = b1
    x1 = x1
    x2 = x2
    y1 = y1
    k1 = k1
    k2 = k2
    None = None
    Committed = Committed
    Conns = {a1, a2, b1}
    Server <- MCServer
    Calls = {k1, k2}
    Sends = {x1, x2, y1}
    Message <- MCMessage
    MaxPending = 1
    Workloads <- MCWorkloads
INVARIANTS TypeOK NothingLeftBehind WakesOnlyClaimants InboxBounded SentOnce
CHECK_DEADLOCK FALSE
PROPERTY Recovers
