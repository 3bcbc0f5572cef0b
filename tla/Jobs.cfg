SPECIFICATION FairSpec
CONSTANTS
    m1 = m1
    i1 = i1
    w1 = w1
    w2 = w2
    srv = srv
    org = org
    NoTenant = NoTenant
    Jobs = {m1, i1}
    InlineJobs = {i1}
    Runnable = {m1}
    Renewing = {m1}
    OnTimer = {}
    Runners = {w1, w2}
    Inline = srv
    MaxPerTick = 2
    TenantLimit = 1
    Priority <- M1First
    Tenant <- OneTenant
    MaxAttempts <- Attempts
    Skew <- NoSkew
    SkewBound = 0
    MaxEvents = 1
    Backoffs = {0}
    Stuck = 1
INVARIANTS
    TypeOK
    FencedResult
    OneLeaseHolder
    AttemptsBounded
PROPERTIES
    DoneIsFinal
    ImplementsLifecycle
    JobSettles
CHECK_DEADLOCK FALSE
