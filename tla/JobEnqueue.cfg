SPECIFICATION Spec
CONSTANTS
    r1 = r1
    r2 = r2
    r3 = r3
    r4 = r4
    a = a
    b = b
    k = k
    NoKey = NoKey
    NoCall = NoCall
    Jobs = {r1, r2, r3, r4}
    Key <- SameKey
    Tenant <- TwoTenants
    MaxAttempts <- Attempts
    MaxResubmits = 1
SYMMETRY Symmetry
INVARIANTS
    TypeOK
    UniqueInFlight
    AnswerWasInFlight
    ThrowsOnlyAfterTwoWinners
CHECK_DEADLOCK FALSE
