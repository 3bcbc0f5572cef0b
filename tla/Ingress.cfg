SPECIFICATION Spec
CONSTANTS
    d1 = d1
    d2 = d2
    d3 = d3
    Deliveries <- ThreePushes
    Jobs <- TwoLensJobs
    Lenses <- BothLenses
    Pushes = {d2, d3}
    MaxFaults = 1
    HeadOf <- PushOrder
    MaxAttempts <- Attempts
INVARIANTS
    TypeOK
    ReviewNotLost
    SupersededUnlessRearmed
CHECK_DEADLOCK FALSE
