SPECIFICATION Spec
CONSTANTS
    Sales = {s1, s2}
    Merchants = {m1}
    MerchantOf <- AllOfOne
    Requests = {r1, r2}
    Workers = {w1}
    Cron = cron
    NoBatch = NoBatch
    NoMessage = NoMessage
    MaxBatches = 5
    Budget <- WebFaults
    s1 = s1
    s2 = s2
    m1 = m1
    m2 = m2
    w1 = w1
    w2 = w2
INVARIANTS
    CapturedWithinSummed
