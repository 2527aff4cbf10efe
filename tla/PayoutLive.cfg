SPECIFICATION FairSpec
CONSTANTS
    Sales = {s1, s2}
    Merchants = {m1, m2}
    MerchantOf <- OneOfEach
    Requests = {r1}
    Workers = {w1, w2}
    Cron = cron
    NoBatch = NoBatch
    NoMessage = NoMessage
    MaxBatches = 2
    Budget <- LiveFaults
    s1 = s1
    s2 = s2
    m1 = m1
    m2 = m2
    w1 = w1
    w2 = w2
PROPERTIES
    EveryBatchPaidOrStuck
    PaidIsAggregated
