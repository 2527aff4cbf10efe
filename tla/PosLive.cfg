SPECIFICATION FairSpec
CONSTANTS
    MaxSales = 2
    MaxRows = 2
    Amounts = {x}
    Payments = {p1, p2}
    Threads = {t1, t2}
    Workers = {w1}
    NoRow = NoRow
    NoAmount = NoAmount
    NoSale = NoSale
    NoPayment = NoPayment
    NoMessage = NoMessage
    Budget <- LiveFaults
    w1 = w1
    w2 = w2
    p1 = p1
    p2 = p2
    x = x
    y = y
    t1 = t1
    t2 = t2
PROPERTIES
    PaidTurnsGreen
\* The merchant may stop selling and the customers paying: all is done.
CHECK_DEADLOCK FALSE
