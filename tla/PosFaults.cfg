SPECIFICATION Spec
CONSTANTS
    MaxSales = 2
    MaxRows = 2
    Amounts = {x, y}
    Payments = {p1, p2}
    Threads = {t1}
    Workers = {w1, w2}
    NoRow = NoRow
    NoAmount = NoAmount
    NoSale = NoSale
    NoPayment = NoPayment
    NoMessage = NoMessage
    Budget <- PosFaults
    w1 = w1
    w2 = w2
    p1 = p1
    p2 = p2
    x = x
    y = y
    t1 = t1
    t2 = t2
SYMMETRY Symmetric
INVARIANTS
    PendingDistinct
    RecordedByOwnPayment
    NotificationKept
    PayableWhileAnswered
PROPERTIES
    BatchedStaysBatched
\* The merchant may stop selling and the customers paying: all is done.
CHECK_DEADLOCK FALSE
