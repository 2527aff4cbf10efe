SPECIFICATION FairSpec
CONSTANTS
    Clients = {c1}
    Agents = {a1}
    Amounts <- SomeAmounts
    Funds = 2
    Fee = 1
    MaxRows = 2
    MaxCalls = 4
    NoRow = NoRow
    NoMessage = NoMessage
    NoAnswer = NoAnswer
    Budget <- RpcFaults
    c1 = c1
    a1 = a1
CONSTRAINT
    TwoFaults
INVARIANTS
    TypeOK
    ProcessedWasSent
    SentOncePerDelivery
    NeverWaitsInVain
PROPERTIES
    EveryCommandServed
\* Users may stop withdrawing: all is done.
CHECK_DEADLOCK FALSE
