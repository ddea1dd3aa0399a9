\* Two calls on one stock, a HealthCheck client, room for one event.
CONSTANTS
    Calls = {c1, c2}
    Checkers = {k1}
    Poller = poller
    s1 = s1
    c1 = c1
    Stocks = {s1}
    Requests <- MCRequests
    QueueSize = 1
    NoRequest = NoRequest
    NoBook = NoBook
SPECIFICATION FairSpec
INVARIANTS
    TypeOK
    OneMatchPerStock
    GracefulShutdownSettles
PROPERTIES
    CancelFindsRestingOrder
    DegradedModeEnds
    OutageIsNoticed
    ShutdownCompletes
CHECK_DEADLOCK FALSE
