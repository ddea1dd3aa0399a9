SPECIFICATION Spec
CONSTANTS
    t1 = t1
    t2 = t2
    t3 = t3
    o1 = o1
    o2 = o2
    o3 = o3
    o4 = o4
    NoRow = NoRow
    Orders = {o1, o2, o3, o4}
    Traders = {t1, t2, t3}
    MaxTrades = 1
    WireEvents <- SelfTradeEvents
    InitialCash <- MCInitialCash
    InitialPositions <- NoPositions
PROPERTY SelfTradeReleasesHold
