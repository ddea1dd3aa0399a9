\* Three orders, each of a trader who can cover it.
CONSTANTS
    Orders = {o1, o2, o3}
    Prices = {1, 2}
    Requests <- MCRequests
    NoRequest = NoRequest
    NoOrder = NoOrder
    InitialCash = 4
    InitialShares = 2
    MaxTrades = 6
    NoRow = NoRow
SPECIFICATION PlatformSpec
SYMMETRY Symmetry
\* A market without callers rests: no calls come once every order was submitted.
CHECK_DEADLOCK FALSE
INVARIANTS
    EveryEventCommits
    NextEventIsCovered
    OrdersTableTellsTheBook
    HoldsMatchOpenOrders
    BalancesFollowTheTape
