\* Four orders: asks (or bids) at two prices, several at one, and takers that
\* sweep them.
CONSTANTS
    Orders = {o1, o2, o3, o4}
    Prices = {1, 2}
    Requests <- DeepRequests
    NoRequest = NoRequest
    NoOrder = NoOrder
SPECIFICATION DeepSpec
SYMMETRY Symmetry
\* A market without callers rests: no calls come once every order was submitted.
CHECK_DEADLOCK FALSE
INVARIANTS
    FillsAtBestPrice
PROPERTIES
    PlaceInQueueIsKept
    PriceTimePriority
