\* Three orders of every kind.
CONSTANTS
    Orders = {o1, o2, o3}
    Prices = {1, 2}
    Requests <- AllKinds
    NoRequest = NoRequest
    NoOrder = NoOrder
SPECIFICATION Spec
SYMMETRY Symmetry
\* A market without callers rests: no calls come once every order was submitted.
CHECK_DEADLOCK FALSE
INVARIANTS
    TypeOK
    MutualExclusion
    BookWellFormed
    OnlyOpenLimitOrdersRest
    BookNeverCrossed
    SharesConserved
    StreamTellsTheBook
    EventLifecycle
    FilledExactlyWhenAllTraded
    MarketBuyersCanPay
