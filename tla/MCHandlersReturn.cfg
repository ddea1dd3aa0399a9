\* Liveness, without symmetry.
CONSTANTS
    Orders = {o1, o2, o3}
    Prices = {1, 2}
    Requests <- DeepAsks
    NoRequest = NoRequest
    NoOrder = NoOrder
SPECIFICATION FairSpec
\* A market without callers rests: no calls come once every order was submitted.
CHECK_DEADLOCK FALSE
PROPERTIES
    HandlersReturn
