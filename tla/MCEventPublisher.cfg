\* Two books publishing through a channel of one, a poller and a handler that probe.
CONSTANTS
    Producers = {p1, p2}
    Checkers = {k1}
    Poller = poller
    BufferSize = 1
    MaxRetries = 1
    MaxEvents = 2
    MaxCopies = 1
    NoEvent = NoEvent
SPECIFICATION Spec
SYMMETRY Symmetry
INVARIANTS
    TypeOK
    CloseSettlesEverything
PROPERTIES
    AtLeastOnceInOrder
