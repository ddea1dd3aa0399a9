\* Liveness: a producer with more events than the channel and the worker can
\* hold, the poller and a handler whose ping may fail with Valkey up.
CONSTANTS
    Producers = {p1}
    Checkers = {k1}
    Poller = poller
    BufferSize = 1
    MaxRetries = 1
    MaxEvents = 3
    MaxCopies = 1
    NoEvent = NoEvent
SPECIFICATION FairSpec
PROPERTIES
    DeliveredAfterRecovery
    WorkerStopsAfterClose
    PublishReturns
