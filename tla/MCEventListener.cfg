\* Batches of two from a stream of up to four entries, one restart.
CONSTANTS
    Kinds <- MCKinds
    BatchSize = 2
    MaxEntries = 4
    MaxRestarts = 1
    Latest = Latest
SPECIFICATION FairSpec
INVARIANTS
    TypeOK
    NoGapOncePositioned
PROPERTIES
    AtMostOnceInOrder
    CatchesUp
CHECK_DEADLOCK FALSE
