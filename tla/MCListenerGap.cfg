\* A single process and a stream of two entries.
CONSTANTS
    Kinds <- MCKinds
    BatchSize = 2
    MaxEntries = 2
    MaxRestarts = 0
    Latest = Latest
SPECIFICATION Spec
INVARIANTS
    ReadsContinuously
CHECK_DEADLOCK FALSE
