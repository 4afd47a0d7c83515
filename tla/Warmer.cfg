SPECIFICATION FairSpec
CONSTANTS
    q1 = q1
    q2 = q2
    a = a
    b = b
    Requests = {q1, q2}
    Capacity = 1
    Fingerprints = {a, b}
    BatchSize = 2
    MaxGeneration = 3
    MaxRecords = 2
    None = None
CHECK_DEADLOCK FALSE
INVARIANTS
    NoProcessForgotten
PROPERTIES
    YieldsToForeground
    DiscardsOnlyUnchanged
    ShutdownEnds
    WorkerIsReleased
