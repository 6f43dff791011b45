SPECIFICATION Spec
CONSTANTS
    Fds = {f1, f2}
    Refs = {1, 2}
    Word = 8
    DataMax = 3
    DequeueMax = 2
    OpenMax = 1
    Period = 1
    ClientThreads = TRUE
INVARIANTS
    SocketsAccounted
    NothingStale
PROPERTIES
    NothingDroppedEarly
    ConnsEnd
CHECK_DEADLOCK FALSE
