SPECIFICATION FairSpec
CONSTANTS
    t1 = t1
    t2 = t2
    t3 = t3
    a = a
    b = b
    NoProc = NoProc
    Flags = {a, b}
    Threads = {t1, t2, t3}
    ProcOf <- EachItsOwn
    Requests <- Sets
    Crashing <- First
    Faulty <- Second
    MaxLocks = 2
INVARIANTS
    Exclusive
    HeldHasFile
PROPERTIES
    ImplementsOwners
    FlockReleased
CHECK_DEADLOCK FALSE
