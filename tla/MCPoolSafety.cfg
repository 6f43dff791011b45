SPECIFICATION Spec
CONSTANTS
    p1 = p1
    p2 = p2
    p3 = p3
    Procs = {p1, p2, p3}
    NoProc = NoProc
    MaxWorkers = 3
    Desired <- DesiredMixed
INVARIANTS
    OnePlace
    LoadCount
    WorkerDrained
    Balanced
PROPERTIES
    ImplementsPoolSafety
CHECK_DEADLOCK FALSE
