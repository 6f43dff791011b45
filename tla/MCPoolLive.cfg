SPECIFICATION FairSpec
CONSTANTS
    p1 = p1
    p2 = p2
    p3 = p3
    Procs = {p1, p2}
    NoProc = NoProc
    MaxWorkers = 2
    Desired <- DesiredMixed
PROPERTIES
    RequestServed
    ShutdownCompletes
CHECK_DEADLOCK FALSE
