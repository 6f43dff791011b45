SPECIFICATION Spec
CONSTANTS
    Sources = {"closed", "auto", "manual"}
    Sinks = {"auto"}
    NumCmds = 2
    MaxLength = 3
    PipeCap = 1
    Burst = 2
    SinkSize = 0
    Failing <- None
    Quitters <- None
    Daemons <- None
INVARIANTS
    ChainIsLossless
CHECK_DEADLOCK FALSE
