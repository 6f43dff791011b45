SPECIFICATION FairSpec
CONSTANTS
    Sources = {"auto", "manual"}
    Sinks = {"auto"}
    NumCmds = 2
    MaxLength = 2
    PipeCap = 2
    Burst = 1
    SinkSize = 0
    Failing <- None
    Quitters <- None
    Daemons <- First
INVARIANTS
    WholeInput
PROPERTIES
    Terminates
CHECK_DEADLOCK FALSE
