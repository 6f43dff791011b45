SPECIFICATION Spec
CONSTANTS
    Sources = {"closed", "auto", "fd", "transfer", "manual"}
    Sinks = {"discard", "fd", "manual"}
    NumCmds = 2
    MaxLength = 3
    PipeCap = 1
    Burst = 1
    SinkSize = 0
    Failing <- Both
    Quitters <- First
    Daemons <- None
CONSTRAINT
    Bounded
INVARIANTS
    NoHoles
    OutputTaken
    DoneIsFinal
    
    PipesReleased
CHECK_DEADLOCK FALSE
