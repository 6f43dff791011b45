SPECIFICATION UseSpec
CONSTANTS
    Word = 16
    MaxWin = 4
    MaxSize = 6
    MaxJump = 3
INVARIANTS
    CursorInList
PROPERTIES
    EntryKept
    MovesByOne
CHECK_DEADLOCK FALSE
