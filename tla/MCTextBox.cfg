SPECIFICATION Spec
CONSTANTS
    Word = 32
    MaxWin = 6
    MaxSize = 5
    Chars = {"a", "_"}
    Boundaries = {"_"}
    Digits = {}
    LenMax = 3
    NumbersOnly = FALSE
    WidthDefault = 6
    Given <- MCGiven
    Widths = {6}
    Bounds = {0}
    Frames = {TRUE}
    Paddings = {TRUE, FALSE}
    KeptMax = 1
VIEW Seen
INVARIANTS
    IndexMatchesText
    LostOnlyThere
PROPERTIES
    EditInPlace
    KeyTells
CHECK_DEADLOCK FALSE
