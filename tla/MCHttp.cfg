SPECIFICATION FairSpec
CONSTANTS
    r1 = r1
    r2 = r2
    r3 = r3
    NoReq = NoReq
    Requests <- Two
    BadTls <- None
INVARIANTS
    FreedOnce
    MultiKnowsLiving
    CompletesLiving
    ResultIsOwn
PROPERTIES
    AnswerReaches
CHECK_DEADLOCK FALSE
