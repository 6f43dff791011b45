SPECIFICATION FairSpec
CONSTANTS
    Lookups = {d1, d2}
INVARIANTS
    ChannelEndsFirst
PROPERTIES
    AnswerIsResult
    LookupEnds
