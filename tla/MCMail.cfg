SPECIFICATION FairSpec
CONSTANTS
    Mails = {m1, m2}
    NoMail = NoMail
    Threads = FALSE
    Body = 0
    Header = 1
    Extra = 0
    Limited = FALSE
INVARIANTS
    NothingFreedUsed
    ResultIsTrue
PROPERTIES
    MailEnds
