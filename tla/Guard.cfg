SPECIFICATION FairSpec

CONSTANTS
    x1 = x1
    x2 = x2
    f1 = f1
    Requests <- ThreeRequests
    Xhr <- TwoXhr
    Ttl = 3
    Buffer = 1
    Wait = 1
    MaxAge = 2
    MaxLag = 2
    MaxTime = 6

INVARIANTS
    TypeOK
    HeldOnlyWhileInvalid
    SentWithinSlack
PROPERTIES
    AnsweredOnce
    HeldEnds
    KeepsRenewing
CHECK_DEADLOCK FALSE
