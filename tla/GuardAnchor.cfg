SPECIFICATION Spec

CONSTANTS
    x1 = x1
    x2 = x2
    f1 = f1
    Requests <- OneOfEach
    Xhr <- OneXhr
    Ttl = 3
    Buffer = 1
    Wait = 1
    MaxAge = 2
    MaxLag = 0
    MaxTime = 6

INVARIANT
    NeverOnRejectedCookie
CHECK_DEADLOCK FALSE
