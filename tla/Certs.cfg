SPECIFICATION FairSpec
CONSTANTS
    r1 = r1
    d1 = d1
    d2 = d2
    None = None
    Replicas <- OneReplica
    Domains <- TwoDomains
    Lifetime = 1
    Margin = 2
    Interval = 1
    MaxCerts = 4
    MaxFaults = 2
    MaxTime = 2
INVARIANTS TypeOK SettledIsCurrent
PROPERTIES HeldUnlessLost PickedUp
CHECK_DEADLOCK FALSE
