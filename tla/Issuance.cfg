SPECIFICATION OrderSpec
CONSTANTS
    None = None
    Old = Old
    Replicas <- NoReplica
    Domains = {d1, d2}
    Auths = {base, wildcard}
    Lifetime = 5
    Margin = 4
    Interval = 1
    MaxCerts = 20
    MaxFaults = 2
    MaxTime = 8
    MaxPolls = 2
INVARIANTS
    AnswerableChallenges
    RenewedInTime
PROPERTIES
    IssueEnds
CHECK_DEADLOCK FALSE
