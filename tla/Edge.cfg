SPECIFICATION Spec
CONSTANTS
    r1 = r1
    Replicas = {r1, r2}
    Secrets = {s1, s2, s3}
    NoSecret = NoSecret
    Blank = Blank
    MaxDeletes = 0
    Ips = {i1, i2}
    Perm = {}
    Challenges = {c1, c2}
    ChallengeTtl = 1
    SessionTtl = 1
    Skew <- OneAhead
    Tolerance = 1
    MaxWaiting = 1
    MaxTime = 3
    None = None
SYMMETRY AddressSymmetry
VIEW SeenReply
INVARIANTS
    TypeOK
    OneSolveOneClearance
    AdmissionJustified
    ClearanceHonoured
    HandedOutStaysLive
