SPECIFICATION FairSpec

CONSTANTS
    r1 = r1
    Replicas = {r1, r2}
    Secrets = {s1, s2}
    NoSecret = NoSecret
    Blank = Blank
    MaxDeletes = 1
    Ips = {i1, i2}
    Perm = {i2}
    Challenges = {c1}
    ChallengeTtl = 1
    SessionTtl = 0
    Skew <- OneAhead
    Tolerance = 1
    MaxWaiting = 1
    MaxTime = 2
    None = None

VIEW SeenAdmission
INVARIANTS
    KeyAgreement
    KeysWereStored
PROPERTIES
    ImplementsClearance
    ExpiredSwept
