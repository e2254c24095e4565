SPECIFICATION Spec
CONSTANTS
    Replicas = {r1}
    Ips = {i1}
    Rps = 1
    Rpm = 0
    Burst = 2
    Second = 2
    KeyTtl = 4
    MaxTime = 7
    MaxRaces = 0
    MaxFaults = 0
    None = None
INVARIANTS
    RefusedOnlyWhenEmpty
