SPECIFICATION Spec
CONSTANTS
    Replicas = {r1, r2}
    Ips = {i1}
    Rps = 1
    Rpm = 2
    Burst = 2
    Second = 2
    KeyTtl = 4
    MaxTime = 5
    MaxFaults = 1
    MaxRaces = 2
    None = None
SYMMETRY Symmetry
INVARIANTS
    TypeOK
    
    PatientNeverRefused
