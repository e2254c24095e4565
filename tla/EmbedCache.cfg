SPECIFICATION FairSpec
CONSTANTS
    Replicas = {r1}
    Tasks = {t1, t2}
    Pages = {root, icon}
    Visited = {root}
    Root = root
    IconPath = icon
    CacheTtl = 2
    MaxTime = 4
    None = None
INVARIANTS
    TypeOK
    SingleFlight
    ServedWithinTwoWindows
PROPERTIES
    FetchOncePerWindow
    LoadEnds
