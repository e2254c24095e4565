SPECIFICATION Spec
CONSTANTS
    Replicas = {r1, r2}
    Tasks = {t1}
    Pages = {root, icon}
    Visited = {root}
    Root = root
    IconPath = icon
    CacheTtl = 2
    MaxTime = 3
    None = None
INVARIANTS
    CopyDiesWithEntry
