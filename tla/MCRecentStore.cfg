SPECIFICATION FairSpec
CONSTANTS
    IDs = {t1, t2}
    Callers = {c1, c2}
    Evictors = {g1, g2}
    MinEvictAge = 1
    Horizon = 3
    Restored = {t1}
    Faults = TRUE
    None = None
PROPERTIES
    KeepsOnlyRecent
    RecordedGetsEvicted
