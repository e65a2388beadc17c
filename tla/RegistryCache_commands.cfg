SPECIFICATION Spec
CONSTANTS
    Procs = {p1, p2}
    Sources <- MCSources
    Name = "x"
    Published <- MCPublished
    First <- MCFirst
    Last <- MCLast
    CachePath <- MCCachePath
    MaxRuns = 3
    MaxFaults = 1
SYMMETRY Symmetry
INVARIANTS
    CacheServed
    FindsRecent
    UpdateIsCurrent
CHECK_DEADLOCK FALSE
