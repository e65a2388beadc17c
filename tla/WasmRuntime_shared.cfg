SPECIFICATION Spec
CONSTANTS
    t1 = t1
    t2 = t2
    Threads <- MCThreads
    Bodies <- MCBodies
    Size <- MCSize
    Budget = 3
    Broken = {"broken"}
    MaxCalls = 4
SYMMETRY ThreadSymmetry
INVARIANTS
    CacheSound
    TidyUntilDoubled
    LoneCallSucceeds
CHECK_DEADLOCK FALSE
