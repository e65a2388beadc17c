SPECIFICATION SyncSpec
CONSTANTS
    Runners = {p1, p2}
    Root = "."
    Folders = {"a", "a/u", "a/u/v"}
    Order <- MCOrder
    Within <- MCWithin
    Depth <- MCDepth
    Ignored = {}
    Unreadable = {"a/u"}
    Limits = {3}
    Found <- MCFound
    Edited = {"a"}
    MaxEdits = 1
    MaxRuns = 2
    MaxFaults = 1
INVARIANTS
    SyncedUnlessRecorded
    InitWhole
PROPERTY
    UserTextKept
SYMMETRY Symmetry
CHECK_DEADLOCK FALSE
