SPECIFICATION PolicySpec
CONSTANTS
    Conns <- MCConns
    Keys <- MCKeys
    KeyOf <- MCKeyOf
    Manifests = {{}, {"q:b"}}
    Modes = {"interactive", "allow-all"}
    Commands = {"k1"}
    Scopes <- MCScopes
    Overlap = FALSE
    MaxFaults = 1
INVARIANTS
    PolicyKept
PROPERTIES
    OnlyTheAskedWait
CHECK_DEADLOCK FALSE
