\* Two installs, by one service or two, over one cache of verdicts and one trust root.
SPECIFICATION Spec
CONSTANTS
    Entries <- MCEntries
    Constraints <- MCConstraints
    Ladder <- MCLadder
    Manifests <- MCManifests
    Required <- MCRequired
    Optional <- MCOptional
    Digests = {"d1", "d2", "d1+unsigned"}
    Suffixed = {"d1+unsigned"}
    Short <- MCShort
    NoDigest = "none"
    Attempts = 3
    MaxRuns = 2
INVARIANTS
    ResolvesHighest
    OneRelease
    UnsignedNotSticky
    OneTrustRoot
CHECK_DEADLOCK FALSE
