\* Two calls of any kind, at a time or in turn, on two components of two paths each.
CONSTANTS
  p1 = p1
  p2 = p2
  None = None
  Procs = {p1, p2}
  N = 2
  M = 2
  Irreversible <- MCIrreversible
  InitialTrees <- WholeComponents
SPECIFICATION FairSpec
PROPERTIES ImplementsPromise EveryCallEnds
CHECK_DEADLOCK FALSE
