\* Two runs, one after the other, with agents, a user and kills.
CONSTANTS
  l1 = l1
  l2 = l2
  Loops = {l1, l2}
  After <- Resume
  PilotModes = {TRUE, FALSE}
  Interval = 2
  MaxIterations <- TwoThenOne
  MaxConsecFails = 2
  Registry <- MCRegistry
  Commands <- MCCommands
  MaxCommands = 2
  InitialDocs <- ChainOnly
SPECIFICATION Spec
INVARIANTS NotCountedTwice
PROPERTIES NoRework
CHECK_DEADLOCK FALSE
