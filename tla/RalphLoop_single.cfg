\* One run with its agents, a user and kills.
CONSTANTS
  l1 = l1
  l2 = l2
  Loops = {l1}
  After <- Resume
  PilotModes = {TRUE, FALSE}
  Interval = 2
  MaxIterations <- Three
  MaxConsecFails = 2
  Registry <- MCRegistry
  Commands <- MCCommands
  MaxCommands = 2
  InitialDocs <- ChainAndStuck
SPECIFICATION FairSpec
INVARIANTS CapRespected StopsOnStreak ImplementsATask
PROPERTIES EveryRunEnds
CHECK_DEADLOCK FALSE
