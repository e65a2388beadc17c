\* One `done` from outside the agent, not ordered with the loop's own save.
CONSTANTS
  c1 = c1
  c2 = c2
  c3 = c3
  init = init
  pilot = pilot
  record = record
  Clients = {c1}
  Savers = {record}
  Requests <- OneDone
  Job <- MCJob
  NewQueue <- MCNewQueue
  After <- Unordered
  InitialQueues <- HasQueue
  Nobody = Nobody
  NoFile = NoFile
  Original = Original
SPECIFICATION FairSpec
INVARIANTS AckedDoneSurvives
CHECK_DEADLOCK FALSE
