\* Commands of one agent under the lock, and the loop's own saves between agents.
CONSTANTS
  c1 = c1
  c2 = c2
  c3 = c3
  init = init
  pilot = pilot
  record = record
  Clients = {c1, c2, c3}
  Savers = {init, pilot, record}
  Requests <- MCRequests
  Job <- MCJob
  NewQueue <- MCNewQueue
  After <- AgentPhases
  InitialQueues <- NoQueue
  Nobody = Nobody
  NoFile = NoFile
  Original = Original
SPECIFICATION FairSpec
INVARIANTS MutualExclusion NoLockLeak TypeOK PathWhole AckedDoneSurvives AckedTasksDistinct
PROPERTIES EveryWriterEnds ImplementsQueue
CHECK_DEADLOCK FALSE
