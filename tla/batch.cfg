SPECIFICATION FairSpec
CONSTANTS
  Nodes = {n1, n2}
  Workers = {0, 1}
  ActionsPerLoop = 1
  NoWaitSubmission = FALSE
  Faults = {"foreign", "garbled", "unknown_sub", "phantom", "protocol_error", "lost_ack", "closed"}
  MaxFaults = 1
  FaultyNodes = {n1}
  MaxBatch = 2
  MaxLoops <- TwoThenOne
INVARIANTS TypeOK AckedWasTaken
PROPERTIES FailedNotAcked ClosedLoopSpec LoopsFinish FailedBatchEnds
CHECK_DEADLOCK FALSE
