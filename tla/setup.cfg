SPECIFICATION FairSpec
CONSTANTS
  NumNodes = 2
  TestSets <- Configured
  Faults = {"refused", "lost", "unreachable", "undeleted", "reconnect"}
  MaxFaults = 1
INVARIANTS
  SetupTypeOK
  TestsHaveEvents
  StartedAreKnown
  NothingLeftBehind
  MintedBeforeWorkers
PROPERTIES
  StartDecides
CHECK_DEADLOCK FALSE
