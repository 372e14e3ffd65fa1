SPECIFICATION FairSpec
CONSTANTS
  TotalWorkers = 2
  Nodes = {n1}
  Parties = {n1}
  TestOf <- AllBroadcast
  ActionsPerLoop = 1
  MaxActions = 2
  NoWaitSubmission = TRUE
  SkipMintConfirmations = FALSE
  SupportsData = TRUE
  SupportsURI = FALSE
  DelinquentAction = "log"
  Daemon = FALSE
  BalanceWait = FALSE
  Faults = {"closed"}
  MaxFaults = 1
  MaxDispatch = 4
INVARIANTS
  OvershootBound
PROPERTIES
  MaxActionsEndTest
  TestEnds
