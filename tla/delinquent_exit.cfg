SPECIFICATION FairSpec
CONSTANTS
  TotalWorkers = 2
  Nodes = {n1}
  Parties = {n1}
  TestOf <- BroadcastAndFabric
  ActionsPerLoop = 2
  MaxActions = 0
  NoWaitSubmission = FALSE
  SkipMintConfirmations = FALSE
  SupportsData = TRUE
  SupportsURI = FALSE
  DelinquentAction = "exit"
  Daemon = TRUE
  BalanceWait = FALSE
  Faults = {"closed", "submit_error"}
  MaxFaults = 1
  MaxDispatch = 2
INVARIANTS LoopLedger TrackingExact
PROPERTIES StuckActionEndsTest
