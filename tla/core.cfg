SPECIFICATION FairSpec
CONSTANTS
  TotalWorkers = 2
  Nodes = {n1, n2}
  Parties = {n1, n2}
  TestOf <- MintAndPrivate
  ActionsPerLoop = 1
  MaxActions = 0
  NoWaitSubmission = FALSE
  SkipMintConfirmations = FALSE
  SupportsData = TRUE
  SupportsURI = FALSE
  DelinquentAction = "log"
  Daemon = FALSE
  BalanceWait = TRUE
  Faults = {}
  MaxFaults = 0
  MaxDispatch = 2
INVARIANTS
  ConfirmationsBalance
  BlockedOnCurrentLoop
PROPERTIES
  NextTaskAfterConfirm
  ClosedLoopSpec
  LoopsFinish
  EventLoopsProceed
