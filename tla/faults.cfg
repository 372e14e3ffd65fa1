SPECIFICATION Spec
CONSTANTS
  TotalWorkers = 2
  Nodes = {n1, n2}
  Parties = {n1, n2}
  TestOf <- BroadcastAndFabric
  ActionsPerLoop = 1
  MaxActions = 0
  NoWaitSubmission = FALSE
  SkipMintConfirmations = FALSE
  SupportsData = TRUE
  SupportsURI = TRUE
  DelinquentAction = "exit"
  Daemon = FALSE
  BalanceWait = FALSE
  Faults = {"foreign", "garbled", "phantom", "untracked", "no_uri", "unknown_sub", "protocol_error", "submit_error", "lost_response", "redeliver", "closed", "interrupt"}
  MaxFaults = 1
  MaxDispatch = 2
INVARIANTS TypeOK CountsAccepted
