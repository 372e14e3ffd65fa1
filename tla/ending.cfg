SPECIFICATION FairSpec
CONSTANTS
  BalanceWait = TRUE
  DelinquentAction = "exit"
  MaxSignals = 1
  StartingBalance = 1
  Fungible = FALSE
  Faults = {"refused", "query_error", "protocol_error"}
  MaxMints = 2
  MaxUpdates = 1
  PortTaken = FALSE
INVARIANTS EndingTypeOK GaugeNotAhead ServerDownMeansEnding SuccessMeansMinted
PROPERTIES PassMeansArrived SignalEndsRun SettledPasses
