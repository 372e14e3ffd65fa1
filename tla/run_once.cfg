SPECIFICATION FairSpec
CONSTANTS
  Actions = {a1, a2}
  MaxRetries = 2
INVARIANTS OkMeansAccepted KeyedOnce FailedMeansExhausted MessageHasItsBlob
PROPERTIES RunOnceEnds
CHECK_DEADLOCK FALSE
