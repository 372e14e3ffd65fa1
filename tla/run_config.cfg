SPECIFICATION Spec
CONSTANTS
  InstanceNames = {"a", "b"}
  MaxInstances = 2
  MaxNodes = 2
  Indices <- SomeIndices
  LoopCounts <- SomeLoopCounts
INVARIANTS ReadyIsRunnable
