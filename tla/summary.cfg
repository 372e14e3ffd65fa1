SPECIFICATION Spec
CONSTANTS
  Callers = {c1, c2, c3}
  MaxCalls = 3
INVARIANTS MeasuredBounded
CHECK_DEADLOCK FALSE
