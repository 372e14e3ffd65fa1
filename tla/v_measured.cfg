SPECIFICATION Spec
CONSTANTS
  Callers = {c1, c2}
  MaxCalls = 2
INVARIANTS CountedAtomically
CHECK_DEADLOCK FALSE
