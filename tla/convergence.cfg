SPECIFICATION Spec
CONSTANTS
  User = {u1, u2}
  ProcessedCap = 10
  EvictCount = 1
  Char = {a, b}
  MaxEdits = 1
CHECK_DEADLOCK FALSE
INVARIANT Convergence
