SPECIFICATION Spec
CONSTANTS
  Job = {j1}
  Thread = {t1, t2, t3}
  None = None
  Key = {}
  NoKey = NoKey
  Retries = {0}
  Concurrency = 2
  MaxSubs = 2
  MaxCalls = 1
CHECK_DEADLOCK FALSE
SYMMETRY Symmetry
INVARIANTS
  OneLiveRun
PROPERTY
  LeaseKept
