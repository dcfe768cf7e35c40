SPECIFICATION Spec
CONSTANTS
  Job = {j1, j2}
  Thread = {t1, t2}
  None = None
  Key = {k1}
  NoKey = NoKey
  Retries = {0}
  Concurrency = 1
  MaxSubs = 1
  MaxCalls = 0
CHECK_DEADLOCK FALSE
INVARIANT
  OneJobPerKey
