SPECIFICATION Spec
CONSTANTS
  Job = {j1, j2}
  Thread = {t1, t2}
  None = None
  Key = {}
  NoKey = NoKey
  Retries = {0}
  Concurrency = 1
  MaxSubs = 1
  MaxCalls = 1
CHECK_DEADLOCK FALSE
SYMMETRY Symmetry
INVARIANTS
  TypeOK
  NothingLeaks
  QueuedIsCarried
PROPERTY
  CancelHolds
