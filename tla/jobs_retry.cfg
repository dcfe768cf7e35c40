SPECIFICATION FairSpec
CONSTANTS
  Job = {j1}
  Thread = {t1, t2}
  None = None
  Key = {}
  NoKey = NoKey
  Retries = {1}
  Concurrency = 1
  MaxSubs = 1
  MaxCalls = 0
CHECK_DEADLOCK FALSE
PROPERTY
  RetryHappens
