SPECIFICATION ConsoleSpec
CONSTANTS
  u1 = u1
  u2 = u2
  a = a
  b = b
  d1 = d1
  None = None
  User = {u1, u2}
  Doc = {d1, d2}
  Socket = {s1, s2}
  SeedDocs <- MCSeedDocs
  Operation <- MCOperation
  Quotas <- MCQuotas
  ProcessedCap = 2
  EvictCount = 1
  SnapshotEvery = 2
  FeedCap = 1
  Tab = {w1, w2}
  Account = {a1, a2}
  Default = a1
  SignedInDemo = {a1}
  Chat = {c1, c2}
  FirstChat = c1
  Ask = {q1, q2}
  Topics = {"other"}
  Words = 2
  NewJob = {j1}
  EnqueuedType = {"REPOSITORY_INDEX"}
  MaxClicks = 5
  NewRun = {r1, r2, r3}
  Seed = r0
  Benchmarks = {"checkout-service", "rate-limiter", "auth-service"}
  TestType = {"unit", "edge_case"}
  PipelineSteps = 2
  MaxOrders = 3
  PrNumber = {140, 143, 144}
  Diff = {"empty", "sql", "loop"}
  ReviewIds = {143, 142, 7}
  MaxComments = 3
  Workspace = {"w1", "w2", "w3"}
  PageKind = {"detail", "settings"}
  MaxActs = 3
  Member = {"me", "x"}
  Me = "me"
  Role = {"ADMIN", "VIEWER"}
  Email = {"e"}
  Repo = {"r1", "r2"}
  ReposDemo = {"r1"}
  MaxCalls = 3
  MaxLoads = 2
  MaxJobs = 2
  NewId = {"d1", "d2"}
  Text = {"x", "y"}
  Name = {"rahul", "priya"}
  MaxSteps = 3
INVARIANTS
  TypesOK
  
  RoomIsUpToDate
  NothingHangs
  PagesAddUp
  
PROPERTY ConnectedIsOnline
CHECK_DEADLOCK FALSE
