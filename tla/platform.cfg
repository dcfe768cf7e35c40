SPECIFICATION Spec
CONSTANTS
  None = None
  UserId = {i1, i2, i3}
  Email = {e1, e2}
  Password = {p1, p2}
  Token = {k1, k2, k3}
  Caller = {x1, x2}
  MaxRequests = 4
  Seeds <- MCSeeds
  Run = {r1, r2}
  Role = {"DEVELOPER", "VIEWER"}
  Requested = {0, 4}
  MaxOrders = 1
  Conv = {c1, c2}
  Welcome = c1
  Words = 2
  MaxMessages = 6
  Review = {v1, v2}
  Seeded = {v2}
  Diffs <- MCDiffs
  Publisher = {b1, b2}
  MaxPosts = 2
  Suite = {s1}
  Case = {t1, t2, t3}
  Runner = {n1, n2}
  File <- MCFile
  Module = {"lib"}
  TopK = 2
  MinScore = 1
  MaxScore = 2
  MaxChunks = 4
  MaxContextTokens = 3
  Sizes = {1, 2, 4}
  MaxLines = 300
  Starts = {1, 7}
  MaxChunkLines = 120
  WindowSize = 80
  Overlap = 10
  BlockSize = 40
  ParsedLength <- MCParsedLength
  GenericLength = {1, 50, 51, 95, 96}
  BlockLines = 2
  StatementLines = 2
  Duration = {1, 3}
  HttpCap = 2
  AiCap = 2
  AuditCap = 3
  FeedCap = 2
  Actor = {"a", "b"}
  Workspace = {"p", "w"}
  Primary = "p"
  MaxRecords = 3
  BatchSize <- MCBatchSize
  TotalChunks <- MCTotalChunks
  MaxRounds = 30
  Repository = {core, default, other}
  Core = core
  Default = default
  Page = {0, 1, 2, 3}
  Limit = {0, 5}
  AnalysedLength <- MCAnalysedLength
  HandlerLines = 2
  ClassLines = 2
  MaxPath = 3
INVARIANTS
  
  EmailsIndexed
  TokenUsedOnce
  CompletedRunIsWhole
  StopIsHonoured
  ChargedForWhatWasDelivered
  ApprovalEarned
  
  
  BestAreSelected
  ChunksCoverTheFile
  
PROPERTIES
  WorkEnds
CHECK_DEADLOCK FALSE
