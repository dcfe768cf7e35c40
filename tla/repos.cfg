SPECIFICATION Spec
CONSTANTS
  w1 = w1
  w2 = w2
  u1 = u1
  u2 = u2
  g = g
  r1 = r1
  r2 = r2
  f1 = f1
  f2 = f2
  old = old
  new = new
  binary = binary
  broken = broken
  None = None
  Workspace = {w1, w2}
  User = {u1, u2}
  Remote = {g}
  RepoId = {r1, r2}
  Caller = {c1, c2}
  Job = {j1, j2}
  File = {f1, f2}
  Rejected = {binary}
  Broken = {broken}
  RoleOf <- MCRoleOf
  SeedRows <- MCSeedRows
  Payload <- MCPayload
  Tree <- MCTree
  Quotas <- MCQuotas
CHECK_DEADLOCK FALSE
INVARIANTS
  TypeOK
  
  IndexedIsCurrent
  DeliveredOnce
PROPERTIES
  GoneStaysGone
  IndexingSettles
