SPECIFICATION Spec
CONSTANTS
  Workspace = {w1, w2}
  User = {u1, u2}
  Slug = {s1, s2}
  Role = {"ADMIN", "DEVELOPER"}
  Invitation = {i1}
  Call = {c1, c2}
  Seed = {w1}
  None = None
SYMMETRY Symmetry
INVARIANTS
  TypeOK
  SlugsIndexed
  CountFollowsMembers
  SerialAdminRemains
  SerialNoOrphans
PROPERTY
  SerialSettledInvitations
