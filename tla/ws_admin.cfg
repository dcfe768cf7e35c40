SPECIFICATION Spec
CONSTANTS
  Workspace = {w1}
  User = {u1, u2}
  Slug = {s1}
  Role = {"ADMIN", "DEVELOPER"}
  Invitation = {i1}
  Call = {c1, c2}
  Seed = {}
  None = None
PROPERTY
  LastAdminStays
