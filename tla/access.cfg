\* Roles, permissions and admins; sessions; the seed program.
SPECIFICATION MCSpec
CONSTANTS
  None = None
  r1 = r1  r2 = r2  x1 = x1  x2 = x2  u1 = u1  u2 = u2  m1 = m1  p1 = p1  p2 = p2
  Roles = {r1, r2}
  Perms = {x1, x2}
  Admins = {u1, u2}
  Members = {m1}
  Names = {"super_admin", "pastor"}
  SystemNames = {"super_admin"}
  Keys = {"k1", "k2"}
  Seeded = {u1}
  Reqs = {p1, p2}
  Ops <- AllOps
  MayFail = TRUE
  SessionChurches = {"c1", "c2"}
  SessionNames = {"n"}
  Devices = {"d1", "d2"}
  Life = 2
  LastDay = 3
  SeedProgram <- SmallProgram
  SeedChurches = {"c"}
  MaxRuns = 3
  MaxEdits = 1
  Parts = {"admins", "roles", "perms", "sessions", "seed"}
INVARIANTS PlatformTypeOK PersonalRoleIsLastList SerialNamesUnique SerialDeletedPermitsNothing  NothingTwice
PROPERTIES RefreshFollowsLatestLogin
\* Clients may stop calling, and the seed has a last run.
CHECK_DEADLOCK FALSE
