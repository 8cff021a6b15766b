\* Two overlapping requests that change a church's members, counter and roles; either may die.
CONSTANTS
  admin1 = admin1  admin2 = admin2  root = root  u1 = u1  u2 = u2
  c1 = c1  c2 = c2  p1 = p1  p2 = p2
  None = None
  NoChurch = NoChurch
  Users = {admin1, u1, u2}
  Churches = {c1}
  Roles <- FiveRoles
  Rules <- ChainRules
  AssignPermitted <- Permitted
  Owner <- OneOwner
  Seed <- MemberSeed
  SuperAdmins = {}
  SystemAdmins = {}
  Reqs = {p1, p2}
  Ops <- ChurchOps
  MayFail = TRUE
  Scenarios = {"counting", "moving", "updating"}
SPECIFICATION MCSpec
SYMMETRY RequestSymmetry
INVARIANTS TypeOK CountWithinRows RolesFollowRules RoleNeedsMembershipRow
PROPERTIES FreshCountIsExact
\* Clients may stop calling, or be left with no valid call.
CHECK_DEADLOCK FALSE
