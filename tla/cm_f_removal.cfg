\* A member is removed while a role is being assigned.
CONSTANTS
  admin1 = admin1  admin2 = admin2  root = root  u1 = u1  u2 = u2
  c1 = c1  c2 = c2  p1 = p1  p2 = p2
  None = None
  NoChurch = NoChurch
  Users = {admin1, u1}
  Churches = {c1}
  Roles <- ThreeRoles
  Rules <- AdminRules
  AssignPermitted <- AdminPermitted
  Owner <- OneOwner
  Seed <- MemberSeed
  SuperAdmins = {}
  SystemAdmins = {}
  Reqs = {p1, p2}
  Ops <- ChurchOps
  MayFail = FALSE
  Scenarios = {"removing"}
SPECIFICATION MCSpec
SYMMETRY RequestSymmetry
INVARIANTS RemovalDropsRoles
\* Clients may stop calling, or be left with no valid call.
CHECK_DEADLOCK FALSE
