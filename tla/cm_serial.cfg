\* One request at a time, none of which dies: of the church admins, or of the platform.
CONSTANTS
  admin1 = admin1  admin2 = admin2  root = root  u1 = u1  u2 = u2
  c1 = c1  c2 = c2  p1 = p1  p2 = p2
  None = None
  NoChurch = NoChurch
  Users = {admin1, admin2, u1, root}
  Churches = {c1, c2}
  Roles <- ThreeRoles
  Rules <- AdminRules
  AssignPermitted <- AdminPermitted
  Owner <- TwoOwners
  Seed <- NoSeed
  SuperAdmins = {root}
  SystemAdmins = {}
  Reqs = {p1}
  Ops <- AllOps
  MayFail = FALSE
  Scenarios = {"church", "platform"}
SPECIFICATION MCSpec
INVARIANTS CounterExactAtRest RolesOfActiveMembers DeletedKeepsNothing RemovedIffDeleted
\* Clients may stop calling, or be left with no valid call.
CHECK_DEADLOCK FALSE
