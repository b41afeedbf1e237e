SPECIFICATION AccessRunSpec
CONSTANTS
  ta = ta
  tb = tb
  User = {"pe"}
  RoleOf <- MCRoles
  TeamsOf <- MCTeams
  Permission = {"tenant.admin"}
  Member = {"m1"}
  TeamId = {ta, tb}
  AnchorTeam = ta
  TeamName = {"org-admins", "custom"}
  AnchorName = "org-admins"
  OrgRole = {"admin", "custom"}
  AdminRole = "admin"
  AnchorTeamForRole <- MCAnchor
  InitialTeams <- MCInitialTeams
  TenancyCall = {"k1", "k2"}
  MaxTenancyRequests = 2
  MaxTenancyFaults = 1
  Replica = {"ra", "rb"}
  Redis = "redis"
  AccessObject = {"o1"}
  AccessCall = {"q1", "q2"}
  MaxEntries = 2
  MaxAccessRequests = 3
  MaxAccessFaults = 1
CHECK_DEADLOCK FALSE
INVARIANTS AdminRetained NoStaleAllow
PROPERTIES AccessConverges
