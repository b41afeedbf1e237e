CONSTANTS
  t1 = t1
  a1 = a1
  a2 = a2
  g1 = g1
  g2 = g2
  User = {"op", "vi"}
  RoleOf <- MCRoles
  TeamsOf <- MCTeams
  Token <- MCToken
  Admin <- MCAdmin
  Agent <- MCAgent
  ApprovalRequired = TRUE
  DexFanout = TRUE
  NoToken = NoToken
  MaxAborts = 0
SPECIFICATION FairSpec
PROPERTY RevokedNeverReconnects
CHECK_DEADLOCK FALSE
