SPECIFICATION AgentSpec
CONSTANTS
  Cap = {a, b}
  NoSum = n
  MaxChanges = 2
  MaxDrops = 1
  MaxStreams = 2
  Cmd = {c1}
  Session = {s1, s2}
  NoCmd = n
  DueLimit = 1
  MaxLosses = 1
  User = {"pe"}
  RoleOf <- MCRoles
  TeamsOf <- MCTeams
  BaseResource = {"realm"}
  ClientResource = {"client"}
  PlatformCluster = {"p"}
  OrgCluster = {"c"}
  ResourceCall = {k1, k2}
  MaxResourceRequests = 2
  MaxResourceFaults = 1
  MaxHealthChanges = 2
  MaxInFlight = 2
  Tunnel = {s1, s2}
  ProxyConn = {q1}
  Watcher = w
  FlagReader = {s1, s2, q1, w}
  NoTunnel = n
  MaxFlagWrites = 1
  MaxFlagFaults = 1
  ConnChanBounds = 1
  ByteCap = 1
  MaxTunnelFrames = 2
  MaxLinkLosses = 1
CHECK_DEADLOCK FALSE
INVARIANTS LiveNeverDropped CommandsSound KubectlSafe
PROPERTIES CommandsAnswered ResourcesSound SwitchedOff
