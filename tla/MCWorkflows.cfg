SPECIFICATION WorkflowsSpec
CONSTANTS
  i1 = i1
  i2 = i2
  d1 = d1
  d2 = d2
  ra1 = ra1
  ra2 = ra2
  k1 = k1
  k2 = k2
  p1 = p1
  e1 = e1
  q1 = q1
  q2 = q2
  none = none
  User = {"pe"}
  RoleOf <- MCRoles
  TeamsOf <- MCTeams
  DriftInstance = {i1, i2}
  DriftSweeper = {d1, d2}
  DriftEventId = {"e1", "e2", "e3", "e4", "e5", "e6"}
  NoDrift = none
  MaxReports = 2
  MaxSweepFaults = 1
  Driver = {d1}
  ScaffoldKind = {"component", "gitops-repo"}
  RequiresApproval = TRUE
  RunApproval = {ra1, ra2}
  NoHold = none
  MaxAttempts = 1
  MaxScaffoldRequests = 3
  MaxDriverCrashes = 1
  MaxStepFailures = 2
  ZoneCall = {k1}
  ProcessOf <- MCProcesses
  ZoneRequestId = {q1, q2}
  NoZoneRequest = none
  ApprovalRequired = TRUE
  MaxZoneAttempts = 1
  MaxZoneRequests = 3
  MaxZoneFaults = 1
  MaxRedeliveries = 3
  PolicyId = {p1}
  PolicyName = {"n1", "n2"}
  Denying = {p1}
  ExemptionId = {e1}
  NoPolicy = none
  PackTarget = {"org", "cluster"}
  TargetMembers <- MCMembers
  PolicyCall = {k1, k2}
  MaxExemption = 1
  MaxPolicyTime = 2
  MaxPolicyRequests = 4
  MaxPolicyFaults = 1
  TenantSlug = {"platform", "acme"}
  PlatformOrgSlug = "platform"
  DefaultTeam = {"admins", "other"}
  JoinedTeam = {"admins"}
  BaseKind = {"realm"}
  PlatformUser = {"u", "v"}
  Server = {"ra", "rb"}
  SetupCall = {"k1"}
  MaxSetupRequests = 2
  MaxSetupFaults = 1
  Endpoint = {"ep1", "ep2"}
  NotifyEvent = {"ev"}
  MaxSendAttempts = 2
  MaxDeliveries = 3
  MaxNotifyRequests = 1
  MaxNotifyFaults = 1
CHECK_DEADLOCK FALSE
INVARIANTS ReportedIsDone GatesHold
PROPERTIES WorkflowsSettle
