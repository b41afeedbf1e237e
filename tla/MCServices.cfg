SPECIFICATION ServicesSpec
CONSTANTS
  v1 = v1
  v2 = v2
  t1 = t1
  t2 = t2
  a1 = a1
  a2 = a2
  p1 = p1
  p2 = p2
  k1 = k1
  k2 = k2
  nil = nil
  User = {"pe", "dev"}
  RoleOf <- MCRoles
  TeamsOf <- MCTeams
  Inst = {"i1"}
  Version = {v1, v2}
  Spec = {"x1"}
  Task = {t1, t2}
  Approval = {a1, a2}
  PullRequest = {p1, p2}
  NoInst = nil
  NoPR = nil
  NoApproval = nil
  NoContent = nil
  RepoTeamOwner = "team"
  MaxDeployRequests = 3
  MaxFaults = 1
  RepoId = {"r1", "r2"}
  RepoName = {"base", "web"}
  Slug = {"s1", "s2"}
  BaselineName = "base"
  OwnerTeam = "team"
  NoRepo = nil
  Elsewhere = {}
  MaxSecrets = 2
  MaxRepoRequests = 4
  AddonCluster = {"c1"}
  AddonId = {"id1", "id2"}
  AddonRepo = {"g"}
  RepoOf <- MCRepoOf
  AddonVersion = {"v1", "v2"}
  PRPolicy = {TRUE, FALSE}
  AddonCall = {k1, k2}
  NoAddon = nil
  MaxAddonRequests = 3
  MaxAddonFaults = 1
  ExtId = {"e1", "e2"}
  NoExt = nil
  ExtCall = {k1, k2}
  MaxExtRequests = 4
  MaxExtFaults = 1
  Audience = {"", "argo", "ext"}
  ExtensionName = "ext"
  Manifests <- MCManifests
  SubjectToken = {"tp", "td"}
  SubjectOf <- MCSubjectOf
  ProxyRequest = {"q1", "q2"}
  TokenLife = {0, 2}
  ExchangeCacheMaxTTL = 2
  DefaultExchangeTokenTTL = 2
  ExchangeTimeout = 1
  SessionTTL = 1
  SessionMaxTTL = 2
  MaxProxyRequests = 2
  MaxProxyTime = 3
  ClientName = {"kubectl", "app"}
  KubectlClientID = "kubectl"
  Alias = {"a", "b"}
  NoAlias = nil
  Issuer = {"i", "j"}
  IdentityCall = {k1, k2}
  MaxIdentityRequests = 3
  MaxIdentityFaults = 1
  GitServer = {"sa", "sb"}
  GitCall = {k1, k2}
  AuthState = {"t1"}
  MaxGitTokens = 4
  MaxGitCalls = 4
  MaxGitFaults = 1
CHECK_DEADLOCK FALSE
INVARIANTS  WrittenIsApproved ClientsAgree TokensRight
PROPERTIES RowsSurvive
