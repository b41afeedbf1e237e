SPECIFICATION EventsSpec
CONSTANTS
  h1 = h1
  h2 = h2
  r1 = r1
  r2 = r2
  b1 = b1
  b2 = b2
  n = n
  Event = {1}
  Handler = {h1, h2}
  Replica = {r1, r2}
  Subscribed <- MCSubscribed
  Batch = 2
  MaxPublishAttempts = 2
  MaxDeliver = 2
  MaxCopies = 1
  MaxFaults = 1
  User = {"pe"}
  RoleOf <- MCRoles
  TeamsOf <- MCTeams
  FleetCluster = {"c1", "c2"}
  ClusterSet = {"s1", "s2"}
  SetSelects <- MCSelects
  Stages <- MCStages
  FleetApproval = {"ga1", "ga2"}
  FleetWorker = {"w1"}
  Sweeper = n
  NoFleetApproval = n
  MaxFleetRequests = 3
  MaxFleetFaults = 1
  UiServer = {r1}
  UiRequest = {"q1"}
  Bundle = {b1, b2}
  NoSum = n
  MaxUiRequests = 2
  MaxUpdates = 1
  MaxPublications = 1
CHECK_DEADLOCK FALSE
INVARIANTS NoLossWithinBudget TargetBacked
PROPERTIES EventuallySettled RolloutMovesOn UiIsCurrent
