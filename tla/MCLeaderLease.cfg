SPECIFICATION FairSpec
CONSTANTS
  r1 = r1
  r2 = r2
  Replica <- MCReplica
  None = None
  TTL = 2
  RenewInterval = 1
  Lag = 0
  MaxFails = 3
INVARIANTS OverlapBounded HealthyExclusive
PROPERTIES LedAgainAndAgain UsurpedStops
