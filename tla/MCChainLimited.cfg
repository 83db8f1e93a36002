CONSTANTS
  d1 = d1
  r1 = r1
  r2 = r2
  None = None
  Domains = {d1}
  Requests = {r1, r2}
  DomainOf <- MCDomainOf
  ScopesOf <- MCScopesOf
  Profiles <- MCPlainProfiles
  Presentable <- MCLimited
  Scopes <- MCScopes
  LevelOf <- MCLevelOf
  MaxRequests <- MCMaxRequests
  Window <- MCWindow
  MinIntervals = 2
  CvNum = 1
  CvDen = 5
  ViolationThreshold = 1
  BackoffBase = 1
  BackoffMax = 4
  ResetAfter = 2
  EngineEnabled = TRUE
  SwitchMode = "enact"
  BackoffMode = "enact"
  MaxMultiplier = 3
  SwitchAfter = 2
  FailureThreshold = 2
  Cooldown = 1
  SilentCooldown = 2
  Overrides <- MCDefaultOverrides
  Multipliers <- MCMultipliers
  MaxAttempts = 1
  BaseDelay = 1
  MaxDelay = 1
SPECIFICATION FairChainSpec
INVARIANT HalfOpenHasTrial
PROPERTIES FailureSeenBeforeRetry EveryRequestEnds
