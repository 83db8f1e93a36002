CONSTANTS
  d1 = d1
  r1 = r1
  r2 = r2
  None = None
  Domains = {d1}
  Requests = {r1}
  DomainOf <- MCDomainOf
  ScopesOf <- MCScopesOf
  Profiles <- MCPlainProfiles
  Presentable <- MCUnlimited
  Scopes <- MCScopes
  LevelOf <- MCLevelOf
  MaxRequests <- MCMaxRequests
  Window <- MCWindow
  MinIntervals = 2
  CvNum = 1
  CvDen = 5
  ViolationThreshold = 1
  BackoffBase = 1
  BackoffMax = 4
  ResetAfter = 3
  EngineEnabled = TRUE
  SwitchMode = "enact"
  BackoffMode = "enact"
  MaxMultiplier = 3
  SwitchAfter = 2
  FailureThreshold = 2
  Cooldown = 2
  SilentCooldown = 3
  Overrides <- MCDefaultOverrides
  Multipliers <- MCMultipliers
  MaxAttempts = 1
  BaseDelay = 1
  MaxDelay = 2
SPECIFICATION FairChainSpec
PROPERTY BlockedDomainReopens
