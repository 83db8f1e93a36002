CONSTANTS
  d1 = d1
  None = None
  Domains = {d1}
  EngineEnabled = TRUE
  SwitchMode = "enact"
  BackoffMode = "enact"
  MaxMultiplier = 3
  SwitchAfter = 2
  FailureThreshold = 3
  Cooldown = 2
  SilentCooldown = 4
  Overrides <- MCDefaultOverrides
  Multipliers <- MCMultipliers
SPECIFICATION FairBreakerSpec
INVARIANTS BreakerTypeOK CircuitsConsistent StreakBelowThreshold
PROPERTIES ForgivenOnlyWhole RecoversWhenQuiet
