CONSTANTS
  Scopes <- MCScopes
  LevelOf <- MCLevelOf
  Presentable <- MCPresentable
  MaxRequests <- MCMaxRequests
  Window <- MCWindow
  MinIntervals = 2
  CvNum = 1
  CvDen = 5
  ViolationThreshold = 2
  BackoffBase = 1
  BackoffMax = 16
  ResetAfter = 5
SPECIFICATION FairLimiterSpec
INVARIANTS LimiterTypeOK WindowCeiling EscalationCeiling
PROPERTIES CooldownServedInFull DroppedNotRecorded NeverLockedOut
