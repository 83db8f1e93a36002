CONSTANTS
  MaxCrashAttempts = 3
  MaxScrolls = 3
  Tasks <- MCTasks
SPECIFICATION SolveSpec
INVARIANTS SolveTypeOK NoBrowserLeft RecordedOnlyOnSuccess GivesUpExhausted RefusedLoginStaysOut
PROPERTIES CrashNotBlamedOnTarget EverySolveEnds
CHECK_DEADLOCK FALSE
