CONSTANTS
  Batches = 3
  PageSize = 2
  Windows <- MCWindows
  MaxAttempts = 6
  MaxStalls = 3
  Bursts <- MCBursts
SPECIFICATION FeedSpec
INVARIANTS EvictedOnlyAfterRead CompleteWhenConfirmed PatientWithStalls
PROPERTY CollectionEnds
CHECK_DEADLOCK FALSE
