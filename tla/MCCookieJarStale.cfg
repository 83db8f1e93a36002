CONSTANTS
  Solves = {w1, w2}
  NoSolve = NoSolve
  Buckets <- MCBuckets
  Sizes <- MCSizes
  MaxBytes = 6
  Horizon = 5
  MaxVersion = 2
SPECIFICATION JarSpec
INVARIANT MergedIsNewest
