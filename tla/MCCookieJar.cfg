CONSTANTS
  Solves = {w1, w2}
  NoSolve = NoSolve
  Buckets <- MCBuckets
  Sizes <- MCSizes
  MaxBytes = 4
  Horizon = 5
  MaxVersion = 2
SPECIFICATION FairJarSpec
INVARIANTS JarInv ReadersSeeWholeJar
PROPERTIES RecordingsAreAtomic DropsJustified CapRespected RecordingsEnd
