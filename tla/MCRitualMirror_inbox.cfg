\* One fragment, one participant, two sweeps, one delivery repeated or one failure.
SPECIFICATION FairSpec
CONSTANTS
  MaxFragments = 1
  Copies = 1
  Sweeps = {w1, w2}
  BatchSize = 2
  MaxMishaps = 1
  MaxOverlaps = 1
INVARIANTS TypeOK StatusIsTheFurthest FragmentsAreProcessed SkipsAreReorderings
PROPERTIES ActivitiesSettle
CHECK_DEADLOCK FALSE
