\* Two overlapping passes over two rows, one lost answer per row, two seconds.
SPECIFICATION FairSpec
CONSTANTS
  Rows = {d1, d2}
  NoRow = NoRow
  Workers = {w1, w2}
  NoWorker = NoWorker
  BatchSize = 2
  MaxAttempts = 2
  MaxClock = 1
  MaxLapses = 1
INVARIANTS TypeOK RowsAreHeldOnce CopiesAreLapses
PROPERTIES ImplementsOutbox PendingIsSettled
CHECK_DEADLOCK FALSE
