\* Two drains that overlap.
SPECIFICATION Spec
CONSTANTS
  MaxCaptures = 3
  Drains = {d1, d2}
  MaxQueue = 3
  MaxLapses = 0
  MaxCopies = 1
INVARIANT FailedStaysQueued
CHECK_DEADLOCK FALSE
