\* Two drains, three captures, room for two.
SPECIFICATION FairSpec
CONSTANTS
  MaxCaptures = 3
  Drains = {d1, d2}
  MaxQueue = 2
  MaxLapses = 1
  MaxCopies = 2
INVARIANTS TypeOK KeptOrPosted CopiesAreLapses
 
CHECK_DEADLOCK FALSE
