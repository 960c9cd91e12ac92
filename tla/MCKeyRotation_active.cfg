\* Two requests at once.
SPECIFICATION Spec
CONSTANTS
  Rows <- MCRows
  Table <- MCTable
  Tables = 2
  BatchSize = 2
  Starters = {s1, s2}
  Workers = {w1}
  MaxRotations = 2
  MaxFaults = 1
  MaxWrites = 1
INVARIANT OneActiveKey
CHECK_DEADLOCK FALSE
