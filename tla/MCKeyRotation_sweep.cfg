\* Two sweeps that may overlap, two rotations one after another, a stray write.
SPECIFICATION FairSpec
CONSTANTS
  Rows <- MCRows
  Table <- MCTable
  Tables = 2
  BatchSize = 2
  Starters = {s1}
  Workers = {w1, w2}
  MaxRotations = 2
  MaxFaults = 1
  MaxWrites = 1
INVARIANTS TypeOK TextSurvives DoneMeansMigrated OneActiveKey
PROPERTIES SweepsEnd
CHECK_DEADLOCK FALSE
