\* One caller, one run at a time: the cap holds up to one run's overshoot.
SPECIFICATION Spec
CONSTANTS
  Cap = 20
  MulNum = 7
  MulDen = 5
  RecentRuns = 2
  Callers = {c1}
  Serial = TRUE
  MaxRuns = 4
  Samples <- MCSamples
  MaxSamples = 3
  MaxLate = 1
  MaxDay = 4
  WeekLength = 4
  MonthStarts <- MCMonthStarts
INVARIANTS TypeOK MonthlySpendBounded 
CHECK_DEADLOCK FALSE
