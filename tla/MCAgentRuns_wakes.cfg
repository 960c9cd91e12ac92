\* Two wakes of one install for a vault that awaits its answers; a queue that holds
\* the whole transcript and its end.
SPECIFICATION FairSpec
CONSTANTS
  Installs = {"k1"}
  MaxWakes = 2
  WakesPerInstall = 2
  Refuse = Refuse
  Decisions <- MCTwo
  Requests = {q1}
  Samples = {3}
  MaxSpend = 3
  QueueCap = 2
  MaxLines = 1
  MaxReaders = 0
  SettableStates = {"paused"}
  MaxStops = 1
  MaxFaults = 0
  Patient = TRUE
INVARIANTS EveryRunIsGripped DoneMeansSettled
PROPERTIES ImplementsLedger ExitIsHandled OverrunIsStopped RequestsAnswered
CHECK_DEADLOCK FALSE
