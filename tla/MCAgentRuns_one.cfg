\* One wake, two concurrent requests, a reader, a full queue, an exception and a restart.
SPECIFICATION Spec
CONSTANTS
  Installs = {"k1"}
  MaxWakes = 1
  WakesPerInstall = 1
  Refuse = Refuse
  Decisions <- MCRefuseOrTwo
  Requests = {q1, q2}
  Samples = {2}
  MaxSpend = 4
  QueueCap = 1
  MaxLines = 2
  MaxReaders = 1
  SettableStates <- MCNone
  MaxStops = 1
  MaxFaults = 1
  Patient = FALSE
INVARIANTS
  TypeOK AccountedBeforeWake  TranscriptComplete OverrunIsHalting
  NoRunUnsupervised  OutcomeIsTruthful
CHECK_DEADLOCK FALSE
