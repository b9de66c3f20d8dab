SPECIFICATION TimeSpec
CONSTANTS
  None = None
  Window = 2
  MinPairs = 2
  RelockCount = 2
  MinSpan = 1
  MaxIntervalError = 1
  MaxRelockStep = 1
  PpsTimeout = 1
  InvalidTimeout = 2
  Copies = {0, 1}
  Boots = {1, 2}
  Streams = {"PPS"}
  SeqRange = 16
  Capacity = 2
  Day = 100
  UtcStart = 95
  Jumps = {1, 2}
  SeqStart = 14
  MaxNow = 7
  Associated = TRUE
  MaxResent = 1
  MaxObserved = 1
  RequiredTopics = {"events", "lidar"}
  LastSession = 3
  LastSecond = 1
  Kinds <- BothKinds
  MaxWrites = 3
  MaxAttempts = 2
  MinReady = 2
  InOrder = TRUE
  Configs <- MCConfigs
  FixedConfirm = 2
  FixedLost = 2
  RecoveryConfirm = 3
  AverageCount = 2
  MaxGap = 2
  OriginMaxGap = 4
  Solutions <- MCSolutions
  Steps <- MCSteps
  Sources <- MCSources
  Faults <- MCFaults
  MaxMessages = 5
INVARIANTS SessionsApart RecordsItsSession NeverTorn RestartReadable AcceptedFixConfirmed OriginFromOneSeries FusedInOrder FaultNotFused
PROPERTIES RelockContinuous
\* Time, sessions, writes and messages are bounded: the system stops at the bounds.
CHECK_DEADLOCK FALSE
