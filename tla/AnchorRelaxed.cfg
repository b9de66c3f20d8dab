SPECIFICATION TimeSpec
CONSTANTS
  None = None
  Window = 2
  MinPairs = 2
  RelockCount = 2
  MinSpan = 1
  MaxIntervalError = 1
  MaxRelockStep = 1
  PpsTimeout = 1
  InvalidTimeout = 2
  Copies = {0, 1}
  Boots = {1}
  Streams = {"PPS"}
  SeqRange = 16
  Capacity = 1
  Day = 100
  UtcStart = 95
  Jumps = {}
  SeqStart = 14
  MaxNow = 0
  Associated = TRUE
  MaxResent = 0
  MaxObserved = 0
  RequiredTopics = {"events", "lidar"}
  LastSession = 1
  LastSecond = 0
  Kinds <- CppOnly
  MaxWrites = 4
  MaxAttempts = 1
  MinReady = 2
  InOrder = FALSE
  Configs <- MCStatusOnly
  FixedConfirm = 2
  FixedLost = 2
  RecoveryConfirm = 3
  AverageCount = 2
  MaxGap = 2
  OriginMaxGap = 4
  Solutions <- MCSolutions
  Steps = {1}
  Sources <- MCSources
  Faults <- MCPassthrough
  MaxMessages = 1
INVARIANT AcceptedNotTorn
CHECK_DEADLOCK FALSE
