SPECIFICATION Spec
CONSTANTS
  None = None
  Anchors = {1, 2}
  Good = {5}
  Bad = {}
  LinesPerRound = 2
  RoundTimeout = 2
  RepeatMax = 1
  RepeatDuration = 1
  Usable = {5}
  Configured = {}
  MaxQueue = 2
  MaxAge = 1
  Match = 0
  StartOffset = 0
  Window = 0
  Enabled = {1}
  TimeOffset = 0
  MaxGap = 1
  AssocMax = 0
  Lag = 2
  MaxActive = 2
  MaxPending = 1
  RawBuffer = 1
  LidarStart = 1
  NodeSetups <- MCSetups
  Files <- MCFiles
  ClockErrors <- MCClockErrors
  MaxNow = 3
  MaxLines <- MCLines
  MaxWire = 1
  MaxBack = 1
INVARIANTS RangeNearItsStamp UwbConservation UwbInOrder
CHECK_DEADLOCK FALSE
