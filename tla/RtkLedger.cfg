SPECIFICATION BackendSpec
CONSTANTS
  RawStamps <- MCRaw
  GnssStamps <- MCGnss
  MaxResent = 1
  MaxUnpaired = 1
  PairDiff = 1
  MaxGap = 3
  MinPairs = 2
  MaxPairs = 3
  PairsToDrop = 1
  Reuse = 0
  NodeInterval = 2
  Lag = 3
  MaxActive = 2
  MaxPending = 1
  RawBuffer = 3
  MayThrow = FALSE
  MaxSpan = 2
  BufferSpan = 3
  RawTicks = {1, 2, 4, 6, 7}
  CorrTicks = {2, 4, 6}
  ImageTicks = {1, 3, 4, 5}
  MaxImages = 2
  GapThreshold = 2
  Ramps = {0, 2}
  ConfirmFactors = 2
  FixedGap = 2
  FloatInterval = 3
  MaxResidual = 1
  Consistency = 1
  Residuals = {0, 4, 6}
  SampleSteps = {1, 3}
  MaxQueue = 2
  EndTime = 8
INVARIANTS Conservation NothingOverdue RecoveryEarned
PROPERTIES HaltedGraphFrozen RowsTrueAndPrompt
CHECK_DEADLOCK FALSE
