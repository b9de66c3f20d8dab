SPECIFICATION BackendSpec
CONSTANTS
  RawStamps <- MCRaw
  GnssStamps <- MCGnss
  MaxResent = 0
  MaxUnpaired = 1
  PairDiff = 1
  MaxGap = 3
  MinPairs = 2
  MaxPairs = 3
  PairsToDrop = 1
  Reuse = 0
  NodeInterval = 2
  Lag = 3
  MaxActive = 3
  MaxPending = 1
  RawBuffer = 3
  MayThrow = TRUE
  MaxSpan = 2
  BufferSpan = 3
  RawTicks = {1}
  CorrTicks = {1}
  ImageTicks = {1}
  MaxImages = 1
  GapThreshold = 2
  Ramps = {0}
  ConfirmFactors = 2
  FixedGap = 2
  FloatInterval = 3
  MaxResidual = 1
  Consistency = 1
  Residuals = {0, 4, 6}
  SampleSteps = {1, 3}
  MaxQueue = 2
  EndTime = 1
INVARIANT Conservation
CHECK_DEADLOCK FALSE
