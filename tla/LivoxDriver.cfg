SPECIFICATION Spec
CONSTANTS
  NumLidars = 2
  Settings = {"dataType", "scanPattern"}
  Configured = {1}
  Requested = {"dataType", "scanPattern"}
  MaxInfo = 2
  Configs <- MCConfigs
  Offset <- MCOffset
  QueueSize = 2
  IndexWidth = 4
  ReadySamples = 2
  MaxStampGap = 3
  MinArrival = 1
  MaxArrival = 4
  SharedLidar = 1
  MaxRaw = 1
INVARIANTS SamplingConfigured RingIntact ReadyEarned
PROPERTIES NothingStranded
\* The bounded instance stops when its time is over.
CHECK_DEADLOCK FALSE
