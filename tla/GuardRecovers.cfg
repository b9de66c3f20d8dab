CONSTANTS
  None = None
  Threshold = 1
  FewestPoints = 2
  UpdateSize = 1
  MaxPoints = 4
  MaxLayer = 2
  Surfaces = {"a", "b"}
  HalfMap = 1
  SlideThreshold = 2
  LongTermMax = 1
  LongTerm = TRUE
  MinMatches = 1
  Scans <- MCScans
  PausedScans <- MCPausedScans
  LivoScans <- MCLivoScans
  ImageVoxels <- MCObserved
  Exclude = 1
  CaptureAt = 1
  EndAt = 4
  MaxEvents = 5
  LidarTypes <- MCTypes
  Messages <- MCMessages
  Histories <- MCHistories
  Filter = 1
  JumpTime = 2
  RepairTime = 1
  Options <- AllOptions
  Trigger = 2
  Recover = 3
  Nominal = 1
  Degraded = 4
  MaxWaiting = 5
SPECIFICATION OutputSpec
PROPERTY RecoveredPublishes
\* run() ends when the node is shut down.
CHECK_DEADLOCK FALSE
