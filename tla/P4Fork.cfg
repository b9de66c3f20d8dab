CONSTANTS
  None = None
  Threshold = 1
  FewestPoints = 2
  UpdateSize = 1
  MaxPoints = 4
  MaxLayer = 2
  Surfaces = {"a", "b"}
  HalfMap = 1
  SlideThreshold = 2
  LongTermMax = 1
  LongTerm = TRUE
  MinMatches = 1
  Scans <- MCScans
  PausedScans <- MCPausedScans
  LivoScans <- MCLivoScans
  ImageVoxels <- MCObserved
  Exclude = 1
  CaptureAt = 1
  EndAt = 4
  MaxEvents = 5
  LidarTypes <- MCTypes
  Messages <- MCMessages
  Histories <- MCHistories
  Filter = 1
  JumpTime = 2
  RepairTime = 1
  Options <- MCOptions
  Trigger = 2
  Recover = 2
  Nominal = 1
  Degraded = 3
  MaxWaiting = 2
SPECIFICATION PartSpec
INVARIANTS BranchesExact MapsCoherent DeskewExact
PROPERTIES PauseHandshake
CHECK_DEADLOCK FALSE
