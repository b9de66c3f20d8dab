SPECIFICATION Spec
CONSTANTS
  Configs <- MCConfigs
  Voxels = {1, 2}
  MaxPerVoxel = 1
  MaxTotal = 1
  MaxVoxels = 1
  MaxAdd = 1
  MaxObs = 2
  MaxFrames = 3
  Levels = 2
  MaxIterations = 2
  MinTracked = 2
  RelaxedTracked = 1
  MaxRefresh = 1
  MaxIcp = 2
  MinIcp = 1
  EnterBad = 2
  ExitGood = 2
  Recovery = 2
  MaxFreeze = 2
  MaxSkip = 1
  Boards = {1, 2}
  MarkersOf <- MCMarkersOf
  MaxRmse = 3
  Rmses = {1, 2, 3, 6}
  QueueCapacity = 2
  EpisodeGap = 1
  CoalesceTime = 1
  MaxInterval = 2
INVARIANTS GraphAnchored LandmarkLedger VisualMapCoherent GainMatchesState FrameSettled DegeneracyDebounced
PROPERTY FreezeDiscipline
\* The bounded instance handles its scans and images and stops.
CHECK_DEADLOCK FALSE
