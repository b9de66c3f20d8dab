SPECIFICATION Spec
CONSTANTS
  Scans <- MCScans
  ImuStamps <- MCImu
  ImuCopies = 1
  ImuLag = 0
  ImgStamps <- MCImg
  ImgLag = 0
  MaxLidar = 0
  MaxImu = 0
  MaxImg = 0
  MaxPropImu = 0
  ImgBufferMin = 1
  AcceptOutOfOrder = TRUE
  MaxIniCount = 2
  ImuPropEnable = TRUE
PROPERTIES DroppedImuUseless
CHECK_DEADLOCK FALSE
