SPECIFICATION FairSpec
CONSTANTS
  Scans <- MCScans
  ImuStamps <- MCImuFew
  ImuCopies = 2
  ImuLag = 1
  ImgStamps <- MCImgFew
  ImgLag = 2
  MaxLidar = 1
  MaxImu = 3
  MaxImg = 2
  MaxPropImu = 3
  ImgBufferMin = 1
  AcceptOutOfOrder = TRUE
  MaxIniCount = 2
  ImuPropEnable = TRUE
INVARIANTS NoFault ScanPersistent InOrderImagesFresh OpenScanBuffered CommittedComplete NoSpeculativeHandoff
PROPERTIES ImplementsCommits ScanCloses
CHECK_DEADLOCK FALSE
