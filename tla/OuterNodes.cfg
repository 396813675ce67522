SPECIFICATION Spec
CONSTANTS
  MaxImages = 4
  MaxStamp = 3
  Unstable = 1
  Ranges = 4
  Clouds <- SmallClouds
  Views <- SmallViews
  SKIP = 1
  MaxRows = 3
  MaxMessages = 3
  MaxSessions = 2
  MaxOdometry = 3
  MinOdometry = 2
  Earlier = "PASS"
INVARIANTS
  DrawnWithItsPose
  RowOfItsTime
  PassIsEvidence
PROPERTY
  RunnerEnds
CHECK_DEADLOCK FALSE
