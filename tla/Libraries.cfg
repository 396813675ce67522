SPECIFICATION Spec
CONSTANTS
  W = 3
  Landmarks = {1, 2, 3}
  MaxBetween = 1
  MinCorres = 1
  MinPoints = 1
  NumThreads = 3
  Size <- SmallSize
  Graphs <- SmallGraphs
  Ids = {1, 2, 3}
  OldKeypoints = {1, 2}
  MIN_LOOP_NUM = 1
  Stamps = {0, 1}
  Second = 9
  K = 2
  L = 2
  Bits = {1, 2, 3}
  Trainings <- SmallTrainings
  Words = {1, 2, 3}
  Weight <- SmallWeights
  NodeOf <- SmallNodes
  StoredImages <- SmallImages
  MaxEntries = 2
  MIN_COMMON_WORDS = 2
  MaxViews = 3
  MinViews = 2
  Corners = 2
  SCARAMUZZA_CAMERA_NUM_PARAMS = 30
INVARIANTS
  StructureSupported
  OwnVelocityWhileAllKeys
  PriorOfItsFactors
  EveryMatchConstrains
  TrainingReachesItsCluster
  MeaningSurvives
  QueryIsScore
  CalibrationReachesNode
  CostFunctionsFit
CHECK_DEADLOCK FALSE
