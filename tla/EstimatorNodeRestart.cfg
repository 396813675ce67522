SPECIFICATION Spec
CONSTANTS
  Stamps <- FourStamps
  TD = 0
  TdValues <- DriftingTd
  MaxFeatures = 4
  MaxRestarts = 1
  MaxRelo = 0
INVARIANTS
  TypeOK
  FrontDefined
  SessionBuffer
  TimeAdvancesUnlessStale
  PredictionComplete
  IntegratedOnce
