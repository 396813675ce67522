SPECIFICATION FairSpec
CONSTANTS
  Stamps <- ThreeStamps
  TD = 0
  TdValues <- FixedTd
  MaxFeatures = 3
  MaxRestarts = 0
  MaxRelo = 0
PROPERTY
  ShutdownCompletes
