SPECIFICATION Spec
CONSTANTS
  Stamps <- ThreeStamps
  TD = 0
  TdValues <- FixedTd
  MaxFeatures = 3
  MaxRestarts = 1
  MaxRelo = 0
INVARIANT
  TimeAdvances
