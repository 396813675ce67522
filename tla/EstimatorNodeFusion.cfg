SPECIFICATION FairSpec
CONSTANTS
  Stamps <- FourStamps
  TD = 0
  TdValues <- FixedTd
  MaxFeatures = 4
  MaxRestarts = 0
  MaxRelo = 1
PROPERTIES
  FusesInOrder
  ImageServed
