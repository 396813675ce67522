SPECIFICATION Spec
CONSTANTS
  W = 3
  f1 = f1
  f2 = f2
  Ids <- TwoIds
  MinTrack = 1
  MaxSumDt = 3
  Calibrate = TRUE
  MaxStamp = 9
  MaxRelo = 1
  MaxResets = 1
  NULL = NULL
SYMMETRY IdSymmetry
INVARIANTS
  FeaturesAligned
  ImuFactorsSpan
  LookupsSucceed
  PriorAligned
  RelocalizationAligned
