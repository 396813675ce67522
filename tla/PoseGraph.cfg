SPECIFICATION FairSpec
CONSTANTS
  Recent = 1
  MaxResults = 2
  FastRelocalization = TRUE
  EmptySequences = FALSE
  MaxLoaded = 2
  MaxFrames = 5
  MaxSequences = 2
INVARIANTS
  LoopsInProblem
  MissingOnlyWhileInserting
  
  PosesFollowDrift
  PathsMatch
PROPERTY LoopsOptimized
