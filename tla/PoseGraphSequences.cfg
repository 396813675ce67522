SPECIFICATION Spec
CONSTANTS
  Recent = 1
  MaxResults = 2
  FastRelocalization = FALSE
  EmptySequences = TRUE
  MaxLoaded = 2
  MaxFrames = 5
  MaxSequences = 2
INVARIANT
  SequenceLoopInRange
