SPECIFICATION ReloSpec
CONSTANTS
  Ids = {1, 2, 3}
  OldKeypoints = {1, 2}
  MIN_LOOP_NUM = 1
  Stamps = {9, 18}
  Second = 9
INVARIANT RelocalizationFrameSet
CHECK_DEADLOCK FALSE
