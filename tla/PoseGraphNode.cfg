SPECIFICATION FairSpec
CONSTANTS
  Second = 1
  SKIP_FIRST_CNT = 1
  SKIP_CNT = 1
  MaxStamp = 7
  MaxImages = 6
  MaxKeys = 1
  ImagesOfAnyStamp = 4
  AnyStamp = 3
CONSTRAINT Explored
INVARIANTS
  SameStampInOrder
  NeverInOlderSequence
  ImagesOfSession
PROPERTY PoseServed
