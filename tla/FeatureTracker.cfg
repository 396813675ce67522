SPECIFICATION Spec
CONSTANTS
  Hz = 6
  FREQ = 2
  MAX_CNT = 2
  MinRansac = 2
  MaxStamp = 16
  MaxImages = 9
  MaxTracks = 4
  ImagesWithPoints = 6
  StampsWithPoints = 13
CONSTRAINT Explored
INVARIANTS
  VectorsAligned
  VelocitiesMatch
  PublicationRate
PROPERTY
  FeaturesNeverReturn
