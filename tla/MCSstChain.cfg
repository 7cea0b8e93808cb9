\* Two pixels against two reference pixels. The chain ends with its verdict.
CONSTANTS
  NaN = NaN
  Pixel <- MCPixel
  RefPixel <- MCRefPixel
  Scenes <- MCScenes
  References <- MCReferences
  BtCloudThreshold = 2
  UseL1CloudFlag = TRUE
  A0 = 0
  A1 = 1
  A2 = 1
  ValidMin = 2
  ValidMax = 4
  Tolerance = 1
  MaxAbsBias = 1
  MaxRmse = 1
  MinPctWithinTol = 50
  MinMatchCount = 0
  MinQualityLevel = 3
  BboxMargin = 1
SPECIFICATION Spec
CHECK_DEADLOCK FALSE
INVARIANTS
  TypeOK
  DerivedIsSound
  PairsAreSound
  NearestWithinMargin
  PassIsEarned
  StatsAgree
