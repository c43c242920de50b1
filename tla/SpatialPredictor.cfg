SPECIFICATION Spec
CONSTANTS
  s1 = s1
  s2 = s2
  Sector <- MCSector
  Inst <- MCInst
  Block <- MCBlock
  Index <- MCIndex
  Tag <- MCTag
  index_of <- MCIndexOf
  tag_of <- MCTagOf
  Key <- MCKey
  key_of <- MCKeyOf
  Configs <- MCConfigs
  HalfUsed = 1
  MaxUpdates = 4
SYMMETRY SectorSymmetry
INVARIANTS
  RollingAverageExact
  PredictionWasRecorded
  PredictionIsLatest
  TwoWaysActAsOne
