SPECIFICATION Spec
CONSTANTS
  s1 = s1
  s2 = s2
  Sector <- MCSector
  Block = {1, 2, 3}
  caches <- OneCaches
  lower <- OneLower
  level <- OneLevel
  nWays <- TwoWays
  mshr_entry_num <- TwoMshrs
  Core <- OneCore
  L1 <- OneL1
  Shape <- MixedShape
  Prediction <- NoPrediction
  MaxSends = 4
INVARIANT
  WrittenSectorsKept
