SPECIFICATION Spec
CONSTANTS
  s1 = s1
  s2 = s2
  Sector <- MCSector
  Block = {1, 2, 3}
  caches <- OneCaches
  lower <- OneLower
  level <- OneLevel
  nWays <- SmallL1
  mshr_entry_num <- TwoMshrs
  Core <- OneCore
  L1 <- OneL1
  Shape <- PredictedShape
  Prediction <- FirstPredicted
  MaxSends = 6
INVARIANT NoReadForgotten
