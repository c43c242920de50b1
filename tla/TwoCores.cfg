SPECIFICATION Spec
CONSTANTS
  s1 = s1
  s2 = s2
  Sector <- MCSector
  Block = {1}
  caches <- TwoCaches
  lower <- TwoLower
  level <- TwoLevel
  nWays <- TwoWays
  mshr_entry_num <- TwoMshrs
  Core <- TwoCores
  L1 <- TwoL1
  Shape <- SharedShape
  Prediction <- NoPrediction
  MaxSends = 4
INVARIANT
  NoAssertionFails
