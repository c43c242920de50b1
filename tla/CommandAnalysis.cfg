SPECIFICATION Spec
CONSTANTS
  b1 = b1
  b2 = b2
  m1 = m1
  m2 = m2
  Bank <- MCBank
  Mat <- MCMat
  RP = 2
  RCD = 1
  RAS = 2
  RFC = 4
  XP = 1
  XPDLL = 3
  XS = 4
  XSDLL = 5
  CompleteRD = 2
  CompleteWR = 3
  dll = TRUE
  MaxTime = 6
SYMMETRY MCSymmetry
INVARIANTS
  TypeOK
  CyclesCountedOnce
  RowsPaired
  IdleWithin
