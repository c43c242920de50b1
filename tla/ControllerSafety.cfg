SPECIFICATION Spec
CONSTANTS
  b1 = b1
  b2 = b2
  s1 = s1
  s2 = s2
  Bank <- MCBank
  Row <- MCRow
  Sector <- MCSector
  Addr <- MCAddr
  BankOf <- MCBankOf
  RowOf <- MCRowOf
  speed_entry <- MCSpeed
  Shape <- MixedShape
  sectoredDRAM = TRUE
  CanSchedule = {TRUE, FALSE}
  cap = 0
  QMax = 3
  WrHigh = 1
  WrLow = 1
  FawActs = 1
  MaxReqs = 3
  MaxRefresh = 1
INVARIANTS
  TypeOK
  NoRequestLost
  RowTableMirrorsBanks
  OpenerStillWaiting
  ServingBalance
  FawWindow
  FawBudgetBalance
PROPERTY
  ActivateOpensQueuedSectors
