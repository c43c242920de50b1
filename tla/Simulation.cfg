SPECIFICATION FairSpec
CONSTANTS
  Lines <- MixedLines
  BlockSize = 4
  sector_size = 2
  SectorTypes = {"READ", "WRITE"}
  pretrace_buffer_size = 2
  lookahead_predictor = TRUE
  ipc = 2
  depth = 3
  Core <- OneCore
  Block <- MCBlock
  page_allocator <- SameFrame
  expected_limit_insts = 6
  dynamic_policy = TRUE
  InstBound = 8
  cpu_tick = 3
  mem_tick = 2
  warmup_insts = 2
INVARIANTS
  WaitingIsOwed
  ReadyIsComplete
  AccessCoversLine
  ClocksInStep
PROPERTIES
  WindowInOrder
  SimulationEnds
