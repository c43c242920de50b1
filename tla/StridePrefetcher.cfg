SPECIFICATION Spec
CONSTANTS
  num_entries = 2
  Modes = {0, 1}
  single_stride_threshold = 2
  multi_stride_threshold = 1
  stride_start_dist = 1
  stride_degree = 2
  stride_dist = 3
  Lines <- MCLines
  RegionLines = 8
  Garbage <- MCGarbage
  MaxTrains = 8
CHECK_DEADLOCK FALSE
INVARIANTS
  CountsMeet
  TrainedOnRun
  RunsAhead
  StridesFit
