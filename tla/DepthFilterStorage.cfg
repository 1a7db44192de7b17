SPECIFICATION Spec
CONSTANTS
  NKeyframes = 2
  MaxJobs = 3
  GridSizes = {1, 2}
  Tracked = {0, 1}
  MaxSeeds = 3
INVARIANT StorageHoldsNewSeeds
CHECK_DEADLOCK FALSE
