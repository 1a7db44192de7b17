SPECIFICATION Spec
CONSTANTS
  NKeyframes = 2
  MaxJobs = 3
  GridSizes = {2}
  Tracked = {0, 1}
  MaxSeeds = 3
INVARIANT DetectsAroundOwnFeatures
CHECK_DEADLOCK FALSE
