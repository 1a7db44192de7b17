SPECIFICATION Spec
CONSTANTS
  NKeyframes = 3
  MaxJobs = 2
  GridSizes = {1, 2}
  Tracked = {1}
  MaxSeeds = 2
INVARIANTS
  TypeOK
  SeedInitGoesFirst
  AsleepOnlyWithoutWork
PROPERTY EveryKeyframeIsServed
CHECK_DEADLOCK FALSE
