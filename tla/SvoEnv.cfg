SPECIFICATION EnvSpec
CONSTANTS
  MaxKfs = 3
  MaxTrials = 2
  Cells = {20, 25}
  InitialCell = 20
  MaxFrame = 7
  UseRLActions = TRUE
  AutomaticReinitialization = FALSE
INVARIANTS
  EnvInv
  EveryImageReachesThePipeline
  AgentActsWhileTracking
  ValidStepsObeyTheAction
  ReturnsRunning
  GroundTruthReachesTheInitializer
  InitializesOnConfiguredGrid
  LostIsBounded
PROPERTIES
  KeepsLoopEnv
  KeyframeDistanceCountsFrames
  KeepsLifecycle
