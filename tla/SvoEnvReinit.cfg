SPECIFICATION EnvSpec
CONSTANTS
  MaxKfs = 0
  MaxTrials = 0
  Cells = {20}
  InitialCell = 20
  MaxFrame = 8
  UseRLActions = FALSE
  AutomaticReinitialization = TRUE
INVARIANT ReinitializesWhenPaused
