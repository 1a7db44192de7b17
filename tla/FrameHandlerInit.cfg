SPECIFICATION Spec
CONSTANTS
  MaxKfs = 3
  MaxTrials = 2
  Cells = {20}
  InitialCell = 20
  MaxFrame = 6
PROPERTY TrackingOnlyAfterSuccess
