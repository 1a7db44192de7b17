SPECIFICATION Spec
CONSTANTS
  MaxKfs = 2
  MaxTrials = 2
  Cells = {20}
  InitialCell = 20
  MaxFrame = 6
INVARIANT MapKeepsAtMostN
