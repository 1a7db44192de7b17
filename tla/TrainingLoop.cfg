SPECIFICATION Spec
CONSTANTS
  e1 = e1
  e2 = e2
  short = short
  middle = middle
  long = long
  Envs = {e1, e2}
  Trajectories = {short, middle, long}
  NrSamples <- Lengths
  TrajLength = 3
  NrPoints = 2
  BufferSize = 3
SYMMETRY Symmetry
INVARIANTS
  TypeOK
  WindowOfOneSession
  AlignsOnThePast
  CountedStepsAreOfOneSession
  ReturnsStayInSession
PROPERTIES
  KeepsLoopEnv
  DealsWholeTrajectories

