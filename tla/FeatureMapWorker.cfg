SPECIFICATION WorkerSpec
CONSTANTS
  Frames = {f1, f2, f3, f4}
  NSlots = 2
  Points = {p1, p2}
  MaxKfs = 3
  MaxOverlap = 2
  MaxMatches = 2
  MaxFailed = 0
  RemoveUnconstrained = TRUE
  f1 = f1
  f2 = f2
  f3 = f3
  f4 = f4
  p1 = p1
  p2 = p2
  MaxJobs = 2
INVARIANT UpgradeKnowsType
