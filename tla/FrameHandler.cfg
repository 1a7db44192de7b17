SPECIFICATION Spec
CONSTANTS
  MaxKfs = 3
  MaxTrials = 2
  Cells = {20, 25}
  InitialCell = 20
  MaxFrame = 6
INVARIANTS
  TypeOK
  KeyframeToRelocalizeTo
  NothingSurvivesReset
  IInv
  OlderKeyframeExists
  InitializerHasPredecessor
  LastFrameInv
  MapSizeInBounds
  PausedIffNoLastFrame
  ObservedAgesAreOrdered
