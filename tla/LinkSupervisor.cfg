SPECIFICATION FairSpec
CONSTANTS
  HsFallback = 2
  SsRetry = 2
  TrainMax = 3
  Reenum = 2
  SsLost = 1
  HsDisc = 1
  ProbeValid = 1
INVARIANTS OneController SessionLives KeepsSuperSpeed
PROPERTIES UnpluggedReturns Connects BounceResolved
