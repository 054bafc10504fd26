SPECIFICATION Spec
CONSTANTS
  t1 = t1
  t2 = t2
  t3 = t3
  t4 = t4
  near = near
  far = far
  None = None
  Thesis = {t1, t2, t3}
  Slot = {near, far}
  Horizon <- MCHorizon
  Asset <- MCAsset
  Batches <- MCBatches
  Window = 1
  Replay = FALSE
  Now = 0
  MaxFaults = 0
  MaxDay = 3
  MaxRuns = 3
  MayForce = FALSE
  MaxRestarts = 0

PROPERTY FeedbackReachesEngine
CHECK_DEADLOCK FALSE
