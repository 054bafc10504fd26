SPECIFICATION Spec
CONSTANTS
  t1 = t1
  t2 = t2
  t3 = t3
  t4 = t4
  near = near
  far = far
  None = None
  Thesis = {t1, t2, t3, t4}
  Slot = {near, far}
  Horizon <- MCHorizon
  Asset <- MCAsset
  Batches <- MCBatches
  Window = 1
  Replay = TRUE
  Now = 9
  MaxFaults = 1
  MaxDay = 3
  MaxRuns = 4
  MayForce = FALSE
  MaxRestarts = 0
SYMMETRY Symmetry
INVARIANTS
  ReportHonest
  RegisteredOnlyCompleted
  AppliedOncePerCycle
CHECK_DEADLOCK FALSE
