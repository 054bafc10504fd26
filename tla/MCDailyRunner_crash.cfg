SPECIFICATION FairSpec
CONSTANTS
  t1 = t1
  t2 = t2
  t3 = t3
  t4 = t4
  near = near
  far = far
  None = None
  Thesis = {t1, t2}
  Slot = {near, far}
  Horizon <- MCHorizon
  Asset <- MCAsset
  Batches <- MCBatches
  Window = 1
  Replay = FALSE
  Now = 0
  MaxFaults = 1
  MaxDay = 3
  MaxRuns = 2
  MayForce = TRUE
  MaxRestarts = 1

INVARIANTS
  TypeOK
  SiblingsSettled
  OutcomeOfPredecessor
  RecallExact
PROPERTIES
  VerdictFinal
  ImplementsLifecycle
  DueSettled
  RunEnds
CHECK_DEADLOCK FALSE
