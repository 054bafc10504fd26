CONSTANTS
  Store = {s1}
  Dimension = {growth, credit}
  Direction = {bullish, bearish}
  Tenths = {5, 6, 7}
  MaxBeliefs = 3
  MaxBatch = 2
  MaxFailures = 1
CHECK_DEADLOCK FALSE
SPECIFICATION StoreSpec
INVARIANTS
  BeliefTypeOK
  TransitionsTell
PROPERTY ImplementsDurableLog
