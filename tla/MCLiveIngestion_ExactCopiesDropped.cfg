SPECIFICATION LiveSpec
CONSTANTS
  r1 = r1
  r2 = r2
  r3 = r3
  t1 = t1
  t2 = t2
  Report = {r1, r2, r3}
  TextIn <- MCTextIn
  Similar <- MCSimilar
  Source = {s1}
  Interval = 1
  StaleAfter = 0
  Loop = {l1}
  Main = main
  MaxRecent = 2
  MaxBuffer = 2
  MaxBatch = 2
  MaxEvents = 3
  MaxClock = 1
INVARIANTS
  ExactCopiesDropped
CHECK_DEADLOCK FALSE
