SPECIFICATION LiveSpec
CONSTANTS
  r1 = r1
  r2 = r2
  r3 = r3
  t1 = t1
  t2 = t2
  Report = {r1}
  TextIn <- MCTextIn
  Similar <- MCSimilar
  Source = {s1, s2}
  Interval = 2
  StaleAfter = 1
  Loop = {l1}
  Main = main
  MaxRecent = 2
  MaxBuffer = 2
  MaxBatch = 1
  MaxEvents = 1
  MaxClock = 2
PROPERTIES
  PollsSpaced
  LoopsEnd
  SourcesServed
CHECK_DEADLOCK FALSE
