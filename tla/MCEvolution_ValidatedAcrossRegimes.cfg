SPECIFICATION EvolutionSpec
CONSTANTS
  c1 = c1
  c2 = c2
  d1 = d1
  Principle = {1}
  Cluster = {c1}
  Domain = {d1}
  DomainOf <- MCOneDomain
  ClaimOf <- MCOneClaim
  Regime = {r1, r2}
  NoRegime = NoRegime
  CandidateCycles = 0
  CandidateRegimes = 1
  ValidatedRegimes = 2
  ValidatedObservations = 3
  MatureObservations = 4
  MatureRegimes = 2
  MatureContradictions = 0
  MatureAccuracy = 60
  WeakenAt = 1
  RetireAt = 2
  ResolutionMinCycles = 1
  MaxUnresolvedCycles = 2
  WinRate = 70
  MaxFrameworks = 2
  MaxActive = 2
  MinActive = 1
  Accuracy = {0, 100}
  ValidationCycles = 1
  ReviewCycles = 2
  RetirementCycles = 3
  ValidationAccuracy = 70
  ReviewAccuracy = 50
  RetirementAccuracy = 30
  Offered <- MCOne
  MaxReport = 1
  MinObservations = 3
  MinClusterSize = 1
  CoactivationCycles = 1
  FrameworkSize = 1
  SignalCycles = 2
  MaxCycles = 4
INVARIANTS
  ValidatedAcrossRegimes
CHECK_DEADLOCK FALSE
