SPECIFICATION EvolutionSpec
CONSTANTS
  c1 = c1
  c2 = c2
  d1 = d1
  Principle = {1, 2, 3}
  Cluster = {c1, c2}
  Domain = {d1}
  DomainOf <- MCDomainOf
  ClaimOf <- MCClaimOf
  Regime = {r1, r2}
  NoRegime = NoRegime
  CandidateCycles = 1
  CandidateRegimes = 1
  ValidatedRegimes = 2
  ValidatedObservations = 4
  MatureObservations = 8
  MatureRegimes = 2
  MatureContradictions = 0
  MatureAccuracy = 60
  WeakenAt = 1
  RetireAt = 2
  ResolutionMinCycles = 1
  MaxUnresolvedCycles = 2
  WinRate = 70
  MaxFrameworks = 1
  MaxActive = 1
  MinActive = 1
  Accuracy = {0, 100}
  ValidationCycles = 1
  ReviewCycles = 2
  RetirementCycles = 2
  ValidationAccuracy = 70
  ReviewAccuracy = 50
  RetirementAccuracy = 40
  Offered <- MCOffered
  MaxReport = 2
  MinObservations = 3
  MinClusterSize = 1
  CoactivationCycles = 9
  FrameworkSize = 3
  SignalCycles = 1
  MaxCycles = 3
SYMMETRY MCRegimes
INVARIANTS
  EvolutionTypeOK
  RankEarned
  IndexComplete
  CandidatesTracked
  TwinsAreBornTogether
  ConflictsFound
  RivalsKnown
PROPERTIES
  ImplementsLadder
CHECK_DEADLOCK FALSE
