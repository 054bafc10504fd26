CONSTANTS
  a = a
  b = b
  c = c
  r1 = r1
  r2 = r2
  rd = rd
  TaskId = {a, b, c}
  Plans = {}
  Rule = {r1, r2, rd}
  Fallback = rd
  RuleFiles <- MCRuleFiles
  Produces <- MCProduces
  MaxRequests = 2
CHECK_DEADLOCK FALSE
SPECIFICATION FairPipeSpec
INVARIANTS
  PlanHonoursRules
PROPERTIES
  CompletedMeansAll
  RunAnswered
