SPECIFICATION FairExecSpec
CONSTANTS
  a = a
  b = b
  c = c
  x = x
  TaskId = {a, b, c, x}
  Plans <- MCPlans

INVARIANTS
  ExecTypeOK
  ValidatedExactly
  BlockedExactly
  AttemptsRespected
PROPERTIES
  ImplementsTaskGraph
  ExecutionEnds
