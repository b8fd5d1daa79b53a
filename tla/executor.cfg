SPECIFICATION ExFairSpec
CONSTANTS
  j1 = j1
  j2 = j2
  c1 = c1
  c2 = c2
  p = p
  Job = {j1, j2}
  Client = {c1, c2}
  Rounds <- OneRound
  Demand <- OneResult
  Part = {p}
  Batch = 2
  TurnLimit = 2
  TaskLimit = 2
  EvalInterval = 1
  MaxAttempt = 1
  MaxHung = 1
INVARIANTS ExInv OwnAttempt WeightMatchesMeta
PROPERTY JobsLeave
CHECK_DEADLOCK FALSE
