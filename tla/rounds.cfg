SPECIFICATION Spec
CONSTANTS
  CM = {c1, c2}
  JM = jm
  MaxJobs = 1
  MaxRound = 2
  MaxRestart = 1
  Demand <- TwoDemands
  TotalRound <- UnknownRounds
  Alg = "irs"
  AllowExceed = TRUE
  ConfigMaxRound = 2
INVARIANTS ControlInv NoOverAllocation AmountCountsClients ServiceIsClosedRounds
PROPERTY ImplementsLedger
