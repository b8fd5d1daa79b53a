SPECIFICATION FairSpec
CONSTANTS
  CM = {c1}
  JM = jm
  MaxJobs = 2
  MaxRound = 1
  MaxRestart = 0
  Demand <- OneDemand
  TotalRound <- UnknownRounds
  Alg = "fifo"
  AllowExceed = TRUE
  ConfigMaxRound = 1
INVARIANTS ControlInv OpenJobsInFifoOrder
PROPERTIES AcceptAnswered CallsAnswered SilentStartedPruned
