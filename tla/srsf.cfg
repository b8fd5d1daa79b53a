SPECIFICATION Spec
CONSTANTS
  CM = {c1, c2}
  JM = jm
  MaxJobs = 1
  MaxRound = 3
  MaxRestart = 0
  Demand <- TwoDemands
  TotalRound <- KnownRounds
  Alg = "srsf"
  AllowExceed = FALSE
  ConfigMaxRound = 2
SYMMETRY Symmetry
INVARIANTS ControlInv EstimateCoversRound ScoreTracksOpenRound
