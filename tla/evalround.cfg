SPECIFICATION FairSpec
CONSTANTS
  c1 = c1
  c2 = c2
  c3 = c3
  c4 = c4
  Client = {c1, c2, c3, c4}
  TotalRound = 2
  Demand = 1
  OverDemand = 3
  MaxFault = 2
INVARIANTS ResultsOfAttempt RoundInv
PROPERTIES StreamSpec ServerExits
CHECK_DEADLOCK FALSE
