SPECIFICATION Spec
CONSTANTS
  c1 = c1
  c2 = c2
  l1 = l1
  l2 = l2
  Client = {c1, c2}
  Leaf = {l1}
  Job = {j1}
  LeafOf <- SameLeaf
  MaxRound = 2
  Demand <- TwoDemand
  MaxInc = 0
  MaxPush = 2
  MaxLoss = 0
  Trials = 2
PROPERTY DemandOfClients
CHECK_DEADLOCK FALSE
