SPECIFICATION Spec
CONSTANTS
  c1 = c1
  c2 = c2
  l1 = l1
  l2 = l2
  Client = {c1, c2}
  Leaf = {l1}
  Job = {j1}
  LeafOf <- SameLeaf
  MaxRound = 2
  Demand <- OneDemand
  MaxInc = 1
  MaxPush = 1
  MaxLoss = 0
  Trials = 1
INVARIANTS ServerInv OnlyPostedParams OnlyRoundsPushes
SYMMETRY Symmetry
CHECK_DEADLOCK FALSE
