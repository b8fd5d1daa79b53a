SPECIFICATION FairSpec
CONSTANTS
  c1 = c1
  c2 = c2
  l1 = l1
  l2 = l2
  Client = {c1, c2}
  Leaf = {l1, l2}
  Job = {j1}
  LeafOf <- OwnLeaf
  MaxRound = 1
  Demand <- TwoDemand
  MaxInc = 0
  MaxPush = 2
  MaxLoss = 1
  Trials = 2
INVARIANT PushesAccounted
PROPERTIES LeafDrains RoundFills
CHECK_DEADLOCK FALSE
