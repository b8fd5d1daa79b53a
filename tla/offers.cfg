SPECIFICATION FairSpec
CONSTANTS
  j1 = j1
  j2 = j2
  c1 = c1
  c2 = c2
  all = all
  big = big
  zero = zero
  small = small
  large = large
  Config <- Configurations
  CmNum = 2
  Weight = 2
  Class = {zero, small, large}
  Zero = zero
  Key = {all, big}
  Eligible <- Constraints
  Job = {j1, j2}
  KeyOf <- JobConstraint
  Client = {c1, c2}
  ClassOf <- Specifications
  Suits <- Suited
  MaxOffer = 1
  TierNum = 2
  Ttl = 1
  MaxPlaces = 1
  MaxCheckin = 3
  MaxFault = 1
INVARIANTS OffersInv OffersSound IdsApart
PROPERTY AssignEnds
CHECK_DEADLOCK FALSE
