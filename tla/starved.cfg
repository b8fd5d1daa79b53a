SPECIFICATION FairSpec
CONSTANTS
  k1 = k1
  k2 = k2
  j1 = j1
  j2 = j2
  a = a
  ab = ab
  c1 = c1
  c2 = c2
  c3 = c3
  b = b
  Class = {a, ab, b}
  Key = {k1, k2}
  Eligible <- Overlap
  Job = {j1, j2}
  KeyOf <- JobKeys
  Client = {c2}
  ClassOf <- OneAb
  MaxError = 0
PROPERTY OpenJobsServed
CHECK_DEADLOCK FALSE
