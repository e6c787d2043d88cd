SPECIFICATION FairSpec
CONSTANTS
  k1 = k1  k2 = k2  k3 = k3  w1 = w1  w2 = w2  r1 = r1  r2 = r2
  Writers = {w1, w2}
  Readers = {r1}
  Keys = {k1, k2, k3}
  Hash <- MCHashTogether
  InitialBuckets = 1
  Threshold = 2
  Word = 32
  None = None
  Free = Free
  MaxOps = 4
  MaxNodes = 5
  MaxBuckets = 4
CHECK_DEADLOCK FALSE
INVARIANTS GrowsIntact TotalCatchesUp
PROPERTIES GetReturns
