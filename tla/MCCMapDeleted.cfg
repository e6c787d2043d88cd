SPECIFICATION Spec
CONSTANTS
  k1 = k1  k2 = k2  k3 = k3  w1 = w1  w2 = w2  r1 = r1  r2 = r2
  Writers = {w1}
  Readers = {}
  Keys = {k1, k2, k3}
  Hash <- MCHash
  InitialBuckets = 1
  Threshold = 2
  Word = 32
  None = None
  Free = Free
  MaxOps = 7
  MaxNodes = 9
  MaxBuckets = 4
CHECK_DEADLOCK FALSE
INVARIANTS DeletedStaysDeleted
