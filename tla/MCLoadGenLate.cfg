SPECIFICATION Spec
CONSTANTS
  s1 = s1  s2 = s2  p1 = p1
  Starters = {s1}
  Stoppers = {p1}
  Concurrency = 1
  Capacity = 1
  CallerPanics = {}
  MaxStarts = 1
  MaxCalls = 1
CHECK_DEADLOCK FALSE
INVARIANTS LateResultsAreIgnored
