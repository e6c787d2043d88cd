SPECIFICATION FairSpec
CONSTANTS
  s1 = s1  s2 = s2  p1 = p1
  Starters = {s1, s2}
  Stoppers = {p1}
  Concurrency = 2
  Capacity = 1
  CallerPanics = {1}
  MaxStarts = 2
  MaxCalls = 2
CHECK_DEADLOCK FALSE
INVARIANTS CallsAreAccountedFor StatusMatchesGenerator
PROPERTIES StopEnds CallsEnd
