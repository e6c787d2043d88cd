SPECIFICATION FairSpec
CONSTANTS
  MaxCo = 2
  f1 = f1
  None = None
  Fds = {}
  Delays <- MCDelays
  MaxTime = 2
  MaxPolling = 1
  MaxOps = 4
PROPERTIES SleepersAllWake
CHECK_DEADLOCK FALSE
