SPECIFICATION FairSpec
CONSTANTS
  MaxCo = 3
  f1 = f1
  None = None
  Fds <- MCFds
  Delays <- MCDelays
  MaxTime = 2
  MaxPolling = 1
  MaxOps = 5
INVARIANTS RingIsRunnable 
PROPERTIES KilledEnd SleepersWake ReadersWake
CHECK_DEADLOCK FALSE
