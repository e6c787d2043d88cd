SPECIFICATION FairSpec
CONSTANTS
  accept = accept  client = client
  MaxFd = 1
  Procs = {accept, client}
  Masks <- MCMasks
  Second = 2
  Delays = {0, 1}
  NoTimeout = NoTimeout
  MaxTime = 2
  MaxTimers = 2
  MaxFired = 2
  Budgets <- MCBudgets
INVARIANTS TablesAgree TimersAreKept
PROPERTIES NoDeadCallback TimersFire
