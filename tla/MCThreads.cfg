SPECIFICATION ThreadsSpec
CONSTANTS
  SkipKeys = {1, 2, 3}
  TopLevel = 2
  MaxSkip = 3
  NULL = NULL
  FirstCap = 2
  MaxMade = 3
  StackSize = 2
  NoCo = NoCo
  Users = {u1, u2}
  Sockets = {s1, s2}
  MaxAsks = 2
  MaxSent = 2
  MaxReads = 1
  MaxEvents = 3
  NoAccount = NoAccount
INVARIANTS
  SearchesAreLinearizable LevelsAreSorted StacksAreKept LoginsAreAccountedFor MessagesAreKept
SYMMETRY Symmetry
CHECK_DEADLOCK FALSE
