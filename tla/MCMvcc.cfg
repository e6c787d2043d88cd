SPECIFICATION FairSpec
CONSTANTS
  t1 = t1  t2 = t2  o1 = o1  o2 = o2
  n1 = n1  n2 = n2  n3 = n3  n4 = n4
  Threads = {t1, t2}
  Objects = {o1, o2}
  Values <- MCValues
  InitialValue <- MCInitialValue
  Updater <- MCUpdater
  Nodes = {n1, n2, n3, n4}
  InitialNode <- MCInitialNode
  Null = Null  NoResult = NoResult  LostRace = LostRace
  MaxOps = 2
INVARIANTS DesiredIsPrivate
PROPERTIES ImplementsRegister SnapshotsAreImmutable OperationsReturn
