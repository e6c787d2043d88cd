SPECIFICATION StructuresSpec
CONSTANTS
  RingItems = {1, 2}
  Capacities = {1, 2, 3, 5}
  Hole = Hole
  MaxNodes = 4
  Null = Null
  Heads = {h1, h2}
  Entries = {a, b, c}
  POISON = POISON
  TreeSize = 8
  Elts = {1, 2, 3}
  Replicas = {0, 1}
  HashSpace = 7
  MaxNames = 3
  Hashes <- MCHashes
INVARIANTS
  ListsAreRight ListsAndWalksAreRight TreeIsRight LookupsAreRight CircleIsOfMembers
PROPERTIES
  RingIsRecentItems OperationsAreOnSequences OnlyNeededKeysMove
CHECK_DEADLOCK FALSE
