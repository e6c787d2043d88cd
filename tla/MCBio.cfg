SPECIFICATION FairSpec
CONSTANTS
  w1 = w1  w2 = w2  w3 = w3
  Workers = {w1, w2, w3}
  MaxPending = 4
  NoJob = NoJob
  MaxJobs = 5
INVARIANTS TakenInOrder InOneHand BacklogIsLimited EnoughAwake
PROPERTIES JobsFinish
