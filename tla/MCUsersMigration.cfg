SPECIFICATION FairSpec
CONSTANTS
  w1 = w1
  w2 = w2
  w3 = w3
  Workers <- MCWorkers
  MaxKills = 2
CHECK_DEADLOCK FALSE
INVARIANTS
  TypeOK
  OneInsertPerWorker
  ListeningHasUser
PROPERTIES
  EveryWorkerListens
  UniqueOrNeverIndexed
