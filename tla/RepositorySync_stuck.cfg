\* A failed reconciliation keeps later ones from the heads.
SPECIFICATION FairSpec
CONSTANTS
  NoWorker = NoWorker
  Reconciliation = {1, 2, 3, 4, 5, 6}
  Incremental = {7}
  Worker = {w1}
  MaxHeads = 2
  Writers = {"push"}
  Faults = {"delivery", "permanent"}
  MaxAttempts = 2
  MaxWrites = 1
  MaxFaults = 2
  Horizon = 1
  MaxBucket = 4
CHECK_DEADLOCK FALSE
PROPERTIES HeadsProjected
