\* Two slots; the three parts of the module choose among these writers and faults.
SPECIFICATION MCSpec
CONSTANTS
  NoWorker = NoWorker
  Reconciliation = {1, 2, 3, 4, 5}
  Incremental = {6, 7}
  Worker = {w1, w2}
  MaxHeads = 2
  Writers = {"push", "forcedPush", "override", "manual", "unsuspend", "configure", "deletion"}
  Faults = {"crash", "permanent", "jobLoss"}
  MaxAttempts = 2
  MaxWrites = 2
  MaxFaults = 1
  Horizon = 1
  MaxBucket = 1
SYMMETRY MCSymmetry
CHECK_DEADLOCK FALSE
INVARIANTS OneQueued ClaimHolds RequestsCarried
PROPERTY HistoryStands
