SPECIFICATION Spec
CONSTANTS
  Process = {p1}
  Reconciliation = {r1, r2}
  NoProcess = NoProcess
  Ttl = 2
  MaxTime = 2
  MaxChanges = 1
  MaxFaults = 1
  Change = {"suspend", "unsuspend", "deleted", "added", "removed", "permission"}
SYMMETRY MCSymmetry
CHECK_DEADLOCK FALSE
INVARIANTS AllowedIsRecent SharedHonestly
PROPERTY DeletionStands
