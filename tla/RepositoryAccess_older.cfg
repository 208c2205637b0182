SPECIFICATION Spec
CONSTANTS
  Process = {p1, p2}
  Reconciliation = {r1, r2}
  NoProcess = NoProcess
  Ttl = 2
  MaxTime = 3
  MaxChanges = 1
  MaxFaults = 1
  Change = {"suspend"}
SYMMETRY MCSymmetry
CHECK_DEADLOCK FALSE

PROPERTY NewerLifecycleStands
