\* A reconciliation that fails for good does not take the verdict back.
SPECIFICATION Spec
CONSTANTS
  NoEvaluation = NoEvaluation
  NoRequest = NoRequest
  Request = {r1, r2, r3, r4, r5, r6}
  Worker = {w1}
  Policy = {p1, p2}
  Writers = {"projection", "syncFailure"}
  Faults = {}
  MaxAttempts = 1
  MaxChanges = 2
  MaxFaults = 0
CHECK_DEADLOCK FALSE
INVARIANT ReadyMeansAllGates
