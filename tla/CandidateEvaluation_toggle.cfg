\* Overrides that are set and reset leave the candidate waiting.
SPECIFICATION FairSpec
CONSTANTS
  NoEvaluation = NoEvaluation
  NoRequest = NoRequest
  Request = {r1, r2, r3, r4, r5, r6}
  Worker = {w1}
  Policy = {p1, p2}
  Writers = {"projection", "override"}
  Faults = {}
  MaxAttempts = 1
  MaxChanges = 3
  MaxFaults = 0
CHECK_DEADLOCK FALSE
PROPERTY NewerStateWins
