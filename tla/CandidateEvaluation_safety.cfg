\* Two slots evaluate while every writer keeps changing the state, or while two writers do and faults occur.
SPECIFICATION MCSpec
CONSTANTS
  NoEvaluation = NoEvaluation
  NoRequest = NoRequest
  Request = {r1, r2, r3, r4, r5, r6}
  Worker = {w1, w2}
  Policy = {p1, p2}
  Writers = {"projection", "archive", "syncFailure", "incremental", "configure", "override", "deletion", "rules", "checks", "qa", "dependencies", "exclusion", "installation"}
  Faults = {"transient", "permanent", "crash", "jobLoss"}
  MaxAttempts = 2
  MaxChanges = 3
  MaxFaults = 2
SYMMETRY MCSymmetry
CHECK_DEADLOCK FALSE
INVARIANTS Inv FreshVerdict
PROPERTIES ImplementsVerdict EvaluationNotDropped TerminalStays
