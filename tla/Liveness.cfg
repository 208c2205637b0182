\* Requests end, faults run out, and there may be nothing left to do.
CHECK_DEADLOCK FALSE
SPECIFICATION MCSpec
CONSTANTS
  Request = {r1, r2, r3}
  Worker = {w1, w2}
  Policy = {p1, p2}
  NoEvaluation = NoEvaluation
  NoRequest = NoRequest
  Writers = {"projection", "qa"}
  Faults = {"transient", "crash"}
  MaxAttempts = 2
  MaxChanges = 2
  MaxFaults = 1
  Reconciliation = {1, 2, 3, 4, 5}
  Incremental = {7, 8}
  SyncWorker = {s1}
  NoWorker = NoWorker
  MaxHeads = 3
  Horizon = 1
  Change = {1}
  Context = {"build"}
  Handler = {1}
  Surfaces = {"check_run"}
  Outcomes = {"success", "failure"}
  Scopes = {TRUE, FALSE}
  MaxPosts = 1
  MaxRules = 0
  MaxConfigured = 1
  MaxWeeks = 1
  MaxMerges = 0
  MaxFailures = 0
INVARIANT
  VerdictSeesStates
PROPERTIES
  EvaluationsEnd
  HeadsProjected
  ChecksCatchUp
