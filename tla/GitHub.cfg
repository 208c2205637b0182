\* A user may do nothing more, and GitHub may send nothing more.
CHECK_DEADLOCK FALSE
SPECIFICATION MCSpec
CONSTANTS
  Process = {p1, p2}
  Resolution = {r1, r2}
  Login = {b1}
  NoOne = NoOne
  Lost = Lost
  MaxToken = 3
  MaxFaults = 1
  MaxDelivery = 2
  MaxAttempts = 3
  Concurrency = 2
  MaxTrouble = 2
  Scenarios <- MCScenarios
  Kind = {"created", "suspend", "unsuspend", "deleted", "new_permissions_accepted", "added", "removed", "future_action", "malformed"}
  Faults = {"lost", "redelivered", "error", "crash", "late"}
INVARIANTS
  TokenStands
  AppliedOnce
  RowsFollowGitHub
PROPERTY
  EverythingEnds
