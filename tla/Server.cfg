\* A process that has exited, handlers that have ended and requests that are used up stop.
CHECK_DEADLOCK FALSE
SPECIFICATION MCSpec
CONSTANTS
  Plain = {p1, p2}
  Import = {i1}
  Connection = {c1, c2, c3}
  SmallPool = {c1, c2}
  None = None
  MaxPolls = 1
  MaxAttempts = 1
  MaxFaults = 1
  Browser = {b1, b2}
  Attempt = {a1, a2}
  Request = {r1, r2, r3}
  NoSession = NoSession
  Caller = {u1, u2}
  Slot = {s1, s2, s3}
  Job = {j1, j2}
  Waiter = {w1}
  NoJob = NoJob
  Life = {"worker", "api"}
  MaxWork = 2
  MaxErrors = 2
  Asked = {"logout", "disconnect", "delete"}
  Lists <- MCLists
  MaxRevoked = 1
  MaxDenials = 1
  MaxDue = 1
  Asks <- MCAsks
  MaxTries = 2
  Parallel = 1
INVARIANTS
  ReturnedClean
  ShutdownIsOrderly
  SessionsStand
  ToldStands
PROPERTIES
  NothingLost
  WorkEnds
  HandedOutIsCurrent
  ClientsServed
