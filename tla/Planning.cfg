\* A search or an evaluation ends, and with every bound used up nothing is left to do.
CHECK_DEADLOCK FALSE
SPECIFICATION MCSpec
CONSTANTS
  Change = {1, 2, 3}
  Absent = Absent
  PR = {1, 2}
  Hand <- MCHand
  MaxEdits = 1
  MaxRequests = 2
  MaxMoves = 1
  MaxFaults = 0
  Request = {r1, r2}
  NoRequest = NoRequest
  Invalid = Invalid
  Garbled = Garbled
INVARIANTS
  SearchesAreExact
  BlockIsKept
  PlanIsSound
  GraphStaysAcyclic
  MirrorAgrees
  PagesHold
