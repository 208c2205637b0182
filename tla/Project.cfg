\* With the history and the runs used up nothing is left to do.
CHECK_DEADLOCK FALSE
SPECIFICATION MCSpec
CONSTANTS
  Pulls = {1}
  Sources = {"main", "dev"}
  Events = {"open", "push", "merge", "crash"}
  MaxLength = 1
  MaxCommits = 4
  MaxRuns = 4
  MaxQa = 0
  MaxConfigured = 2
  Client = {c1, c2}
  Branch = {"main", "dev", "prod"}
  Topologies <- OnlyMain
  Overrides = {TRUE, FALSE}
  Statuses = {"disconnected"}
  MaxVersion = 3
  MaxMoves = 0
  MaxRefusals = 0
INVARIANTS
  AttributedTruly
  PickedIsReleased
  RewriteResetsQa
  SettlesAfterTwo
  HeadsCoexisted
PROPERTIES
  ConfigurationStands
