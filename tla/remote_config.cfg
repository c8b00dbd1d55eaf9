SPECIFICATION MCSpec
CHECK_DEADLOCK FALSE
CONSTANTS
  i1 = i1
  i2 = i2
  r1 = r1
  r2 = r2
  Ids = {i1, i2}
  RuleSets = {r1, r2}
  LocalRules = LocalRules
  None = None
  Files <- AllFiles
  TargetsKinds = {"undecodable", "with_state"}
  MaxFiles = 2
  MaxPolls = 2
  Free = Free
  Names = {main, none, a, b, c}
  Main = main
  Ignored = {none}
  Exporters = {e1, e2}
  Poller = poller
  Limit = 2
  MaxAdds = 3
  MaxRounds = 2
INVARIANT SamplerFollowsConfig
INVARIANT TelemetryFollowsConfig
INVARIANT ResponseRecorded
INVARIANT TrackerExact
PROPERTY CancelEnds
