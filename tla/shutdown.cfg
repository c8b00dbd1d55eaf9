SPECIFICATION FairSpec
CHECK_DEADLOCK FALSE
CONSTANTS
  MaxPoints = 2
  Panics = {"exporter", "rc", "telemetry"}
INVARIANT AnswerIsTrue
INVARIANT PointsConserved
PROPERTY ShutdownEnds
