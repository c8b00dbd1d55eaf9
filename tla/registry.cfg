SPECIFICATION MCSpec
CHECK_DEADLOCK FALSE
CONSTRAINT Bounded
CONSTANTS
  s1 = s1
  s2 = s2
  s3 = s3
  s4 = s4
  t1 = t1
  t2 = t2
  root = root
  child = child
  other = other
  remote = remote
  dropped = dropped
  None = None
  Threads <- TwoThreads
  LabelSpans <- FiveSpans
  TraceOf <- TwoTraces
  RouteOf <- RootRoutes
  Remote <- OthersSpans
  Shown <- AllButDropped
  MaxDepth = 2
  MaxAttaches = 3
  Traces = {t1, t2}
  Spans <- FourSpans
  NoSpan = NoSpan
  NoTrace = NoTrace
  NoPriority = NoPriority
  Priorities <- KeepAndReject
  ParentKinds = {"none", "remote", "foreign"}
  MaxRoots = 2
  NumShards = 2
  ShardOf <- ShardEach
  PartialFlushEnabled = TRUE
  PartialFlushMinSpans = 3
  MaxCollections = 1
INVARIANT TypeOK
INVARIANT RootFirst
INVARIANT ExactlyOnce
INVARIANT OpenCountExact
INVARIANT ActiveMetadataExact
INVARIANT DecisionsAgree
INVARIANT MetricsConserved
INVARIANT LabelsDescribeCurrent
PROPERTY DecisionPinned
