SPECIFICATION MCSpec
CHECK_DEADLOCK FALSE
SYMMETRY SpanSymmetry
CONSTANTS
  s1 = s1
  s2 = s2
  s3 = s3
  s4 = s4
  t1 = t1
  t2 = t2
  Traces = {t1}
  Spans <- ThreeSpans
  NoSpan = NoSpan
  NoTrace = NoTrace
  NoPriority = NoPriority
  Priorities <- KeepAndReject
  ParentKinds = {"none", "remote", "deferred"}
  MaxRoots = 2
  root = root
  child = child
  other = other
  remote = remote
  dropped = dropped
  None = None
  Threads <- TwoThreads
  LabelSpans <- FiveSpans
  TraceOf <- TwoTraces
  RouteOf <- RootRoutes
  Remote <- OthersSpans
  Shown <- AllButDropped
  MaxDepth = 2
  MaxAttaches = 3
  NumShards = 1
  ShardOf <- OneShard
  PartialFlushEnabled = FALSE
  PartialFlushMinSpans = 2
  MaxCollections = 0
PROPERTY ChunkComplete
