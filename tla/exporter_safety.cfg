SPECIFICATION Spec
CHECK_DEADLOCK FALSE
CONSTRAINT Bounded
SYMMETRY ThreadSymmetry
CONSTANTS
  a = a
  b = b
  c1 = c1
  c2 = c2
  c3 = c3
  Threads = {a, b}
  NoThread = NoThread
  Chunks = {c1, c2, c3}
  ChunkLen <- Lengths
  MaxChunkLen = 3
  FlushThreshold = 1
  MaxBufferedSpans = 2
  MaxResources = 2
  NoResource = NoResource
  Failures = {"build", "panic"}
INVARIANT TypeOK
INVARIANT FifoConserved
INVARIANT ShutdownDrains
INVARIANT BufferBounded
INVARIANT CountersExact
INVARIANT ResourceAppliedOnFlush
PROPERTY ImplementsQueue
