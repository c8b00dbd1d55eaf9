SPECIFICATION FairSpec
CHECK_DEADLOCK FALSE
CONSTANTS
  a = a
  b = b
  c1 = c1
  c2 = c2
  c3 = c3
  Threads = {a, b}
  NoThread = NoThread
  Chunks = {c1, c2}
  ChunkLen <- Lengths2
  MaxChunkLen = 2
  FlushThreshold = 1
  MaxBufferedSpans = 2
  MaxResources = 0
  NoResource = NoResource
  Failures = {"build", "panic"}
PROPERTY ShutdownCompletes
PROPERTY FlushServed
PROPERTY CallsReturn
