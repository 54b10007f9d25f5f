SPECIFICATION Spec
CONSTANTS
  u1 = u1 u2 = u2 u3 = u3
  p1 = p1 p2 = p2 p3 = p3 p4 = p4 p5 = p5
  c1 = c1 c2 = c2 c3 = c3 c4 = c4
  NoPage = NoPage
  User <- Users1
  Page <- Pages5
  Chunk <- Chunks3
  PageSize = 1
  ChunkSize = 2
  BufferPages = 0
  MaxBatch = 1
  MaxHistory = 5
  MaxTasks = 2
  MaxDrift = 1
  MaxOffloaded = 5
  Timeouts = TRUE
  FailClose = FALSE
  PollBeforeAllocate = FALSE
  ClientEvicts = FALSE
CONSTRAINT DriftBound
SYMMETRY Symmetric
INVARIANTS
  HostHoldsOwnHistory
  ChunkPartition
PROPERTIES
  PrefixGrowsOrGoes
