SPECIFICATION Spec
CONSTANTS
  u1 = u1 u2 = u2 u3 = u3
  p1 = p1 p2 = p2 p3 = p3 p4 = p4 p5 = p5
  c1 = c1 c2 = c2 c3 = c3 c4 = c4
  NoPage = NoPage
  User <- Users2
  Page <- Pages3
  Chunk <- Chunks1
  PageSize = 1
  ChunkSize = 1
  BufferPages = 0
  MaxBatch = 2
  MaxHistory = 2
  MaxTasks = 1
  MaxDrift = 1
  MaxOffloaded = 3
  Timeouts = TRUE
  FailClose = TRUE
  PollBeforeAllocate = FALSE
  ClientEvicts = TRUE
CONSTRAINT DriftBound
SYMMETRY Symmetric
INVARIANTS
  LocksMatchTasks
  ChunkPartition
  GPUTypeOK
  PagePartition
  PageListsMatchLengths
  LruListsCachedUsers
PROPERTIES
  GPUSpec
