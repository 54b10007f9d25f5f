SPECIFICATION Spec
CONSTANTS
  u1 = u1 u2 = u2 u3 = u3
  p1 = p1 p2 = p2 p3 = p3 p4 = p4 p5 = p5
  c1 = c1 c2 = c2 c3 = c3 c4 = c4
  NoPage = NoPage
  User <- Users3
  Page <- Pages4
  Chunk <- Chunks4
  PageSize = 2
  ChunkSize = 2
  BufferPages = 0
  MaxBatch = 1
  MaxHistory = 3
  MaxTasks = 2
  MaxDrift = 0
  MaxOffloaded = 2
  Timeouts = FALSE
  FailClose = FALSE
  PollBeforeAllocate = FALSE
  ClientEvicts = FALSE
CONSTRAINTS
  DriftBound
  TokenBound
SYMMETRY Symmetric
INVARIANTS
  OffloadingPagesStay
  ReadsOwnHistory
  OffloadedWithinHistory
