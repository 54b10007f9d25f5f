CONSTANTS
  Key = {1, 2}
  NumBuckets = 1
  BucketCap = 1
  Home <- MCHome
  Batch <- MCShared
  Loaded = {1, 2}
  Threshold = 2
  Overlap = TRUE
  Depth = 1
  MaxBatches = 6
SPECIFICATION Spec
CHECK_DEADLOCK FALSE
INVARIANTS HeldRowsStay
