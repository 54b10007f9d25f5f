CONSTANTS
  Key = {1, 2, 3, 4, 5, 6}
  NumBuckets = 2
  BucketCap = 1
  Home <- MCHome
  Batch <- MCBatch
  Loaded = {1, 2, 3, 4, 5}
  Threshold = 2
  Overlap = FALSE
  Depth = 2
  MaxBatches = 4
SPECIFICATION Spec
CHECK_DEADLOCK FALSE
INVARIANTS PinsMatch HeldRowsStay NoUpdateLost
