SPECIFICATION FairSpec
CONSTANTS
  NumRanks = 2
  Pipelines = {"native", "prefetch"}
  Shufflers = {"identity", "balanced"}
  Plans <- MCPlans
CHECK_DEADLOCK FALSE
INVARIANTS
  NothingReadEarly
  BatchesInOrder
PROPERTIES
  JobEnds
