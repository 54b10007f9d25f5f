SPECIFICATION FairSpec
CONSTANTS
  r1 = r1 r2 = r2 r3 = r3 r4 = r4 r5 = r5
  NoTimeout = NoTimeout
  Request <- Requests3
  DecodeSteps <- Steps2
  Width <- Ones
  Context <- Long3
  Timeout <- Late1
  MaxPrefill = 2
  MaxDecode = 2
  MaxRunning = 2
  MaxContext = 2
  MaxBeams = 6
  MaxFinished = 3
  BeamSlots = 2
  ContextSlots = 2
  Faults = {"prefill", "decode"}
  MaxSubmits = 1
  MaxMany = 2
  MaxTicks = 1
  Uses = {"cancel", "drain", "tick"}
CHECK_DEADLOCK FALSE
INVARIANTS
  KVHealth
  QueuesMatchStages
  NoSubmissionLost
PROPERTIES
  ImplementsServer
  PendingIsTaken
