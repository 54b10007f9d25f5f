SPECIFICATION Spec
CONSTANTS
  r1 = r1 r2 = r2 r3 = r3 r4 = r4 r5 = r5
  NoTimeout = NoTimeout
  Request <- Requests5
  DecodeSteps <- Steps2
  Width <- Ones
  Context <- Large1
  Timeout <- Never
  MaxPrefill = 2
  MaxDecode = 2
  MaxRunning = 3
  MaxContext = 3
  MaxBeams = 6
  MaxFinished = 1
  BeamSlots = 3
  ContextSlots = 3
  Faults = {"prefill"}
  MaxSubmits = 2
  MaxMany = 2
  MaxTicks = 1
  Uses = {"cancel", "shutdown"}
SYMMETRY Alike
CONSTRAINT SubmitBound
CHECK_DEADLOCK FALSE
INVARIANTS
  SlotsHaveOneOwner
  PoolHealth
  PlanSound
PROPERTIES
  RetainedAnswersStay
