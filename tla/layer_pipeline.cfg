SPECIFICATION FairSpec
CONSTANTS
  NumLayers = 3
  Page = {1, 2}
  Data = {"d", "e"}
  MaxRequests = 5
CHECK_DEADLOCK FALSE
INVARIANTS
  AttendsOwnLayer
  NoGatherFromFreePages
  HostedIsComplete
PROPERTIES
  PassesEnd
