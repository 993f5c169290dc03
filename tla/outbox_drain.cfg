\* An ordinary message and a maintenance acknowledgement, with a restart fence.
SPECIFICATION FairSpec
CONSTANTS
  l1 = l1
  Hosts = {h1}
  NoOwner = NoOwner
  NMsg = 2
  Lanes <- Lane1
  LaneOf <- OneLane
  Routes <- None
  Maintenance <- Second
  ReconLanes <- Lane1
  Verdicts <- PolicyAgrees
  MaxAttempts = 1
  MaxConcurrency = 1
  MaxGen = 1
  MaxRetries <- NoRetry
  MayDrain = TRUE
  StalledDispatch = FALSE
  RacyReconcile = FALSE
PROPERTIES DrainStartsNothing Settles
