\* One plain message, two Hosts, adapters that keep their contract.
SPECIFICATION Spec
CONSTANTS
  l1 = l1
  Hosts = {h1, h2}
  NoOwner = NoOwner
  NMsg = 1
  Lanes <- Lane1
  LaneOf <- OneLane
  Routes <- None
  Maintenance <- None
  ReconLanes <- Lane1
  Verdicts <- PolicyAgrees
  MaxAttempts = 2
  MaxConcurrency = 1
  MaxGen = 2
  MaxRetries <- RetryFirst
  MayDrain = FALSE
  StalledDispatch = FALSE
  RacyReconcile = FALSE
SYMMETRY SymHosts
INVARIANTS TypeOK ClaimMatchesLedger AtMostOncePerGrant WaitingIsUnsent AcceptedIsReal AttemptsBounded
PROPERTIES OnlyHolderSettles OutcomeMonotone KeepsPromise
