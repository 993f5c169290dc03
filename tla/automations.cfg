\* Two coordinators and up to three occurrences of one automation.
SPECIFICATION FairSpec
CONSTANTS
  x = x
  Procs = {p1, p2}
  NOcc = 3
  Autos = {x}
  Setups <- SmallSetups
  MaxConcurrency = 2
CHECK_DEADLOCK FALSE
INVARIANTS TypeOK LedgerAgrees OverlapExclusive
PROPERTIES KeepsPromise Settles
