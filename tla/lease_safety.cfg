\* Two processes, the owner and another identity, two claims, a store that may fail.
SPECIFICATION FairSpec
CONSTANTS
  Procs = {p1, p2}
  Identities = {owner, other}
  Nobody = Nobody
  MaxToken = 2
  MaxPending = 2
  MaxVersion = 2
  StoreFails = TRUE
INVARIANTS TypeOK Exclusive
PROPERTIES TakeoverIsProven KeepsPromise ClosedIsReleased
CHECK_DEADLOCK FALSE
