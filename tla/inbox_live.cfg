\* A turn, a /new and native input; one Host that may crash.
SPECIFICATION FairSpec
CONSTANTS
  a = a  b = b
  Hosts = {h1}
  NoHost = NoHost
  NMsg = 3
  Convs = {a, b}
  ConvOf <- ConvNew
  KindOf <- KindNew
  MaxAttempts = 1
  MaxConcurrency = 2
  MaxRetries <- RetryFirst
  MaxDefers = 1
  MaxClaims = 2
  MayDrain = TRUE
  MayStall = FALSE
  MayRevoke = FALSE
CHECK_DEADLOCK FALSE
INVARIANTS TypeOK NoFreshBesideOld
PROPERTIES Settles
