SPECIFICATION FairSpec
CONSTANTS
  caller1 = caller1
  caller2 = caller2
  x1 = x1
  x2 = x2
  Caller <- MCCaller
  Conn <- MCConn
  Host = {"h1", "h2"}
  max_idle_connections_ = 1
  max_redirects_ = 1
  max_retries_ = 1
INVARIANTS
  TypeOK
  Exclusive
  NoLeak
  RightHost
  PoolBounded
  AttemptsBounded
PROPERTIES
  OwnershipSpec
  CallShrinks
  CallReturns
  AwaitedCallReturns
