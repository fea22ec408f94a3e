SPECIFICATION FairSpec
CONSTANTS
  c1 = c1
  c2 = c2
  c3 = c3
  Acceptor = Acceptor
  Client <- MCClient
  Stalling <- MCStalling
  threads = 2
  MaxSync = 2
INVARIANTS
  TypeOK
  LateBounded
PROPERTIES
  NoStarvation
  ConnectedServed
CHECK_DEADLOCK FALSE
