SPECIFICATION FairSpec
CONSTANTS
  c1 = c1
  c2 = c2
  c3 = c3
  Acceptor = Acceptor
  Client <- MCClient
  Stalling <- MCNone
  threads = 2
  MaxSync = 2
PROPERTY
  StopEnds
CHECK_DEADLOCK FALSE
