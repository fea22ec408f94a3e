SPECIFICATION FairSpec
CONSTANTS
  Kind <- MCKind
  MaxRequests = 2
  LARGE_REQUEST_BODY_SIZE = 1
  max_request_body_size = 2
  HeadRoom = 1
INVARIANTS
  TypeOK
  BodyIntact
  RepliesOrdered
  LastWords
  InFrame
PROPERTIES
  StreamSpec
  EndsAfterEof
  TimeoutEnds
  ExpectAnswered
CHECK_DEADLOCK FALSE
