SPECIFICATION FairSpec
CONSTANTS
  Kind <- PostKind
  MaxRequests = 1
  LARGE_REQUEST_BODY_SIZE = 1
  max_request_body_size = 2
  HeadRoom = 1
PROPERTY
  PostAnswered
CHECK_DEADLOCK FALSE
