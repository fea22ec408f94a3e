SPECIFICATION TextSpec
CONSTANTS
  Line <- MCLine
  RangeCount = 1
  MaxLines = 3
  Token <- MCToken
  Text <- MCText
  Contents <- MCContents
INVARIANT
  ErrorWordReported
CHECK_DEADLOCK FALSE
