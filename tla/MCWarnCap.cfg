SPECIFICATION ServiceSpec
CONSTANTS
  Line <- MCLine
  Request <- MCRequest
  RangeCount = 2
  MaxLines = 1
INVARIANT
  WarnCapHonoured
