SPECIFICATION ServiceSpec
CONSTANTS
  Line <- MCLine
  Request <- MCRequest
  RangeCount = 2
  MaxLines = 3
INVARIANTS
  ServiceTypeOK
  AnswerIsReference
