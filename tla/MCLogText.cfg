SPECIFICATION TextSpec
CONSTANTS
  Line <- MCLine
  RangeCount = 1
  MaxLines = 3
  Token <- MCToken
  Text <- MCText
  Contents <- MCContents
INVARIANTS
  TextTypeOK
  StartupOrder
  LinesRebuildText
  LevelReported
  WordsDecide
  ReportedForReason
CHECK_DEADLOCK FALSE
