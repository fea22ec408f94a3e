SPECIFICATION Spec
CONSTANTS
  Line <- MCLine
  RangeCount = 2
  MaxLines = 4
INVARIANTS
  TypeOK
  ScanAccounts
  ReturnedReport
  RangeDiscipline
  ErrorsReported
PROPERTY
  ContractSpec
