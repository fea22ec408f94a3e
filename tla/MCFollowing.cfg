SPECIFICATION Spec
CONSTANTS
  Line <- MCLine
  RangeCount = 2
  MaxLines = 2
INVARIANT
  FollowingCaptured
