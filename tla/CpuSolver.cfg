SPECIFICATION SearchSpec
CONSTANTS
  N = 61
  W = 256
  LimbBase = 4
  Constraints <- MCConstraints
  XLow <- MCXLow
  Odd <- MCOdd
  Jumps = 4
  JumpDistance <- MCJumpDistance
  LowModulus = 2
  DpModulus = 8
  CycleCap = 5
  RepeatThreshold = 3
  FallbackBits = 3
  RangeBits = {1, 3, 5}
  RangeStarts = {0, 1, 15, 16, 28}
INVARIANTS
  TablesNamePoints
  MeetingSolves
  EscapesInTime
  FallbackIsComplete
  KeyIsRecovered
  WindowHoldsKey
