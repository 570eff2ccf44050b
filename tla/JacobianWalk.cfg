SPECIFICATION Spec
CONSTANTS
  N = 31
  W = 64
  P = 43
  Base <- MCBase
  k1 = k1
  k2 = k2
  Kangaroos = {k1, k2}
  Types <- MCTameAndWild
  Jumps = 4
  JumpDistance <- MCJumpDistance
  JumpHash <- MCJumpHash
  EscapeHash <- MCEscapeHash
  CycleCap = 3
  RepeatThreshold = 2
  LowBits = {0, 1}
  Offsets <- MCOffsets
  StartScalars = {5}
  BufferSize = 2
  Reach = 20
  StepsPerCall = 2
  DpModulus = 4
INVARIANT
  MergedWalksStayMerged
PROPERTIES
  ImplementsWalk
  NormalizePassReports
CHECK_DEADLOCK FALSE
