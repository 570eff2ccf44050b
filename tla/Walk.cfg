SPECIFICATION Spec
CONSTANTS
  N = 7
  W = 8
  Kangaroos = {k1}
  Types <- MCTypes
  Jumps = 3
  JumpDistance <- MCJumpDistance
  CycleCap = 2
  RepeatThreshold = 1
  LowBits = {0, 1}
  Offsets <- MCOffsets
  Distinguished = {2}
  BufferSize = 2
  StartScalars = {3}
  Reach = 5
INVARIANTS
  TypeOK
  DistanceNamesPoint
  NoFruitlessPair
CHECK_DEADLOCK FALSE
