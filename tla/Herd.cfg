SPECIFICATION HerdSpec
CONSTANTS
  N = 7
  W = 8
  k1 = k1
  k2 = k2
  Kangaroos = {k1, k2}
  Types <- MCTypes
  Jumps = 2
  JumpDistance <- MCJumpDistance
  CycleCap = 0
  RepeatThreshold = 3
  LowBits = {0}
  Offsets <- MCOffsets
  Distinguished = {2}
  BufferSize = 1
  StartScalars = {3}
  Reach = 2
  MaxDistinguishedPoints = 2
  Buckets = 2
INVARIANT
  MeetingIsSolved
PROPERTY
  ImplementsTable
  SameSignMeetingSolves
CHECK_DEADLOCK FALSE
