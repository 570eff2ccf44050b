SPECIFICATION TableSpec
CONSTANTS
  N = 7
  W = 8
  MaxDistinguishedPoints = 2
  Buckets = 2
  Reach = 4
  StartScalars = {3}
INVARIANTS
  TableTypeOK
  TableIsConsistent
  TameWildMeetingSolves
CHECK_DEADLOCK FALSE
