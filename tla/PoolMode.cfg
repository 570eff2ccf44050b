SPECIFICATION Spec
CONSTANTS
  Meetings <- MCMeetings
  Wrong <- MCWrong
  MaxOps = 2
  MaxPoints = 3
  MaxBatch = 3
  MaxStarts = 2
  MaxDpsPerBatch = 3
  MaxPacked = 2
  InitialAttempts = 2
  Retries = 1
  MaxAssignments = 2
  MaxLives = 2
INVARIANTS
  BatchesAreRecorded
  RecordsArriveOnce
  SequenceIsConsecutive
PROPERTIES
  EachLifeImplementsSearch
  RecordsAreReceived
CHECK_DEADLOCK FALSE
