SPECIFICATION FairSpec
CONSTANTS
  Workers = {w1, w2}
  tame = tame
  wild = wild
  bogus = bogus
  Candidate <- MCCandidate
  DP <- MCDP
  Batches <- MCBatches
  Meetings <- MCMeetings
  MaxOps = 3
INVARIANTS
  NothingDropped
  StoppedMeansAllChecked
PROPERTIES
  ImplementsSearch
  Terminates
  ShutdownCompletes
  MeetingIsReported
