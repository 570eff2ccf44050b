SPECIFICATION Spec
CONSTANTS
  N = 251
  W = 256
  LimbBase = 4
  Names = {"big", "small", "soft", "slow"}
  HashSeed <- MCHashSeed
  Invocations <- MCInvocations
  Versions = {v1, v2}
  MeasuredWeights = {1, 5}
  AutoCap = 6
  AutoBits = 4
  OptimalKangaroos <- MCOptimalKangaroos
  DefaultRangeBits = 6
  DpMin = 1
  DpMax = 3
  ProbeCap = 20
SYMMETRY VersionSymmetry
INVARIANTS
  UniqueStarts
  StartsNamePoints
  BudgetIsSpent
  WeightsAreMeasured
  PuzzleIsCovered
  OpenedIsListedOnOneBackend
CHECK_DEADLOCK FALSE
