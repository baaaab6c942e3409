SPECIFICATION Spec
CONSTANTS
  LastStage = 1
  RequiredPasses = 2
  RequiredRegressions = 1
  LastIteration = 2
  Checkpoints = {0, 1, 2}
  SeedSets = {s1}
  Weights = {1, 2}
  MaxReports = 3
  MaxLives = 2
  None = None
  Torn = Torn
INVARIANTS
  StagesAreEarned
  FilesFollowTheState
  NothingIsDropped
PROPERTIES
  CopiesAreKept
CHECK_DEADLOCK FALSE
