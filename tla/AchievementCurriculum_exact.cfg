SPECIFICATION Spec
CONSTANTS
  LastStage = 1
  RequiredPasses = 2
  RequiredRegressions = 1
  LastIteration = 1
  Checkpoints = {0, 1}
  SeedSets = {s1, s2}
  Weights = {1, 2}
  MaxReports = 2
  MaxLives = 2
  None = None
  Torn = Torn
INVARIANTS
  ExactCheckpointIsRetained
CHECK_DEADLOCK FALSE
