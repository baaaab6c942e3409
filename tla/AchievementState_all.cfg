SPECIFICATION HysteresisSpec
CONSTANTS
  LastStage = 2
  RequiredPasses = 2
  RequiredRegressions = 3
  Checkpoints = {c1, c2, c3, c4, c5}
  SeedSets = {s}
  Weights = {w}
  MaxReports = 9
  None = None
SYMMETRY CheckpointSymmetry
INVARIANTS
  EvidenceIsExact
  LevelsAreEarned
CHECK_DEADLOCK FALSE
