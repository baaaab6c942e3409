SPECIFICATION RunSpec
CONSTANTS
  NoReading = NoReading
  Thresholds <- SmallThresholds
  MaxAge = 1
  MaxFailures = 1
  GpuReadings <- Readings
  MaxBadStreak = 1
  MaxMonitors = 2
  MaxLevels = {2, 3}
  TrainerMayFail = TRUE
  Snapshots <- ReportChoices
  BaselineSamples = 2
  HazardMargin = 1
  RecoveryMargin = 1
  MaxWrites = 8
  Ranks = 2
  Length = 2
  FirstRate = 1
  FastestRate = 2
  Masked = TRUE
  Kls <- KlChoices
  Joints <- OneJoint
  LastStep = 2
  Switch = 1
  MaxEdits = 2
  EditableKeys <- AllKeys
INVARIANTS
  InterventionsAreDurable
  ReportsAreEvidence
  ResumesKeepTheContract
PROPERTIES
  RequestsAreServedOnce
  RolloutIsItsOwn
CHECK_DEADLOCK FALSE
