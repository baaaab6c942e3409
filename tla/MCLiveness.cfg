SPECIFICATION AllSpec
CONSTANTS
  NoReading = NoReading
  MaxControllers = 7
  MaxRowSize = 2
  MaxBase = 1
INVARIANTS
  SlicesPartitionTheBlock
PROPERTIES
  PoolProgresses
  QuarantineEnds
  WatchdogActs
  QualificationEnds
CHECK_DEADLOCK FALSE
