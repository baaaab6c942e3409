SPECIFICATION Spec
CONSTANTS
  NumControllers = 3
  NumWorkers = 2
  MaxCalls = 2
  MaxGeneration = 1
INVARIANTS
  OneOutstanding
  AnsweredCurrent
  NoOrphanProcess
PROPERTIES
  QuarantineIsExact
  ImplementsWorkerPool
