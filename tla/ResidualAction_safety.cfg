SPECIFICATION Spec
CONSTANTS
  w1 = w1
  w2 = w2
  r1 = r1
  r2 = r2
  r3 = r3
  Worker <- MCWorker
  Row <- MCRow
  RowsOf <- MCRowsOf
  Frameskip = 2
  Decimation = 4
INVARIANTS
  StagedRowsAreTheEpisodes
  ResetIsQueued
  ExclusiveBlocks
PROPERTIES
  ResetIsAcknowledged
