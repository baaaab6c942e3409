SPECIFICATION TermSpec
CONSTANTS
  NumRows = 2
  MaxOps = 4
  MaxActive = 3
  Rearm = 2
  OnsetDelta = 1
  MaxAuthority = 2
  Onsets <- SmallOnsets
  Nominals <- SmallNominals
  Raws <- SmallRaws
  Pulls <- SmallPulls
  Limit = 1
  Frameskip = 2
  Decimation = 4
  Gated = TRUE
  TorqueChannel = TRUE
  MaxSteps = 4
  Simulated = 2
  Controlled = 1
  Configurations <- ColumnChoices
  MaxFeeds = 2
  Default = 5
  Reference = 10
  EffortLimit = 100
  Spread = 1
  EffortSpread = 5
  Cap = 3
  Torques <- TorqueChoices
  Residuals <- SmallResiduals
  Terms = 2
  MaxInterrupts = 1
INVARIANTS
  ServiceIsAccounted
  MaskIsAuthorityApplied
  NothingOutlivesItsEpisode
  FeedsReachTheirCallbacks
  TorqueIsTheLaws
  TeardownIsOrdered
PROPERTIES
  QpFailureIsLatched
  RefusalIsEarned
  BurstsAreRare
CHECK_DEADLOCK FALSE
