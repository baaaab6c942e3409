SPECIFICATION EnvironmentSpec
CONSTANTS
  Warmup = 2
  MaxLength = 6
  Start = 2
  Top = 4
  Whole = 4
  Advance = 3
  Regress = 2
  Mixtures <- PushMixtures
  PushWarmup = 1
  Low = 3
  High = 4
  ShortPush = 1
  LongPush = 2
  LadderAdvance = 4
  LadderRegress = 3
  Joints <- JointOrder
  Legs <- LegChains
  UpperBody = {"arm"}
  Limit <- Limits
  Stiffness <- Gains
INVARIANTS
  KicksAreTheEpisodes
  TaskIsConsistent
PROPERTIES
  ImpulsesAreDelivered
CHECK_DEADLOCK FALSE
