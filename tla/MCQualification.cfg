SPECIFICATION QualificationSpec
CONSTANTS
  Scenario = "impulse"
  PairsPerEnv = 2
  FirstPush = 1
  PushInterval = 3
  RecoveryWindow = 1
  EpisodeCap = 5
  Durations = {2, 3}
  NumEnvs = 3
  Skips = {0, 1}
  ComparisonCap = 3
  Deadline = 5
  Terms <- TermOrder
  Campaigns <- SmallCampaigns
  None = None
INVARIANTS
  PairsAreComparable
  CohortIsFair
  SelectionIsEarned
CHECK_DEADLOCK FALSE
