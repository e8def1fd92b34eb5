SPECIFICATION FairSpec
CONSTANTS
  Sparse = 5
  Cap = 1
  Tasks <- SmallTasks
  DecisionTicks = 2
  MaxLevel = 2
  MaxWaits = 3
  SkillBudget = 2
  MaxFaults = 2
  MaxEpisodes = 2
INVARIANTS
  CacheFollowsWorld
  DisruptionsAccounted
  PaidOnce
  ShapingTelescopes
  EndsMeasured
PROPERTY
  EpisodeEnds
CHECK_DEADLOCK FALSE
