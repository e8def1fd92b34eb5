SPECIFICATION FairSpec
CONSTANTS
  HitRate = 1
  MissRate = 2
  OutputRate = 1
  Cap = 8
  InputBound = 2
  OutputBound = 1
  Absent = Absent
  Kept = 1
  Threshold = 2
  Acts = {wait, build}
  Wait = wait
  MaxActs = 2
  MaxAttempts = 2
  MaxFallbacks = 2
  WaitBatch = 1
  StepBudget = 3
  Episodes = 2
  Usages <- SmallUsages
INVARIANTS
  SpendAccounted
  StepsAccounted
  MemoryComplete
  StallsAnnounced
PROPERTY
  RunEnds
CHECK_DEADLOCK FALSE
