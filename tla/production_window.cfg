SPECIFICATION WSpec
CONSTANTS
  OverTicks = 2
  AtLeast = 2
  MaxSampleGap = 1
  NotBefore = 3
  WindowSamples = 3
  Lengths = {2}
  FreeRunning = TRUE
  Sampling = TRUE
  Yield = 1
  MaxTick = 4
  MaxSamples = 1
  MaxBegun = 2
INVARIANTS
  CriterionSound
PROPERTIES
  MetricsAgree
CHECK_DEADLOCK FALSE
