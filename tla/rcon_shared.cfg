SPECIFICATION FairSpec
CONSTANTS
  Threads = {loop, sampler}
  NoThread = NoThread
  FirstId = 100
  MaxId = 1000
  Chunks = 2
  Players = TRUE
  Torn = TRUE
  MaxCalls = 4
  MaxDelays = 2
INVARIANTS
  AnswersAreOwn
  DelaysAccounted
PROPERTY
  CallsEnd
CHECK_DEADLOCK FALSE
