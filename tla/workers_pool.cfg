SPECIFICATION FairSpec
CONSTANTS
  Runs = {r1, r2}
  NoRun = NoRun
  PortPairs = 2
  Windows = TRUE
  JobObject = FALSE
  MaxStarts <- TwoAndOne
INVARIANTS
  HeldClaimed
  NothingKept
PROPERTIES
  PassesOverTakenOnly
  StartsEnd
CHECK_DEADLOCK FALSE
