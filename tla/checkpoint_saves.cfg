SPECIFICATION Spec
CONSTANTS
  Stable = 3
  Polls = 17
  Pieces = 3
  Delay = 3
  Pause = 2
  Saves = 2
  Runs = 2
  None = None
INVARIANTS
  ReportedIsWhole
  SettlesInTime
  ResumesLatest
CHECK_DEADLOCK FALSE
