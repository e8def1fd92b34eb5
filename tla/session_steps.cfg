SPECIFICATION SSpec
CONSTANTS
  Requests = {1, 2, 3}
  None = None
  Bodies <- StepBodies
  LedgerLimit = 8
  MaxEpisode = 2
  Configurable = FALSE
  Polls = 1
INVARIANTS
  NoLostSettlement
  ReportsHold
  StaleHeals
PROPERTY
  CallsSettle
CHECK_DEADLOCK FALSE
