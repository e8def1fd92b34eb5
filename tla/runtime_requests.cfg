SPECIFICATION Spec
CONSTANTS
  Requests = {r1, r2, r3}
  None = None
  Bodies <- AllBodies
  LedgerLimit = 3
  MaxEpisode = 2
  Configurable = TRUE
INVARIANTS
  OneOperationPerSlot
  PausedBetweenDecisions
  RunningBelongsToEpisode
  RunningIsStoredRunning
  AtMostOnce
PROPERTIES
  ImplementsMutations
SYMMETRY Symmetry
CHECK_DEADLOCK FALSE
