SPECIFICATION HFairSpec
CONSTANTS
  Workers = 3
  SceneCount = 4
  NoScene = NoScene
  RetryLimit = 2
  MaxSteps = 2
INVARIANTS
  OnePlace
  GivesUpOnSpentOnly
PROPERTIES
  ImplementsRedelivery
  EvaluationEnds
CHECK_DEADLOCK FALSE
