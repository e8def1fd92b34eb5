SPECIFICATION Spec
CONSTANTS
  Width = 5
  Height = 3
  Block = 2
  Radius = 2
  BlockLimit = 4
  Margin = 1
  MaxExpansions = 12
  Maps <- SmallMaps
  Starts <- SmallStarts
  Goals <- SmallGoals
  StallTicks = 1
  LookTicks = 2
  MaxTicks = 7
  Limits = {1, 4}
  MaxChanges = 1
  MaxWalks = 2
INVARIANTS
  RoutesShortest
  FindsTheWay
CHECK_DEADLOCK FALSE
