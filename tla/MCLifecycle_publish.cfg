SPECIFICATION Spec
CONSTANTS
  i1 = i1
  i2 = i2
  NoItem = NoItem
  Items <- OneItem
  ItemDependsOn <- Single
  Flows <- OneFlow
  MaxParallel = 2
  MaxHandoffs = 1
  MaxAttempts = 6
  MaxDecisions = 3
  MaxFailures = 2
  MaxRetries = 1
CHECK_DEADLOCK FALSE
INVARIANTS PublishesOnlyComplete
