SPECIFICATION Spec
CONSTANTS
  i1 = i1
  i2 = i2
  NoItem = NoItem
  Items <- MCItems
  ItemDependsOn <- MCItemDependsOn
  Flows <- AllFlows
  MaxParallel = 2
  MaxHandoffs = 1
  MaxAttempts = 6
  MaxDecisions = 3
  MaxFailures = 2
  MaxRetries = 1
CHECK_DEADLOCK FALSE
INVARIANTS TypeOK GateHolds KeepsApproved ApprovalsMatch NeverStuck
 
