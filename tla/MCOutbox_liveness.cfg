CONSTANTS
  Loops = {l1}
  l1 = l1
  Actions = {1, 2}
  Jobs = {j1}
  j1 = j1
  NoJob = NoJob
  RetryLimit = 2
  MaxEdges = 2
  MaxRevision = 1
  MaxCrashes = 1
  MaxTimeouts = 0
SPECIFICATION FairSpec
CHECK_DEADLOCK FALSE
PROPERTIES PendingResolved
