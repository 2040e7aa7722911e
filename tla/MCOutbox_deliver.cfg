CONSTANTS
  Loops = {l1, l2}
  l1 = l1
  l2 = l2
  j1 = j1
  j2 = j2
  Actions = {1, 2}
  Jobs = {j1, j2}
  NoJob = NoJob
  RetryLimit = 2
  MaxEdges = 2
  MaxRevision = 2
  MaxCrashes = 1
  MaxTimeouts = 1
SPECIFICATION Spec
SYMMETRY Symmetry
CHECK_DEADLOCK FALSE
INVARIANTS TypeOK SendFenced SentOnce CompletedIsShown CleanupClears
