SPECIFICATION Spec
CONSTANTS
  Workers = {w1, w2}
  NoCommit = NoCommit
  MaxCommits = 2
  RetryLimit = 2
  MaxFaults = 1
  MaxRetries = 1
SYMMETRY Symmetry
CHECK_DEADLOCK FALSE
INVARIANTS RetainsUnpublished
