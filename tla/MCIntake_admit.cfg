SPECIFICATION Spec
CONSTANTS
  Pollers = {p1}
  Handlers = {h1}
  Comments = {1, 2}
  Kind <- MCKind
  Maintainers <- MCMaintainers
  Mailed = {1}
  PageSize = 1
  Overlap = 1
  Skew = 2
  Outcomes = {"needs_info", "needs_human"}
  MaxTime = 2
  MaxUpsets = 1
CHECK_DEADLOCK FALSE
INVARIANTS TypeOK AppliedOnce ActiveIsCurrent NothingSkipped
PROPERTIES QueuedByRight
