SPECIFICATION Spec
CONSTANTS
  Pollers = {poller}
  Requests = {}
  Workers = {w1}
  Comments = {revise, again}
  Approvals = {}
  Authorized = {revise, again}
  Reviewer = TRUE
  Repair = TRUE
  MaxJobs = 3
  MaxCommits = 2
  MaxMail = 1
  MaxPeople = 1
  MaxFaults = 1
SYMMETRY Symmetry
CHECK_DEADLOCK FALSE
INVARIANTS TypeOK PublishedOnBranch ReadyIsPublished OneOpenRevision
