SPECIFICATION Spec
CONSTANTS
  Pollers = {poller}
  Requests = {request}
  Workers = {w1}
  Comments = {revise}
  Approvals = {}
  Authorized = {revise}
  Reviewer = FALSE
  Repair = FALSE
  MaxJobs = 3
  MaxCommits = 1
  MaxMail = 1
  MaxPeople = 0
  MaxFaults = 0
SYMMETRY Symmetry
CHECK_DEADLOCK FALSE
INVARIANT AppliedOnce
