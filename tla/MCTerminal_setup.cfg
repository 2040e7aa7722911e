SPECIFICATION Spec
CONSTANTS
  Sessions = {c1, t1}
  Tasks = {t1}
  Repositories = {a, b}
  People = {p}
  Nobody = Nobody
  NoConfig = NoConfig
  MaxCommands = 3
  MaxFaults = 1
SYMMETRY Symmetry
CHECK_DEADLOCK FALSE
INVARIANTS TypeOK NothingLost RunsWhatIsSaved ConsumersAgree
PROPERTIES RemovalConfirmed
