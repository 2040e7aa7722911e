SPECIFICATION FairSpec
CONSTANTS
  Workers = {w1}
  NoWorker = NoWorker
  Roots = {1}
  Children = {11}
  Plugin = TRUE
  ObservedStates = {"needs_info"}
  MaxEdges = 2
  MaxCrashes = 1
PROPERTIES ClosingLands CancellationAcknowledged
INVARIANTS NoOrphanTask
