SPECIFICATION Spec
CONSTANTS
  Workers = {w1, w2}
  NoWorker = NoWorker
  Roots = {1, 2}
  Children = {}
  Plugin = FALSE
  ObservedStates = {}
  MaxEdges = 2
  MaxCrashes = 1
SYMMETRY Symmetry
INVARIANTS TypeOK EffectFenced ClosedIsFinished 
PROPERTIES CancelIsFinal DispatchesCurrentWork ObservedInOrder
