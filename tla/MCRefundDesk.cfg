SPECIFICATION DeskSpec
CONSTANTS
  w1 = w1
  w2 = w2
  Workers <- TwoWorkers
  Amounts = {1}
  MaxAttempt = 1
  MaxLost = 1
SYMMETRY WorkerSymmetry
INVARIANTS
  OneLiveAttempt
  RecordIsTrue
PROPERTIES
  ImplementsExecutor
