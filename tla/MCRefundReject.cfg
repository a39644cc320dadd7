SPECIFICATION DeskSpec
CONSTANTS
  w1 = w1
  w2 = w2
  Workers <- OneWorker
  Amounts = {1}
  MaxAttempt = 1
  MaxLost = 1
PROPERTIES
  RejectedNeverExecutes
