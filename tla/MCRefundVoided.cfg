SPECIFICATION Spec
CONSTANTS
  w1 = w1
  Workers <- OneWorker
  Amounts = {1, 2}
  MaxAttempt = 2
  MaxLost = 2
INVARIANTS
  VoidedIsUnpaid
