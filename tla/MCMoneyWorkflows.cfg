SPECIFICATION FairSpec
CONSTANTS
  a1 = a1
  a2 = a2
  a3 = a3
  Attempts <- ThreeAttempts
  NumCredits = 2
  Answers = {"ok", "refused", "lost"}
INVARIANTS
  CleanCompletion
  LegsDependOnLegs
PROPERTIES
  AttemptsEnd
CHECK_DEADLOCK FALSE
