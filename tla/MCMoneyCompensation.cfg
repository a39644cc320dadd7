SPECIFICATION FairSpec
CONSTANTS
  a1 = a1
  a2 = a2
  a3 = a3
  Attempts <- OneAttempt
  NumCredits = 2
  Answers = {"ok", "refused"}
INVARIANTS
  FailureLeavesNothingPosted
CHECK_DEADLOCK FALSE
