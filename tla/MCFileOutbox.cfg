SPECIFICATION FairSpec
CONSTANTS
  e1 = e1
  e2 = e2
  e3 = e3
  e4 = e4
  Events <- MCEvents
  Poison <- MCPoison
  BatchLimit = 2
  Twins = {"go", "python"}
  MaxFaults = 3
INVARIANTS
  NothingSkipped
PROPERTIES
  PublishedInOrder
  EventuallyPublished
CHECK_DEADLOCK FALSE
