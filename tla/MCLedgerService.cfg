SPECIFICATION FairSpec
CONSTANTS
  m1 = m1
  h1 = h1
  Movements <- MCMovements
  Handlers <- MCHandlers
  Sweeper = sweeper
  MaxLives = 2
  MaxFaults = 1
INVARIANTS
  NoLostChange
  OneEventPerChange
PROPERTIES
  EventuallyOut
CHECK_DEADLOCK FALSE
