SPECIFICATION FairSpec
CONSTANTS
  e1 = e1
  e2 = e2
  r1 = r1
  r2 = r2
  c1 = c1
  c2 = c2
  p1 = p1
  Events <- OneEvent
  Relays <- MCRelays
  Consumers <- OneConsumer
  Processes <- MCProcesses
  Home <- OneHome
  Batch = 1
  FaultKinds = {"crash"}
  MaxFaults = 1
PROPERTIES
  CommittedIsNeverLost
CHECK_DEADLOCK FALSE
