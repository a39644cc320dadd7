SPECIFICATION FairSpec
CONSTANTS
  e1 = e1
  e2 = e2
  r1 = r1
  r2 = r2
  c1 = c1
  c2 = c2
  p1 = p1
  Events <- MCEvents
  Relays <- MCRelays
  Consumers <- MCConsumers
  Processes <- MCProcesses
  Home <- MCHome
  Batch = 2
  FaultKinds = {"rollback", "read", "publish", "unclaim", "crash", "commit", "store", "handler", "rebalance", "fetch", "reclaim"}
  MaxFaults = 2
INVARIANTS
  PublishedAsCommitted
  DeliveryInv
PROPERTIES
  EventuallyDelivered
CHECK_DEADLOCK FALSE
