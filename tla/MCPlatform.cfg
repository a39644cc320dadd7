SPECIFICATION Spec
CONSTANTS
  Components = {"tin_graph", "consent", "breach", "step_up", "evidence", "rule_packs", "notification", "documents", "sessions", "console", "real_client", "thresholds", "keys", "matching", "migration"}
  tinGraph <- TinGraphOf
  consent <- ConsentOf
  breach <- BreachOf
  stepUp <- StepUpOf
  evidence <- EvidenceOf
  rulePacks <- RulePacksOf
  notification <- NotificationOf
  documents <- DocumentsOf
  sessions <- SessionsOf
  console <- ConsoleOf
  realClient <- RealClientOf
  thresholds <- ThresholdsOf
  keyCache <- KeyCacheOf
  matching <- MatchingOf
  migration <- MigrationOf
  p1 = p1
  p2 = p2
  p3 = p3
SYMMETRY Symmetry
INVARIANTS
  OneEntityPerTIN
  NoMergeCycle
  MergesAreWhole
  WithdrawalHolds
  ErasureIsAccounted
  SingleUse
  EvidenceStands
  NewestIsFound
  SendingIsAccounted
  SessionsFollowUsers
  NoAuditLost
  OneOutcomeToldOnce
  SplitIsFlagged
  KeysFollowRealm
  DecidesByReference
  AllOrNothing
  ReferencesResolve
  VerdictIsJust
PROPERTIES
  NotificationIsKept
  PublishedIsFrozen
  WritesAreKept
CHECK_DEADLOCK FALSE
