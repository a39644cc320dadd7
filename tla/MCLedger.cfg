SPECIFICATION Spec
CONSTANTS
  t1 = t1
  t2 = t2
  t3 = t3
  none = none
  AccountIDs <- MCAccounts2
  TransferIDs <- MCTransferIDs
  NoID = none
  Ledgers = {1}
  Codes = {1}
  FlagSets <- MCFlagSets
  Amounts = {0, 1, 2}
  Timeouts = {0, 1}
  U64Mod = 16
  MaxSerial = 2
  MaxClock = 1
SYMMETRY TransferSymmetry
INVARIANTS
  BooksBalance
  CapturedAtMostOnce
PROPERTIES
  Finality
  ImplementsTwoPhase
CHECK_DEADLOCK FALSE
