CONSTANTS
  large = large
  small = small
  empty = empty
  Files = {large, empty}
  Length <- TwoFiles
  Earlier = {empty}
  Faults = {"insert", "save", "append", "location", "taken", "forget", "resume", "lease", "power", "clean", "discard"}
  LinkEvents = {"close", "expire", "remove"}
  Patient = FALSE
  MaxCrashes = 2
  Receipts = {u1, u2}
  NoReceipt = NoReceipt
  Paths = {x1, x2}
  NoPath = NoPath
  Days = 1
  MaxTime = 4
  MaxReboots = 2
  MaxBehind = 1
  Scopes <- RetentionScopes
  RetentionFaults = {"flag", "unlink"}
  Db = Db
  Required = {receiptKey}
  Optional = {certificate}
  Wal = Wal
  Secret = Secret
  MaxStages = 2
  MaxOutages = 2
  RestoreFaults = {"extract", "sync", "sweep"}
SPECIFICATION StoredSpec
INVARIANTS PublishedIsWhole Recoverable NoOrphan RetentionHolds RestoreHolds
PROPERTY Delivers
CHECK_DEADLOCK FALSE
SYMMETRY StoredSymmetry
