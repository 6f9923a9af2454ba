CONSTANTS
  Jobs = {j1}
  NoJob = NoJob
  Uploads = {u1}
  NoUpload = NoUpload
  d1 = d1
  d2 = d2
  Destinations = {d1, d2}
  Slots = {w1, w2}
  MaxRevision = 2
  Policy <- GuardedThenBare
  ClaimCap = 1
  RetryLimit = 2
  ActiveLimit = 2
  Sizes = {1}
  Budget = 1
  Revocable = {j1}
  MaxAttempts = 3
  MaxBoots = 3
  Ports = {a, b}
  NoPort = NoPort
  MaxStorageFaults = 2
SPECIFICATION LiveSpec
INVARIANTS ReadyIsDelivered NoStrandedJob OwnershipHolds
PROPERTIES WithdrawnIsFinal JobsSettle OwnershipReturns
CHECK_DEADLOCK FALSE
