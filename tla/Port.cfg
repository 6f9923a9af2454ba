CONSTANTS
  large = large
  small = small
  empty = empty
  Files = {large, empty}
  Length <- TwoFiles
  Earlier = {}
  Faults = {"save", "forget", "append", "power", "delete", "clean", "discard"}
  LinkEvents = {"expire", "remove"}
  Patient = TRUE
  MaxCrashes = 2
  Devices = {p1}
  Sends = {n1, n2}
  MaxEvents = 2
  MaxHookRev = 2
  MaxDestRev = 2
  AttemptLimit = 2
  QueueBatch = 1
  MaxReplays = 1
  MaxWorkerBoots = 1
  Calls = {c1}
  Serial = TRUE
  MaxCred = 3
  MaxLosses = 2
  MaxEdits = 2
  Uploads = {u1, u2}
  NoUpload = NoUpload
  MaxTries = 2
  MaxChanges = 1
SPECIFICATION PortSpec
INVARIANTS TypeOK EventsHold CredentialsHold DeliveredOnce RoutesHold
PROPERTIES UploadCompletes PortSettles
CHECK_DEADLOCK FALSE
