CONSTANTS
  Jobs = {j1, j2}
  NoJob = NoJob
  Uploads = {u1}
  NoUpload = NoUpload
  d1 = d1
  d2 = d2
  Destinations = {d1}
  Slots = {w1, w2}
  MaxRevision = 2
  Policy <- OpenThenGuarded
  ClaimCap = 1
  RetryLimit = 2
  ActiveLimit = 2
  Sizes = {1}
  Budget = 1
  Revocable = {}
  MaxAttempts = 2
  MaxBoots = 1
  Takers = {w1, w2}
  Deliveries = {j1, j2}
  NoDelivery = NoDelivery
  Bad = Bad
  Blocks = 2
  Nodes = 8
  MaxTakes = 2
  MaxMishaps = 2
  Subjects = {p1}
  Local = Local
  SignIns = {w1, w2}
  Visits = {j1, j2}
  TokenCap = 1
  MaxRevocations = 2
  MaxIncarnations = 2
  MaxPasswords = 2
  MaxTokens = 2
  Topics <- AccountTopics
SPECIFICATION DeliverySpec
INVARIANTS TypeOK NothingUnapproved TenantCapHolds OneDeliveryPerUpload SnapshotsAccounted FetchHolds AccountsHold
CHECK_DEADLOCK FALSE
SYMMETRY DeliverySymmetry
