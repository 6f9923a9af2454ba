CONSTANTS
  Files = {f1, f2}
  Requests = {r1, r2}
  NoRequest = NoRequest
  Tickets = {t1, t2}
  NoTicket = NoTicket
  Holders = {h1, h2}
  Profiles <- GrantProfiles
  MaxDownloads = 1
  MaxActive = 2
  Pushes = {r1, r2}
  NoPush = NoPush
  Entries = {f1, f2}
  Sweeper = Sweeper
  DropStep = DropStep
  MaxPushBoots = 1
  PushFaults = {"issue", "checkpoint", "forget", "sweep", "clear"}
  Tabs = {r1, r2}
  NoTab = NoTab
  SameUpload = SameUpload
  Total = 3
  MaxStageFaults = 2
  Cases <- UploadCases
  Calls = {r1, r2}
  NoCall = NoCall
  Pages <- SharePages
  Paths = {f1, f2}
  GrantPermits = 1
  MaxShareEvents = 3
SPECIFICATION OutboundSpec
INVARIANTS WithdrawnStops DownloadLimitHolds PushHolds LibraryHolds SharesHold
CHECK_DEADLOCK FALSE
SYMMETRY OutboundSymmetry
