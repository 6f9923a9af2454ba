CONSTANTS
  Ids = {s1, s2}
  Links = {l1}
  Tenants = {t1}
  Default = Default
  tenantLink = l1
  TenantOf <- MCTenantOf
  Sizes = {1, 2}
  MaxTotal = 2
  MaxSessions = 2
  MaxLinkSessions = 2
  MaxTenantSessions = 2
  FinishedCap = 1
  Attempts = {}
  MaxCommands = 1
  MaxOutbound = 1
  Runners = {r1, r2}
  NoRunner = NoRunner
  Processes = {app, cli}
  Paths = {p1}
  NoPath = NoPath
  Entries = {s1, s2}
  NoEntry = NoEntry
  HttpSessions = {h1, h2}
  NoSession = NoSession
  MaxVersion = 2
  Budgets <- SenderBudgets
SPECIFICATION UploadSpec
CHECK_DEADLOCK FALSE
SYMMETRY UploadSymmetry
INVARIANTS TypeOK SenderHolds DeletionsAlone AdmissionsBounded NothingAfterCheckpoint
