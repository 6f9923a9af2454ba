CONSTANTS
  Ids = {s1}
  Links = {l2}
  Tenants = {}
  Default = Default
  tenantLink = l1
  TenantOf <- MCTenantOf
  Sizes = {1}
  MaxTotal = 2
  MaxSessions = 2
  MaxLinkSessions = 2
  MaxTenantSessions = 2
  FinishedCap = 1
  Attempts = {a1, a2}
  MaxCommands = 1
  MaxOutbound = 0
SPECIFICATION FairSpec
CHECK_DEADLOCK FALSE
INVARIANTS LeasesCounted
PROPERTIES ShutdownSettles OrphanWorkerEnds
