SPECIFICATION Spec
CHECK_DEADLOCK FALSE
CONSTANTS
  Req = {"r1", "r2"}
  Tenant = {"old", "new"}
  Bundled = "old"
  Content <- Contents
  Newest = 2
  FeedTTL = 2
  RiskTTL = 2
  Asked <- Clients
  MaxPolls = 2
  MaxNow = 2
  MaxEdits = 1
  MaxFaults = 1
  MaxPages = 3
INVARIANTS
  OldTenantFades
  CalmNeedsIncidents
  FreshIsRecent
