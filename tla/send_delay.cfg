SPECIFICATION ToolSpec
CONSTANTS
  Callers = {1, 2}
  Deliveries <- MCDeliveries
  Requests <- DelayRequests
  RateBurst = 1
  RatePerSeconds = 1
  FloorSeconds = 1
  DraftTTL = 2
  DraftCap = 2
  MaxDrafts = 2
  MaxClock = 2
  Horizon = 2
INVARIANTS
  IdenticalCallCommits
