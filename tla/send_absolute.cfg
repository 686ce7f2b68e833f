SPECIFICATION ToolSpec
CONSTANTS
  Callers = {1, 2}
  Deliveries <- MCDeliveries
  Requests <- AbsoluteRequests
  RateBurst = 1
  RatePerSeconds = 1
  FloorSeconds = 1
  DraftTTL = 2
  DraftCap = 2
  MaxDrafts = 3
  MaxClock = 2
  Horizon = 2
INVARIANTS
  IdenticalCallCommits
  DraftsAccounted
PROPERTIES
  DraftLeavesForAReason
