SPECIFICATION Spec
CONSTANTS
  Callers = {1, 2}
  RateBurst = 2
  RatePerSeconds = 1
  FloorSeconds = 2
  MaxClock = 5
INVARIANTS
  FloorHolds
