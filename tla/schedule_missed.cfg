SPECIFICATION Spec
CONSTANTS
  c1 = c1
  c2 = c2
  Clients = {c1}
  FireTimes = {1}
  MissedGrace = 1
  Horizon = 2
  RetryEvery = 1
  MaxEntries = 1
  MaxClock = 2
  MaxStops = 1
  MaxFailures = 0
INVARIANTS
  KeptIsFired
