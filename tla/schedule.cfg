SPECIFICATION FairSpec
CONSTANTS
  c1 = c1
  c2 = c2
  Clients = {c1}
  FireTimes = {1, 2}
  MissedGrace = 1
  Horizon = 2
  RetryEvery = 1
  MaxEntries = 2
  MaxClock = 3
  MaxStops = 1
  MaxFailures = 1
INVARIANTS
  OncePerRun
  CancelIsDurable
  AckedSurvives
PROPERTIES
  NeverEarly
  LateOnlyIfRunning
  AckedIsSettled
