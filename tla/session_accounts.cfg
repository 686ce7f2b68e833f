SPECIFICATION Spec
CHECK_DEADLOCK FALSE
CONSTANTS
  n1 = n1
  n2 = n2
  pending = pending
  Numbers = {n1, n2}
  Pending = pending
  MaxPairings = 2
  MaxClients = 3
  MaxUnlinks = 1
  MaxTroubles = 1
SYMMETRY Symmetry
INVARIANTS SchedulesKeepTheirAccount
