SPECIFICATION FairSpec
CONSTANTS
  c1 = c1
  c2 = c2
  Callers = {c1, c2}
  Deliveries <- MCDeliveries
  RateBurst = 2
  RatePerSeconds = 0
  FloorSeconds = 1
  DraftTTL = 1
  DraftCap = 1
  MaxDrafts = 2
  MaxClock = 1
INVARIANTS
  AtMostOnce
  ConfirmedContent
  DiscardIsFinal
  BlockNeverUnconfirmed
PROPERTIES
  PaidDelivery
  ImplementsConfirmation
  NeverBlocks
