SPECIFICATION ClientsSpec
CONSTANTS
  DefaultLimit = 2
  MaxLimit = 3
  PageSize = 2
  GlobalCooldown = 1
  ChatCooldown = 2
  Events <- MCEvents
  Watched <- MCWatched
  Chosen <- MCChosen
  Scopes <- MCScopes
  Recipients <- ByNumber
  Users = {1}
  Readers = {"none", "poller", "pane", "fetcher", "button", "sender"}
  MaxEvents = 3
  MaxStops = 1
  MaxLooks = 3
  MaxNow = 2
  MaxCalls = 1
CHECK_DEADLOCK FALSE
INVARIANTS
  ChatCoversItsMessages
  SweepsAreConfined
  QuietChatsAreListed
  PollSkipsOnlyMoved
  HonestBackfill
  HistoryIsSpaced
  PaneShowsItsChat
  MarkedHasReceipt
PROPERTIES
  FoldSettles
  NothingIsForgotten
  PeopleKeepTheirNames
  PollRepeatsOnlyMoved
