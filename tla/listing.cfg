SPECIFICATION Spec
CONSTANTS
  Screens = {"shop", "history", "orders", "products"}
  Searches = {"", "x"}
  Filters = {"all", "some"}
  Pages <- MCPages
  MaxCalls = 2
INVARIANTS
  SettledShowsQuery
  OwnChangeIsSeen
  PastEndExplained
CHECK_DEADLOCK FALSE
