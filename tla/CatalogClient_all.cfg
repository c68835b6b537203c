SPECIFICATION FairSpec
CONSTANTS
  Ids = {a}
  Infos = {x, y}
  None = None
  EventsCap = 2
  WireCap = 1
INVARIANTS ViewIsCurrent NoNilEvent
PROPERTIES CatalogCloseReturns
CHECK_DEADLOCK FALSE
