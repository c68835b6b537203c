SPECIFICATION CatalogSpec
CONSTANTS
  a = a
  Proxies = {p1, p2}
  Ids = {a}
  IdOf <- MCIdOf
  None = None
  Closers = {}
  Infos = {x, y}
  FirstInfo = x
  Reported = {y}
SYMMETRY Symmetry
INVARIANTS AvailableIsListed
CHECK_DEADLOCK FALSE
