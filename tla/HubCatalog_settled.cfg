SPECIFICATION CatalogSpec
CONSTANTS
  a = a
  Proxies = {p1, p2}
  Ids = {a}
  IdOf <- MCIdOf
  None = None
  Closers = {}
  Infos = {x, y}
  FirstInfo = x
  Reported = {y}
SYMMETRY Symmetry
INVARIANTS ListedIsCurrent SoleIsListed
CHECK_DEADLOCK FALSE
