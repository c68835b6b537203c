SPECIFICATION Spec
CONSTANTS
  Ids = {a, b}
  Infos = {x}
  None = None
  Streams = {s1}
  Requests = {}
  Publishers = {p1}
  Closers = {k1, k2}
  Buffer = 2
SYMMETRY Symmetry
INVARIANTS NoLostUpdate NoPanic ServedOrClosed CloseOrder
CHECK_DEADLOCK FALSE
