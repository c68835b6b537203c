SPECIFICATION FairSpec
CONSTANTS
  Ids = {a}
  Infos = {}
  None = None
  Streams = {s1}
  Requests = {r1}
  Publishers = {p1}
  Closers = {k1}
  Buffer = 1
PROPERTIES CallersReturn CancelReachesReader CloseEndsEveryStream
CHECK_DEADLOCK FALSE
