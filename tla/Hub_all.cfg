SPECIFICATION FairSpec
CONSTANTS
  a = a
  Proxies = {p1, p2}
  Ids = {a}
  IdOf <- MCIdOf
  None = None
  Closers = {k1}
INVARIANTS SoleOpenPerID RemovedOnce NoneLeftOpen ErrorMeansTeardown
PROPERTIES LosesEntryForCause DeadNodeIsReplaced JoinAnswered OverIsUnregistered CloseReturns
CHECK_DEADLOCK FALSE
