SPECIFICATION FairSpec
CONSTANTS
  k1 = k1
  k2 = k2
  Closers <- MCClosers
  ErrOf <- MCErrOf
  Exit = Exit
  Conns = {c1, c2}
INVARIANTS NoDoubleClose RefusalHasError DrainedBeforeClose
PROPERTIES ImplementsLife SessionEndNoticed CloseTerminates QueueConnReturns
CHECK_DEADLOCK FALSE
