SPECIFICATION FairSpec
CONSTANTS
  MaxUnits = 2
INVARIANTS DrainsInTime
PROPERTIES BridgeReturns
CHECK_DEADLOCK FALSE
