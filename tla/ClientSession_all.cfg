SPECIFICATION FairSpec
CONSTANTS
  MaxStreams = 2
PROPERTIES LossIsReported TransportCloses SessionReturns
CHECK_DEADLOCK FALSE
