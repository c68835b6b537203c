SPECIFICATION FairSpec
CONSTANTS
  Units = 3
INVARIANTS LossBound
PROPERTIES SpliceEnds
CHECK_DEADLOCK FALSE
