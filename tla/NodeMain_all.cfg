SPECIFICATION FairSpec
CONSTANTS
  MaxConns = 1
  MaxConfig = 2
  InitialDelay = 1
  MaxDelay = 3
INVARIANTS WhitelistReaches
PROPERTIES StopsOnlyWhenAsked BackoffJustified InterruptStops Reconnects
CHECK_DEADLOCK FALSE
