SPECIFICATION FairSpec
CONSTANTS
  Exec = {e1, e2}
  Kinds = {"run", "call"}
  Workers = 2
  WallTime = 7
  Interval = 3
  TickMs = 2
  MayShutdown = TRUE
  MaxOwed = 3
INVARIANTS TypeOK NoEarlyTimeout
PROPERTY TimeoutEnforced
