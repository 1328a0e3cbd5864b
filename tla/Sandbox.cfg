SPECIFICATION FairSpec
CONSTANTS
  Exec = {e1, e2, e3}
  MaxResets = 2
  MaxTicks = 1
  Limited = TRUE
  QuotaMax = 2
  Burst = 2
  Rate = 1
  HasFuel = FALSE
  HasWallTime = TRUE
INVARIANTS TypeOK NoSharedMeter InstanceIsCurrent QuotaKept RunsAccounted
PROPERTIES RunReturns StreamsConclude
CHECK_DEADLOCK FALSE
