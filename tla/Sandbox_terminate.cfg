SPECIFICATION Spec
CONSTANTS
  Exec = {e1, e2}
  MaxResets = 1
  MaxTicks = 1
  Limited = TRUE
  QuotaMax = 2
  Burst = 2
  Rate = 1
  HasFuel = FALSE
  HasWallTime = TRUE
INVARIANT TerminateNeverRefuses
CHECK_DEADLOCK FALSE
