SPECIFICATION Spec
CONSTANTS
  None = None
  Thread = {p1, p2}
  Tenant = {n1}
  Sizes = {1, 2}
  MaxMemory = 1
  Quotas = {0, 1}
  MaxRate = 2
  MaxTotalMemory = 3
  MaxTotal = 2
  MaxTenants = 1
  AllowUnknown = TRUE
  MaxStates = 2
  MaxAcquires = 3
INVARIANTS TypeOK UsageSettles OvercommitBounded
CHECK_DEADLOCK FALSE
