SPECIFICATION FairSpec
CONSTANTS
  None = None
  Tenant = {t1, t2}
  Submitter = {s1}
  Scheduler = {c1}
  Runner = {r1}
  MaxGlobal = 1
  MaxQueue = 2
  MaxTickets = 3
  Limits = {1, 2}
  Priorities = {1}
  RateLimit = 2
  Scale = 2
  UsizeValues = 16
INVARIANTS TypeOK TicketsAccounted OvershootBounded
PROPERTY ReturnsUnlessCrossed
CHECK_DEADLOCK FALSE
