SPECIFICATION Spec
CONSTANTS
  None = None
  Thread = {p1, p2}
  Name = {n1, n2}
  MaxChannels = 1
  Capacities = {0}
  DefaultCapacity = 2
  AllowDynamic = TRUE
  Senders = {p1}
  Receivers = {p2}
  MaxCreated = 2
  MaxMessages = 3
SYMMETRY NameSymmetry
INVARIANTS TypeOK StatsAddUp HubBounded
PROPERTY ImplementsFifo
CHECK_DEADLOCK FALSE
