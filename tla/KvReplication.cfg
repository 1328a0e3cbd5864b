SPECIFICATION ReplicaSpec
CONSTANTS
  Site = {1, 2}
  Element = {a, b}
  MaxTime = 2
  MaxUpdates = 3
  MaxNet = 2
INVARIANTS ReplicaTypeOK SetReflectsSeen CounterReflectsSeen ClockIsCausal LastWriterWins
