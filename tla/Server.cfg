SPECIFICATION FairSpec
CONSTANTS
  i1 = i1
  i2 = i2
  s1 = s1
  None = None
  Req = {r1, r2, r3, r4}
  Id = {i1, i2}
  Shard <- OneShard
  ShardOf <- AllInOne
  Workers = 2
  MaxSandboxes = 1
INVARIANTS TypeOK PermitsConserved ReachableIsTracked OneGuestPerSandbox
PROPERTY RequestsAnswered
CHECK_DEADLOCK FALSE
