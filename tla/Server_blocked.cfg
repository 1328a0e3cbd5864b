SPECIFICATION Spec
CONSTANTS
  i1 = i1
  i2 = i2
  s1 = s1
  None = None
  Req = {r1, r2, r3, r4, r5}
  Id = {i1, i2}
  Shard <- OneShard
  ShardOf <- AllInOne
  Workers = 2
  MaxSandboxes = 1
SYMMETRY ReqSymmetry
INVARIANT NeverStarved
CHECK_DEADLOCK FALSE
