SPECIFICATION Spec
CONSTANTS
  n1 = n1
  n2 = n2
  n3 = n3
  Node = {n1, n2, n3}
  Candidates = {n1, n2}
  MaxTerm = 2
  MaxLog = 1
  Reconfigured <- ForgetsBoth
  None = None
INVARIANTS VotesOncePerTerm FullQuorumsAgree
CHECK_DEADLOCK FALSE
