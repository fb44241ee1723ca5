SPECIFICATION Spec
CONSTANTS
  c1 = c1
  c2 = c2
  i1 = i1
  i2 = i2
  a1 = a1
  a2 = a2
  s1 = s1
  s2 = s2
  None = None
  Call = {c1}
  Cid = {i1}
  CidOf <- Alone
  Agent = {a1}
  AgentOf <- OneHome
  Targeted = {c1}
  Serves <- OwnSkill
  Sweepers = {s1}
  PollInterval = 1
  MaxTracking = 1
  Grace = 1
  MaxTime = 4
  MaxRestarts = 1
  MaxPosts = 1
INVARIANTS
  DeltasPublishedOnce
