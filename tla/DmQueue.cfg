SPECIFICATION Spec
CONSTANTS
  d1 = d1
  d2 = d2
  m1 = m1
  p1 = p1
  i1 = i1
  i2 = i2
  kb = kb
  None = None
  Msg = {d1, d2, m1, p1}
  Dms = {d1, d2}
  Cid = {i1}
  CidOf <- Ids
  Key = {kb}
  KeyOf <- Buckets
  BareKey <- Bare
  Cooldown <- Windows
  SweepAge = 2
  SweepEvery = 1
  MailboxTtl = 1
  LongRunning = {i1}
  Posted = {p1}
  FlushMayFail = TRUE
  MaxTime = 2
INVARIANTS
  TypeOK
  ActiveMeansRunning
  QueuedBehindExecution
  EachDmInOnePlace
PROPERTIES
  CooldownRespected
  EveryMessageSettles
CHECK_DEADLOCK FALSE
