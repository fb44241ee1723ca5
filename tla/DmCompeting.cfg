SPECIFICATION Spec
CONSTANTS
  d1 = d1
  d2 = d2
  m1 = m1
  p1 = p1
  i1 = i1
  i2 = i2
  kb = kb
  None = None
  Msg = {d1, d2}
  Dms = {d1, d2}
  Cid = {i1, i2}
  CidOf <- Ids
  Key = {kb}
  KeyOf <- Buckets
  BareKey <- Bare
  Cooldown <- Windows
  SweepAge = 2
  SweepEvery = 1
  MailboxTtl = 1
  LongRunning = {i2}
  Posted = {}
  FlushMayFail = FALSE
  MaxTime = 3
INVARIANTS
  OneTurnAtATime
CHECK_DEADLOCK FALSE
