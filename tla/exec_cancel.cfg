SPECIFICATION FairSpec
CONSTANTS
  c1 = c1 r1 = r1 r2 = r2 r3 = r3 k1 = k1 k2 = k2
  None = None
  Request = {r1, r2, r3}
  Cancel = {k1, k2}
  Context = {c1}
  Ctx <- CtxOnce
  Ttl = 2
  MaxTime = 3
INVARIANTS TypeOK SerialEmission CancelLinearizes
PROPERTY EveryCallReturns
CHECK_DEADLOCK FALSE
