SPECIFICATION Spec
CONSTANTS
  c1 = c1 r1 = r1 r2 = r2 r3 = r3 k1 = k1 k2 = k2
  None = None
  Request = {r1, r2}
  Cancel = {k1, k2}
  Context = {c1}
  Ctx <- CtxTwice
  Ttl = 1
  MaxTime = 2
INVARIANT CancelLinearizes
CHECK_DEADLOCK FALSE
