SPECIFICATION Spec
CONSTANTS
  c1 = c1 c2 = c2 m1 = m1 m2 = m2 t1 = t1 t2 = t2 t3 = t3
  None = None
  Context = {c1}
  Message = {m1, m2}
  Kind <- KindCancel
  Thread = {t1, t2, t3}
  MaxCalls = 2
  MaxObjects = 6
  Ttl = 1
  MaxSessions = 1
  MaxTime = 0
  AdminOps = FALSE
SYMMETRY ThreadSymmetry
INVARIANTS OneOpenSession OneWorkerPerContext OneAnswerPerMessage TombstonesAreSafe
PROPERTY NoToolReplayAfterClose
CHECK_DEADLOCK FALSE
