SPECIFICATION Spec
CONSTANTS
  t1 = t1
  Txn = {t1}
  u1 = u1
  User = {u1}
  s1 = s1
  s2 = s2
  Slot = {s1, s2}
  MaxReceipt = 1
  MaxVerifyCount = 1
  MaxTimers = 2
  NoUser = NoUser
  NoTask = NoTask
  NoRequest = NoRequest
  Disturbances = {}
SYMMETRY Symmetry
CHECK_DEADLOCK FALSE
INVARIANT CurrentTaskWillFinish
