SPECIFICATION OrdersRecoverSpec
CONSTANTS
  t1 = t1
  t2 = t2
  Txn = {t1, t2}
  u1 = u1
  User = {u1}
  s1 = s1
  s2 = s2
  Slot = {s1, s2}
  MaxReceipt = 2
  MaxVerifyCount = 2
  MaxTimers = 2
  NoUser = NoUser
  NoTask = NoTask
  NoRequest = NoRequest
  Disturbances = {"network"}
PROPERTY EveryModelGetsATurn
