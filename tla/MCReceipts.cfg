SPECIFICATION Spec
CONSTANTS
  t1 = t1
  t2 = t2
  Txn = {t1, t2}
  u1 = u1
  User = {u1}
  s1 = s1
  s2 = s2
  Slot = {s1, s2}
  MaxReceipt = 2
  MaxVerifyCount = 1
  MaxTimers = 2
  NoUser = NoUser
  NoTask = NoTask
  NoRequest = NoRequest
  Disturbances = {"crash", "products", "network", "noreceipt", "drop", "clear"}
SYMMETRY Symmetry
INVARIANT TypeOK
INVARIANT UploadCoversTransaction
INVARIANT OneModelPerTransaction
 
PROPERTY ModelsLeaveWithVerdict
