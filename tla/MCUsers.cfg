SPECIFICATION Spec
CONSTANTS
  t1 = t1
  t2 = t2
  Txn = {t1, t2}
  u1 = u1
  u2 = u2
  User = {u1, u2}
  s1 = s1
  s2 = s2
  Slot = {s1, s2}
  MaxReceipt = 2
  MaxVerifyCount = 1
  MaxTimers = 2
  NoUser = NoUser
  NoTask = NoTask
  NoRequest = NoRequest
  Disturbances = {"crash", "logout", "foreground", "hide"}
SYMMETRY Symmetry
INVARIANT NoPurchaseLost
INVARIANT DeliveredIsPersisted
INVARIANT FlaggedWasJudged
PROPERTY ImplementsLedger
