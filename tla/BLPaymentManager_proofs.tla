---------------------- MODULE BLPaymentManager_proofs ----------------------
(***************************************************************************)
(* Theorems about the in-app purchase client, for any number of users,     *)
(* transactions, receipts and outstanding requests, and for every choice   *)
(* of Disturbances.                                                        *)
(***************************************************************************)
EXTENDS BLPaymentManager, BLPaymentVerifyManager_proofs

-----------------------------------------------------------------------------
(* Type correctness *)

LEMMA VMTypeParts ==
  VMTypeOK <=> /\ userid \in User \cup {NoUser}
               /\ keychain \in Keychain
               /\ receipt \in Receipt
               /\ reach \in ReachabilityStatus
               /\ TasksTypeOK
  BY DEF VMTypeOK, TasksTypeOK, Keychain, MaybeTask, Requests

\* The part of the state that is StoreKit's and the App Store's.
StoreTypeOK ==
  /\ sk \in [Txn -> StoreKitState]
  /\ undelivered \in SUBSET Txn
  /\ paidAt \in [Txn -> Receipt]
  /\ device \in Receipt
  /\ skRequests \in SUBSET {"products", "receipt"}
  /\ judged \in SUBSET Txn
  /\ cleared \in SUBSET Txn

LEMMA FinishedType ==
  ASSUME sk \in [Txn -> StoreKitState], NEW F
  PROVE  /\ Finished(F) \in [Txn -> StoreKitState]
         /\ \A t \in Txn : \/ Finished(F)[t] = sk[t]
                           \/ t \in F /\ sk[t] = "purchased" /\ Finished(F)[t] = "finished"
                           \/ t \in F /\ sk[t] = "failed" /\ Finished(F)[t] = "none"
  BY DEF Finished, StoreKitState

LEMMA SavedType ==
  ASSUME keychain \in Keychain, NEW u \in User, NEW T \in SUBSET Txn
  PROVE  /\ Saved(u, T) \in Keychain
         /\ {NewModel(t) : t \in Fresh(u, T)} \in SUBSET Model
  BY NewModelType, SaveModelsResult DEF Saved, Fresh

LEMMA AppendType ==
  ASSUME TypeOK, NEW u \in User, NEW T \in SUBSET Txn, NEW rc \in Receipt,
         NEW q \in SUBSET Txn, Append(u, T, rc, q)
  PROVE  TasksTypeOK'
  <1>1. TasksTypeOK /\ keychain \in Keychain
    BY VMTypeParts DEF TypeOK
  <1>2. CASE Fresh(u, T) = {} \/ current # NoTask
    BY <1>1, <1>2 DEF Append, TasksTypeOK
  <1>3. CASE ~(Fresh(u, T) = {} \/ current # NoTask)
    <2>1. PICK t \in Fresh(u, T) :
            StartVerifying(u,
              IF rc # NoReceipt /\ reach' = "Reachable" THEN Saved(u, {t})
                                                       ELSE Saved(u, T),
              rc, NoTask, requests)
      BY <1>3 DEF Append
    <2>2. {t} \in SUBSET Txn
      BY DEF Fresh
    <2>3. Saved(u, {t}) \in Keychain /\ Saved(u, T) \in Keychain
      BY <1>1, <2>2, SavedType
    <2>4. requests \in Requests /\ NoTask \in MaybeTask
      BY <1>1 DEF TasksTypeOK, MaybeTask
    <2>5. CASE rc # NoReceipt /\ reach' = "Reachable"
      BY <1>1, <2>1, <2>3, <2>4, <2>5, StartVerifyingType
    <2>6. CASE ~(rc # NoReceipt /\ reach' = "Reachable")
      BY <1>1, <2>1, <2>3, <2>4, <2>6, StartVerifyingType
    <2> QED
      BY <2>5, <2>6
  <1> QED
    BY <1>2, <1>3

LEMMA CheckUnfinishedType ==
  ASSUME TypeOK, NEW u \in User, NEW rc \in Receipt, NEW q \in SUBSET Txn,
         CheckUnfinished(u, rc, q)
  PROVE  /\ keychain' \in Keychain
         /\ sk' \in [Txn -> StoreKitState]
         /\ TasksTypeOK'
  <1> USE DEF TypeOK
  <1>1. keychain \in Keychain
    BY VMTypeParts
  <1>2. PICK listed \in Listings :
          LET marked == {t \in listed : sk[t] = "purchased" /\ FlaggedValid(keychain, u, t)}
              unpaid(T) == {t \in T : sk[t] = "failed"}
          IN \/ /\ marked = {}
                /\ keychain' = Saved(u, listed)
                /\ sk' = Finished(unpaid(listed))
                /\ Append(u, listed, rc, q)
             \/ \E t \in marked, seen \in SUBSET (listed \ marked) :
                  /\ keychain' = DeleteModel(Saved(u, seen), u, t)
                  /\ sk' = Finished(unpaid(seen) \cup {t})
                  /\ Append(u, seen, rc, q)
    BY DEF CheckUnfinished
  <1>3. listed \in SUBSET Txn
    BY DEF Listings, Unfinished
  <1>4. CASE /\ keychain' = Saved(u, listed)
             /\ sk' = Finished({t \in listed : sk[t] = "failed"})
             /\ Append(u, listed, rc, q)
    BY <1>1, <1>3, <1>4, SavedType, FinishedType, AppendType
  <1>5. ASSUME NEW t \in listed, NEW seen \in SUBSET listed,
               keychain' = DeleteModel(Saved(u, seen), u, t),
               sk' = Finished({x \in seen : sk[x] = "failed"} \cup {t}),
               Append(u, seen, rc, q)
        PROVE  /\ keychain' \in Keychain
               /\ sk' \in [Txn -> StoreKitState]
               /\ TasksTypeOK'
    BY <1>1, <1>3, <1>5, SavedType, FinishedType, AppendType, DeleteModelResult
  <1> QED
    BY <1>2, <1>4, <1>5

\* What the verify manager's variables are when it is gone.
LEMMA GoneType ==
  ASSUME VerifyManagerGone
  PROVE  /\ userid' = NoUser /\ receipt' \in Receipt
         /\ reach' \in ReachabilityStatus /\ TasksTypeOK'
  BY ReceiptFact, MaxTimersAssumption
     DEF VerifyManagerGone, TasksTypeOK, MaybeTask, Requests, ReachabilityStatus

\* TypeOK is not inductive: an answer would be looked up in the keychain of
\* no user.  What rules it out: without a verify manager nothing is pending.
LoggedOutIsQuiet ==
  userid = NoUser => timers = 0 /\ \A s \in Slot : requests[s] = NoRequest

TypeInv == TypeOK /\ LoggedOutIsQuiet

LEMMA TypeInitially == Init => TypeInv
  <1> SUFFICES ASSUME Init PROVE TypeInv
    OBVIOUS
  <1>1. keychain \in Keychain
    BY EmptyResult DEF Init, VMInit, ItemRemoved, Keychain
  <1>2. TasksTypeOK
    BY MaxTimersAssumption DEF Init, VMInit, TasksTypeOK, MaybeTask, Requests
  <1>3. VMTypeOK
    BY <1>1, <1>2, ReceiptFact, VMTypeParts DEF Init, VMInit, ReachabilityStatus
  <1>4. TypeOK
    BY <1>3, ReceiptFact DEF Init, TypeOK, StoreKitState
  <1> QED
    BY <1>4 DEF TypeInv, LoggedOutIsQuiet, Init, VMInit

\* One step per action: the verify manager's part, then StoreKit's.
LEMMA TypeStep == TypeInv /\ [Next]_vars => TypeOK'
  <1> SUFFICES ASSUME TypeInv, [Next]_vars PROVE TypeOK'
    OBVIOUS
  <1> DEFINE VMParts == /\ userid' \in User \cup {NoUser}
                        /\ keychain' \in Keychain
                        /\ receipt' \in Receipt
                        /\ reach' \in ReachabilityStatus
                        /\ TasksTypeOK'
  <1>a. /\ userid \in User \cup {NoUser}
        /\ keychain \in Keychain
        /\ receipt \in Receipt
        /\ reach \in ReachabilityStatus
        /\ TasksTypeOK
    BY VMTypeParts DEF TypeInv, TypeOK
  <1>b. StoreTypeOK
    BY DEF TypeInv, TypeOK, StoreTypeOK
  <1>c. ASSUME VMParts, StoreTypeOK' PROVE TypeOK'
    BY <1>c DEF TypeOK, StoreTypeOK, VMTypeOK, TasksTypeOK, Keychain, MaybeTask, Requests
  <1>d. ASSUME UNCHANGED vmVars PROVE VMParts
    BY <1>a, <1>d DEF vmVars, TasksTypeOK
  <1>e. ASSUME VerifyManagerAlone PROVE StoreTypeOK'
    BY <1>b, <1>e DEF VerifyManagerAlone, StoreTypeOK
  <1>f. requests \in Requests /\ current \in MaybeTask /\ NoTask \in MaybeTask
    BY <1>a DEF TasksTypeOK, MaybeTask
  <1>g. ASSUME NEW s \in Slot, requests[s] # NoRequest
        PROVE  /\ userid \in User
               /\ requests[s].txn \in Txn
               /\ requests[s].count \in VerifyCount
               /\ requests[s].rcpt \in Receipt
               /\ Answered(s) \in Requests
    BY <1>a, <1>f, <1>g, AnsweredType DEF Requests, Request, TypeInv, LoggedOutIsQuiet
  <1> HIDE DEF VMParts
  <1>1. ASSUME NEW u \in User, Login(u) PROVE TypeOK'
    <2>1. device \in Receipt /\ PlannedQueue(keychain[u]) \in SUBSET Txn
      BY <1>a, <1>b, PlannedQueueType DEF StoreTypeOK, Keychain
    <2>2. keychain' \in Keychain /\ sk' \in [Txn -> StoreKitState] /\ TasksTypeOK'
      BY <1>1, <2>1, CheckUnfinishedType DEF Login, TypeInv
    <2>3. VMParts
      BY <1>1, <1>a, <2>1, <2>2 DEF Login, VMParts
    <2>4. StoreTypeOK'
      BY <1>1, <1>b, <2>2 DEF Login, StoreTypeOK, FetchReceipt
    <2> QED
      BY <1>c, <2>3, <2>4
  <1>2. ASSUME NEW t \in Txn, BuyProduct(t) PROVE TypeOK'
    BY <1>2, <1>b, <1>c, <1>d DEF BuyProduct, StoreTypeOK, StoreKitState
  <1>3. ASSUME NEW t \in Txn, StoreKitPurchased(t) PROVE TypeOK'
    BY <1>3, <1>b, <1>c, <1>d DEF StoreKitPurchased, StoreTypeOK, StoreKitState
  <1>4. ASSUME NEW t \in Txn, StoreKitFailed(t) PROVE TypeOK'
    BY <1>4, <1>b, <1>c, <1>d DEF StoreKitFailed, StoreTypeOK, StoreKitState
  <1>5. ASSUME NEW t \in Txn, TransactionPurchased(t) PROVE TypeOK'
    <2>1. userid \in User /\ device \in Receipt
      BY <1>5, <1>a, <1>b DEF TransactionPurchased, StoreTypeOK
    <2>2. StoreTypeOK'
      BY <1>5, <1>b, FinishedType DEF TransactionPurchased, StoreTypeOK, FetchReceipt
    <2>3. CASE /\ RefreshReceiptData(userid, device)
               /\ keychain' \in {DeleteModel(keychain, userid, t), Saved(userid, {t})}
               /\ UNCHANGED timers
      <3>1. TasksTypeOK' /\ receipt' \in Receipt
        BY <1>a, <2>1, <2>3, RefreshReceiptDataType
      <3>2. keychain' \in Keychain
        BY <1>a, <2>1, <2>3, DeleteModelResult, SavedType
      <3> QED
        BY <1>5, <1>a, <1>c, <2>2, <3>1, <3>2 DEF TransactionPurchased, VMParts
    <2>4. CASE /\ receipt' = IF device = NoReceipt THEN receipt ELSE device
               /\ keychain' = Saved(userid, {t})
               /\ StartVerifying(userid, keychain', receipt', NoTask, requests)
      <3>1. receipt' \in Receipt /\ keychain' \in Keychain
        BY <1>a, <2>1, <2>4, SavedType
      <3>2. TasksTypeOK'
        BY <1>a, <1>f, <2>1, <2>4, <3>1, StartVerifyingType
      <3> QED
        BY <1>5, <1>a, <1>c, <2>2, <3>1, <3>2 DEF TransactionPurchased, VMParts
    <2> QED
      BY <1>5, <2>3, <2>4 DEF TransactionPurchased
  <1>6. ASSUME NEW t \in Txn, TransactionFailed(t) PROVE TypeOK'
    BY <1>6, <1>b, <1>c, <1>d, FinishedType DEF TransactionFailed, StoreTypeOK
  <1>7. ASSUME NEW t \in Txn, CrashBeforeFinish(t) PROVE TypeOK'
    <2>1. VMParts
      BY <1>7, <1>a, GoneType, DeleteModelResult DEF CrashBeforeFinish, ProcessGone, VMParts
    <2> QED
      BY <1>7, <1>b, <1>c, <2>1 DEF CrashBeforeFinish, ProcessGone, StoreTypeOK
  <1>8. ASSUME NEW s \in Slot, OrderCreated(s) PROVE TypeOK'
    <2>1. CreateOrderResponse(s) /\ requests[s] # NoRequest
      BY <1>8 DEF OrderCreated, CreateOrderResponse, Outstanding
    <2>2. PICK kc \in Keychain, cur \in MaybeTask :
            keychain' = kc /\ StartVerifying(userid, kc, receipt, cur, Answered(s))
      <3>1. SetOrder(keychain, userid, requests[s].txn, requests[s].rcpt) \in Keychain
        BY <1>a, <1>g, <2>1, SetOrderResult
      <3> QED
        BY <1>a, <1>f, <2>1, <3>1 DEF CreateOrderResponse
    <2>3. VMParts
      BY <1>a, <1>g, <2>1, <2>2, StartVerifyingType DEF CreateOrderResponse, VMParts
    <2> QED
      BY <1>8, <1>c, <1>e, <2>3 DEF OrderCreated
  <1>9. ASSUME NEW s \in Slot, OrderFailed(s) PROVE TypeOK'
    <2>1. CreateOrderRequestFailed(s) /\ requests[s] # NoRequest
      BY <1>9 DEF OrderFailed, CreateOrderRequestFailed, Outstanding
    <2>2. PICK cur \in MaybeTask : StartVerifying(userid, keychain, receipt, cur, Answered(s))
      BY <1>f, <2>1 DEF CreateOrderRequestFailed
    <2>3. VMParts
      BY <1>a, <1>g, <2>1, <2>2, StartVerifyingType DEF CreateOrderRequestFailed, VMParts
    <2> QED
      BY <1>9, <1>c, <1>e, <2>3 DEF OrderFailed
  <1>10. ASSUME NEW s \in Slot, ReceiptVerdict(s) PROVE TypeOK'
    <2>1. requests[s] # NoRequest /\ device \in Receipt
      BY <1>10, <1>b DEF ReceiptVerdict, Outstanding, StoreTypeOK
    <2>2. PICK rc \in Receipt, kc \in Keychain, cur \in MaybeTask :
            /\ receipt' = rc /\ keychain' = kc
            /\ StartVerifying(userid, kc, rc, cur, Answered(s))
            /\ UNCHANGED <<userid, reach>>
      <3>1. CASE IsCurrent(requests[s])
        <4>1. PICK kc \in {keychain, SetValid(keychain, userid, requests[s].txn)} :
                ReceiptVerdictForCurrent(s, device, kc)
          BY <1>10, <3>1 DEF ReceiptVerdict
        <4>2. DeleteModel(kc, userid, requests[s].txn) \in Keychain
          BY <1>a, <1>g, <2>1, SetValidResult, DeleteModelResult
        <4> QED
          BY <1>a, <1>f, <2>1, <4>1, <4>2 DEF ReceiptVerdictForCurrent
      <3>2. CASE ~IsCurrent(requests[s])
        BY <1>10, <1>a, <1>f, <3>2 DEF ReceiptVerdict, ReceiptVerdictForOther
      <3> QED
        BY <3>1, <3>2
    <2>3. VMParts
      BY <1>a, <1>g, <2>1, <2>2, StartVerifyingType DEF VMParts
    <2>4. StoreTypeOK'
      BY <1>10, <1>b, <1>g, <2>1, FinishedType
         DEF ReceiptVerdict, FinishOrFlag, FetchReceipt, StoreTypeOK
    <2> QED
      BY <1>c, <2>3, <2>4
  <1>11. ASSUME NEW s \in Slot, UploadFailed(s) PROVE TypeOK'
    <2>1. /\ UploadCertificateRequestFailed(s, device)
          /\ requests[s] # NoRequest /\ device \in Receipt
      BY <1>11, <1>b DEF UploadFailed, UploadCertificateRequestFailed, Outstanding, StoreTypeOK
    <2>2. PICK rc \in Receipt, kc \in Keychain, cur \in MaybeTask :
            /\ receipt' = rc /\ keychain' = kc
            /\ StartVerifying(userid, kc, rc, cur, Answered(s))
            /\ UNCHANGED <<userid, reach>>
      <3>1. SetVerifyCount(keychain, userid, requests[s].txn, OneMore(requests[s].count))
              \in Keychain
        BY <1>a, <1>g, <2>1, OneMoreType, SetVerifyCountResult
      <3> QED
        BY <1>a, <1>f, <2>1, <3>1 DEF UploadCertificateRequestFailed
    <2>3. VMParts
      BY <1>a, <1>g, <2>1, <2>2, StartVerifyingType DEF VMParts
    <2>4. StoreTypeOK'
      BY <1>11, <1>b DEF UploadFailed, FetchReceipt, StoreTypeOK
    <2> QED
      BY <1>c, <2>3, <2>4
  <1>12. ASSUME NEW s \in Slot, Dropped(s) PROVE TypeOK'
    BY <1>12, <1>a, <1>c, <1>e, <1>g DEF Dropped, RequestDropped, VMParts, TasksTypeOK
  <1>13. ASSUME NEW s \in Slot, CrashInVerdict(s) PROVE TypeOK'
    <2>1. requests[s] # NoRequest
      BY <1>13 DEF CrashInVerdict, Outstanding
    <2>2. keychain' \in Keychain
      BY <1>13, <1>a, <1>g, <2>1, SetValidResult, EmptyResult DEF CrashInVerdict
    <2>3. VMParts
      BY <1>13, <2>2, GoneType DEF CrashInVerdict, ProcessGone, VMParts
    <2>4. StoreTypeOK'
      BY <1>13, <1>b, <1>g, <2>1, FinishedType
         DEF CrashInVerdict, ProcessGone, FinishOrFlag, StoreTypeOK
    <2> QED
      BY <1>c, <2>3, <2>4
  <1>14. ASSUME NEW status \in {"NotReachable", "Reachable"}, NetworkChanged(status)
         PROVE  TypeOK'
    <2>1. ReachabilityChanged(status) /\ userid \in User
      BY <1>14, <1>a DEF NetworkChanged, ReachabilityChanged
    <2>2. TasksTypeOK'
      BY <1>a, <1>f, <2>1, StartVerifyingType DEF ReachabilityChanged, TasksTypeOK
    <2>3. VMParts
      BY <1>a, <2>1, <2>2 DEF ReachabilityChanged, ReachabilityStatus, VMParts
    <2> QED
      BY <1>14, <1>c, <1>e, <2>3 DEF NetworkChanged
  <1>15. ASSUME NEW kind \in {"products", "receipt"}, RequestDidFinish(kind) PROVE TypeOK'
    <2>1. StoreTypeOK'
      BY <1>15, <1>b DEF RequestDidFinish, StoreTypeOK
    <2>2. device' \in Receipt
      BY <2>1 DEF StoreTypeOK
    <2>3. CASE userid = NoUser
      BY <1>15, <1>c, <1>d, <2>1, <2>3 DEF RequestDidFinish
    <2>4. CASE userid # NoUser
      <3>1. TasksTypeOK' /\ receipt' \in Receipt
        BY <1>15, <1>a, <2>2, <2>4, RefreshReceiptDataType DEF RequestDidFinish
      <3> QED
        BY <1>15, <1>a, <1>c, <2>1, <2>4, <3>1 DEF RequestDidFinish, VMParts
    <2> QED
      BY <2>3, <2>4
  <1>16. ASSUME StartDelayed PROVE TypeOK'
    <2>1. DelayedStart
      BY <1>16 DEF StartDelayed
    <2>2. timers' \in 0..MaxTimers
      BY <1>a, <2>1, MaxTimersAssumption DEF DelayedStart, TasksTypeOK
    <2>3. TasksTypeOK'
      BY <1>a, <2>1, <2>2, StartTaskType DEF DelayedStart, TasksTypeOK, MaybeTask
    <2>4. VMParts
      BY <1>a, <2>1, <2>3 DEF DelayedStart, VMParts
    <2> QED
      BY <1>16, <1>c, <1>e, <2>4 DEF StartDelayed
  <1>17. ASSUME WillEnterForeground PROVE TypeOK'
    <2>1. CASE userid = NoUser
      <3>1. PICK listed \in Listings :
              sk' = Finished({t \in listed : sk[t] = "failed"}) /\ UNCHANGED vmVars
        BY <1>17, <2>1 DEF WillEnterForeground
      <3>2. sk' \in [Txn -> StoreKitState]
        BY <1>b, <3>1, FinishedType DEF StoreTypeOK
      <3>3. StoreTypeOK'
        BY <1>17, <1>b, <3>2 DEF WillEnterForeground, StoreTypeOK
      <3> QED
        BY <1>c, <1>d, <3>1, <3>3
    <2>2. CASE userid # NoUser
      <3>1. keychain' \in Keychain /\ sk' \in [Txn -> StoreKitState] /\ TasksTypeOK'
        BY <1>17, <1>a, <2>2, CheckUnfinishedType
           DEF WillEnterForeground, TypeInv, TasksTypeOK
      <3>2. VMParts
        BY <1>17, <1>a, <2>2, <3>1 DEF WillEnterForeground, VMParts
      <3>3. StoreTypeOK'
        BY <1>17, <1>b, <3>1 DEF WillEnterForeground, StoreTypeOK
      <3> QED
        BY <1>c, <3>2, <3>3
    <2> QED
      BY <2>1, <2>2
  <1>18. ASSUME FetchProductInfo PROVE TypeOK'
    BY <1>18, <1>b, <1>c, <1>d DEF FetchProductInfo, StoreTypeOK
  <1>19. ASSUME Logout PROVE TypeOK'
    <2>1. VMParts
      BY <1>19, <1>a, GoneType DEF Logout, VMParts
    <2> QED
      BY <1>19, <1>b, <1>c, <2>1 DEF Logout, StoreTypeOK
  <1>20. ASSUME ClearAllUnfinishedTransactions PROVE TypeOK'
    <2>1. keychain' \in Keychain
      BY <1>20, <1>a, EmptyResult DEF ClearAllUnfinishedTransactions
    <2>2. VMParts
      BY <1>20, <1>a, <2>1 DEF ClearAllUnfinishedTransactions, VMParts, TasksTypeOK
    <2>3. StoreTypeOK'
      BY <1>20, <1>b, FinishedType DEF ClearAllUnfinishedTransactions, StoreTypeOK
    <2> QED
      BY <1>c, <2>2, <2>3
  <1>21. ASSUME Terminate PROVE TypeOK'
    <2>1. VMParts
      BY <1>21, <1>a, GoneType DEF Terminate, ProcessGone, VMParts
    <2> QED
      BY <1>21, <1>b, <1>c, <2>1 DEF Terminate, ProcessGone, StoreTypeOK
  <1>22. ASSUME CrashInsideWrite PROVE TypeOK'
    <2>1. VMParts
      BY <1>22, <1>a, GoneType, EmptyResult DEF CrashInsideWrite, ProcessGone, VMParts
    <2> QED
      BY <1>22, <1>b, <1>c, <2>1 DEF CrashInsideWrite, ProcessGone, StoreTypeOK
  <1>23. CASE UNCHANGED vars
    BY <1>23, <1>b, <1>c, <1>d DEF vars, vmVars, StoreTypeOK
  <1> QED
    BY <1>1, <1>2, <1>3, <1>4, <1>5, <1>6, <1>7, <1>8, <1>9, <1>10, <1>11, <1>12,
       <1>13, <1>14, <1>15, <1>16, <1>17, <1>18, <1>19, <1>20, <1>21, <1>22, <1>23
       DEF Next

\* Without a verify manager nothing is pending, in every step.
LEMMA QuietStep == TypeInv /\ [Next]_vars => LoggedOutIsQuiet'
  <1> SUFFICES ASSUME TypeInv, [Next]_vars, userid' = NoUser
               PROVE  timers' = 0 /\ \A s \in Slot : requests'[s] = NoRequest
    BY DEF LoggedOutIsQuiet
  <1> USE DEF TypeInv, LoggedOutIsQuiet
  <1>1. CASE VerifyManagerGone
    BY <1>1 DEF VerifyManagerGone
  <1>2. CASE UNCHANGED <<userid, timers, requests>>
    BY <1>2
  <1>3. ASSUME NEW u \in User, Login(u) PROVE FALSE
    BY <1>3, NoUserAssumption DEF Login
  <1>4. ASSUME NEW s \in Slot, requests[s] # NoRequest, UNCHANGED userid PROVE FALSE
    BY <1>4
  <1>5. ASSUME NEW t \in Txn, TransactionPurchased(t) PROVE FALSE
    BY <1>5 DEF TransactionPurchased
  <1>6. ASSUME NEW s \in Slot,
               OrderCreated(s) \/ OrderFailed(s) \/ ReceiptVerdict(s) \/ UploadFailed(s) \/ Dropped(s)
        PROVE  FALSE
    <2>1. requests[s] # NoRequest
      BY <1>6 DEF OrderCreated, CreateOrderResponse, OrderFailed, CreateOrderRequestFailed,
                  ReceiptVerdict, UploadFailed, UploadCertificateRequestFailed,
                  Dropped, RequestDropped, Outstanding
    <2>2. UNCHANGED userid
      BY <1>6 DEF OrderCreated, CreateOrderResponse, OrderFailed, CreateOrderRequestFailed,
                  ReceiptVerdict, ReceiptVerdictForCurrent, ReceiptVerdictForOther,
                  UploadFailed, UploadCertificateRequestFailed, Dropped, RequestDropped
    <2> QED
      BY <1>4, <2>1, <2>2
  <1>7. ASSUME NEW status \in {"NotReachable", "Reachable"}, NetworkChanged(status) PROVE FALSE
    BY <1>7 DEF NetworkChanged, ReachabilityChanged
  <1>8. CASE StartDelayed
    BY <1>8 DEF StartDelayed, DelayedStart
  <1>9. ASSUME NEW kind \in {"products", "receipt"}, RequestDidFinish(kind)
        PROVE  UNCHANGED <<userid, timers, requests>>
    BY <1>9 DEF RequestDidFinish, vmVars
  <1>10. ASSUME WillEnterForeground
         PROVE  UNCHANGED <<userid, timers, requests>>
    BY <1>10 DEF WillEnterForeground, vmVars
  <1>11. ASSUME NEW t \in Txn,
                \/ BuyProduct(t) \/ StoreKitPurchased(t) \/ StoreKitFailed(t)
                \/ TransactionFailed(t)
         PROVE  UNCHANGED <<userid, timers, requests>>
    BY <1>11 DEF BuyProduct, StoreKitPurchased, StoreKitFailed, TransactionFailed, vmVars
  <1>12. ASSUME FetchProductInfo \/ ClearAllUnfinishedTransactions \/ UNCHANGED vars
         PROVE  UNCHANGED <<userid, timers, requests>>
    BY <1>12 DEF FetchProductInfo, ClearAllUnfinishedTransactions, vmVars, vars
  <1>13. ASSUME \/ \E t \in Txn : CrashBeforeFinish(t)
                \/ \E s \in Slot : CrashInVerdict(s)
                \/ Logout \/ Terminate \/ CrashInsideWrite
         PROVE  VerifyManagerGone
    BY <1>13 DEF CrashBeforeFinish, CrashInVerdict, Logout, Terminate, CrashInsideWrite,
                 ProcessGone
  <1> QED
    BY <1>1, <1>2, <1>3, <1>5, <1>6, <1>7, <1>8, <1>9, <1>10, <1>11, <1>12, <1>13 DEF Next

\* Every variable of the client keeps its type: the queue and the tasks are
\* of known transactions, and every answer finds a logged-in user.
THEOREM TypeCorrect == Spec => []TypeOK
  <1>1. TypeInv /\ [Next]_vars => TypeInv'
    BY TypeStep, QuietStep DEF TypeInv
  <1> QED
    BY TypeInitially, <1>1, PTL DEF Spec, TypeInv

-----------------------------------------------------------------------------
(* No purchase is lost.  NoPurchaseLost alone is not inductive: a flagged   *)
(* model lets a transaction be finished unverified, so a flag must mean    *)
(* that the server has answered (FlaggedWasJudged).  For the models that   *)
(* leave the keychain, each must also be of a paid transaction and the     *)
(* only one of its transaction.                                            *)

StoredWasPaid ==
  \A u \in User : \A m \in keychain[u] : sk[m.txn] \in {"purchased", "finished"}

SafeState ==
  /\ FlaggedWasJudged
  /\ NoPurchaseLost
  /\ OneModelPerTransaction
  /\ StoredWasPaid
  /\ DeliveredIsPersisted

SafeInv == TypeInv /\ SafeState

\* What every step establishes: the invariant, and what it lets happen.
SafeNow == SafeState' /\ ModelsLeft

\* What saving the fresh transactions of T does to the keychain.
LEMMA SavedResult ==
  ASSUME keychain \in Keychain, OneEach(keychain), NEW u \in User, NEW T \in SUBSET Txn
  PROVE  /\ Saved(u, T) \in Keychain /\ OneEach(Saved(u, T))
         /\ \A v \in User, m \in Model :
              m \in Saved(u, T)[v] => m \in keychain[v] \/ (~m.valid /\ sk[m.txn] = "purchased")
         /\ \A v \in User, x \in Txn : Stored(keychain, v, x) => Stored(Saved(u, T), v, x)
         /\ \A t \in T : sk[t] = "purchased" => Stored(Saved(u, T), u, t)
  <1> DEFINE M == {NewModel(t) : t \in Fresh(u, T)}
  <1>1. Fresh(u, T) \in SUBSET Txn /\ \A t \in Fresh(u, T) : ~Stored(keychain, u, t)
    BY DEF Fresh
  <1>2. M \in SUBSET Model
    BY <1>1, NewModelType
  <1>3. \A m \in M : ~m.valid /\ sk[m.txn] = "purchased"
    BY <1>1, NewModelType DEF Fresh
  <1>4. \A t \in Fresh(u, T) : \E m \in M : m.txn = t
    BY <1>1, NewModelType
  <1>5. Saved(u, T) = SaveModels(keychain, u, M)
    BY DEF Saved
  <1>6. OneEach(Saved(u, T))
    BY <1>1, SaveModelsOneEach DEF Saved
  <1> HIDE DEF M
  <1>7. ASSUME NEW t \in T, sk[t] = "purchased" PROVE Stored(Saved(u, T), u, t)
    <2>1. CASE t \in Fresh(u, T)
      BY <1>2, <1>4, <1>5, <2>1, SaveModelsResult DEF Stored
    <2>2. CASE t \notin Fresh(u, T)
      BY <1>2, <1>5, <1>7, <2>2, SaveModelsResult DEF Fresh
    <2> QED
      BY <2>1, <2>2
  <1> QED
    BY <1>2, <1>3, <1>5, <1>6, <1>7, SaveModelsResult

\* What checkUnfinishedTransactionInSandbox does to the keychain and to
\* StoreKit: only unpaid transactions and flagged ones are finished.
LEMMA CheckUnfinishedResult ==
  ASSUME TypeOK, OneEach(keychain), NEW u \in User, NEW rc, NEW q, CheckUnfinished(u, rc, q)
  PROVE  /\ OneEach(keychain')
         /\ \A v \in User, m \in Model :
              m \in keychain'[v] => m \in keychain[v] \/ (~m.valid /\ sk[m.txn] = "purchased")
         /\ \A t \in Txn :
              \/ sk'[t] = sk[t]
              \/ sk[t] = "failed" /\ sk'[t] = "none"
              \/ sk[t] = "purchased" /\ sk'[t] = "finished" /\ FlaggedValid(keychain, u, t)
         /\ \A v \in User, x \in Txn :
              Stored(keychain, v, x) =>
                \/ Stored(keychain', v, x)
                \/ sk'[x] = "finished" /\ FlaggedValid(keychain, u, x)
  <1>a. keychain \in Keychain /\ sk \in [Txn -> StoreKitState]
    BY VMTypeParts DEF TypeOK
  <1>1. PICK listed \in Listings :
          LET marked == {t \in listed : sk[t] = "purchased" /\ FlaggedValid(keychain, u, t)}
              unpaid(T) == {t \in T : sk[t] = "failed"}
          IN \/ /\ marked = {}
                /\ keychain' = Saved(u, listed)
                /\ sk' = Finished(unpaid(listed))
                /\ Append(u, listed, rc, q)
             \/ \E t \in marked, seen \in SUBSET (listed \ marked) :
                  /\ keychain' = DeleteModel(Saved(u, seen), u, t)
                  /\ sk' = Finished(unpaid(seen) \cup {t})
                  /\ Append(u, seen, rc, q)
    BY DEF CheckUnfinished
  <1>2. listed \in SUBSET Txn
    BY DEF Listings, Unfinished
  <1>3. CASE /\ keychain' = Saved(u, listed)
             /\ sk' = Finished({t \in listed : sk[t] = "failed"})
    <2>1. \A t \in Txn : sk'[t] = sk[t] \/ (sk[t] = "failed" /\ sk'[t] = "none")
      BY <1>a, <1>3, FinishedType
    <2> QED
      BY <1>a, <1>2, <1>3, <2>1, SavedResult
  <1>4. ASSUME NEW t \in listed, NEW seen \in SUBSET listed,
               sk[t] = "purchased", FlaggedValid(keychain, u, t),
               keychain' = DeleteModel(Saved(u, seen), u, t),
               sk' = Finished({x \in seen : sk[x] = "failed"} \cup {t})
        PROVE  /\ OneEach(keychain')
               /\ \A v \in User, m \in Model :
                    m \in keychain'[v] =>
                      m \in keychain[v] \/ (~m.valid /\ sk[m.txn] = "purchased")
               /\ \A x \in Txn :
                    \/ sk'[x] = sk[x]
                    \/ sk[x] = "failed" /\ sk'[x] = "none"
                    \/ sk[x] = "purchased" /\ sk'[x] = "finished" /\ FlaggedValid(keychain, u, x)
               /\ \A v \in User, x \in Txn :
                    Stored(keychain, v, x) =>
                      \/ Stored(keychain', v, x)
                      \/ sk'[x] = "finished" /\ FlaggedValid(keychain, u, x)
    <2>1. seen \in SUBSET Txn /\ t \in Txn
      BY <1>2
    <2>2. /\ Saved(u, seen) \in Keychain /\ OneEach(Saved(u, seen))
          /\ \A v \in User, m \in Model :
               m \in Saved(u, seen)[v] =>
                 m \in keychain[v] \/ (~m.valid /\ sk[m.txn] = "purchased")
          /\ \A v \in User, x \in Txn : Stored(keychain, v, x) => Stored(Saved(u, seen), v, x)
      BY <1>a, <2>1, SavedResult
    <2>3. sk'[t] = "finished"
      BY <1>4, <2>1 DEF Finished
    <2>4. \A x \in Txn : \/ sk'[x] = sk[x]
                         \/ sk[x] = "failed" /\ sk'[x] = "none"
                         \/ x = t
      BY <1>a, <1>4, FinishedType
    <2>5. OneEach(keychain') /\ \A v \in User : keychain'[v] \subseteq Saved(u, seen)[v]
      BY <1>4, <2>1, <2>2, DeleteModelOneEach, DeleteModelResult
    <2>6. \A v \in User, x \in Txn : Stored(keychain, v, x) => Stored(keychain', v, x) \/ x = t
      BY <1>4, <2>1, <2>2, DeleteModelResult
    <2> QED
      BY <1>4, <2>2, <2>3, <2>4, <2>5, <2>6
  <1> QED
    BY <1>1, <1>3, <1>4

LEMMA SafeInitially == Init => SafeState
  <1> SUFFICES ASSUME Init PROVE SafeState
    OBVIOUS
  <1>1. \A u \in User : keychain[u] = {}
    BY DEF Init, VMInit, ItemRemoved
  <1>2. \A t \in Txn : sk[t] = "none"
    BY DEF Init
  <1> QED
    BY <1>1, <1>2 DEF SafeState, FlaggedWasJudged, NoPurchaseLost,
          OneModelPerTransaction, StoredWasPaid, DeliveredIsPersisted

\* What the proofs about steps use of the invariant, for the keychain.
LEMMA SafeFacts ==
  ASSUME SafeInv
  PROVE  /\ keychain \in Keychain /\ sk \in [Txn -> StoreKitState]
         /\ OneEach(keychain)
         /\ \A u \in User, m \in Model : m \in keychain[u] =>
              /\ m.valid => m.txn \in judged
              /\ sk[m.txn] \in {"purchased", "finished"}
              /\ m.txn \in Txn
         /\ \A u \in User, t \in Txn : FlaggedValid(keychain, u, t) => t \in judged
         /\ \A u \in User, t \in Txn :
              Stored(keychain, u, t) => sk[t] \in {"purchased", "finished"}
  <1>1. keychain \in Keychain /\ sk \in [Txn -> StoreKitState]
    BY VMTypeParts DEF SafeInv, TypeInv, TypeOK
  <1> QED
    BY <1>1 DEF SafeInv, SafeState, FlaggedWasJudged, OneModelPerTransaction, OneEach,
          StoredWasPaid, Keychain, FlaggedValid, Stored, Model

\* A step that at most updates counts and orders.
LEMMA UpdateKeepsSafe ==
  ASSUME SafeInv, UNCHANGED <<userid, sk, undelivered, judged, cleared>>,
         keychain' \in Keychain, OneEach(keychain'),
         SameTxns(keychain', keychain), NoNewFlag(keychain', keychain)
  PROVE  SafeNow
  <1>1. \A u \in User, m \in Model : m \in keychain'[u] =>
          Stored(keychain, u, m.txn) /\ m.txn \in Txn
    BY DEF SameTxns, Stored, Model
  <1>2. FlaggedWasJudged'
    BY SafeFacts DEF FlaggedWasJudged, NoNewFlag, Keychain
  <1>3. NoPurchaseLost' /\ DeliveredIsPersisted'
    <2>1. userid' \in User \cup {NoUser}
      BY VMTypeParts DEF SafeInv, TypeInv, TypeOK
    <2> QED
      BY <2>1 DEF SafeInv, SafeState, NoPurchaseLost, DeliveredIsPersisted, SameTxns
  <1>4. StoredWasPaid'
    BY <1>1, SafeFacts DEF StoredWasPaid, Keychain
  <1>5. OneModelPerTransaction' /\ ModelsLeft
    BY DEF OneModelPerTransaction, OneEach, SameTxns, ModelsLeft
  <1> QED
    BY <1>2, <1>3, <1>4, <1>5 DEF SafeNow, SafeState

\* The process, or at least the verify manager, is gone; what is left in the
\* keychain was there before, or belongs to a transaction just judged.
LEMMA GoneKeepsSafe ==
  ASSUME SafeInv, VerifyManagerGone, cleared' = cleared,
         keychain' \in Keychain, OneEach(keychain'),
         judged \subseteq judged',
         \A u \in User, m \in Model : m \in keychain'[u] =>
           \/ m \in keychain[u]
           \/ m.txn \in judged' /\ Stored(keychain, u, m.txn) /\ m.txn \in Txn,
         \A t \in Txn : \/ sk'[t] = sk[t]
                        \/ sk[t] = "failed" /\ sk'[t] = "none"
                        \/ sk'[t] = "finished" /\ t \in judged',
         userid' = userid => keychain' = keychain
  PROVE  SafeNow
  <1>1. userid' = NoUser
    BY DEF VerifyManagerGone
  <1>2. FlaggedWasJudged'
    BY SafeFacts DEF FlaggedWasJudged, Keychain
  <1>3. NoPurchaseLost'
    BY DEF SafeInv, SafeState, NoPurchaseLost
  <1>4. StoredWasPaid'
    BY SafeFacts DEF StoredWasPaid, Keychain
  <1>5. OneModelPerTransaction' /\ ModelsLeft /\ DeliveredIsPersisted'
    BY <1>1 DEF OneModelPerTransaction, OneEach, ModelsLeft, DeliveredIsPersisted
  <1> QED
    BY <1>2, <1>3, <1>4, <1>5 DEF SafeNow, SafeState

\* StoreKit moves on with a transaction that is not paid, or pays it.
LEMMA StoreKitKeepsSafe ==
  ASSUME SafeInv, UNCHANGED <<userid, keychain, judged, cleared>>, NEW t \in Txn,
         sk[t] \notin {"purchased", "finished"}, sk'[t] # "finished",
         \A x \in Txn : x # t => sk'[x] = sk[x],
         \A x \in Txn : x # t => (x \in undelivered <=> x \in undelivered'),
         sk'[t] = "purchased" /\ userid # NoUser => t \in undelivered'
  PROVE  SafeNow
  <1>1. FlaggedWasJudged'
    BY DEF SafeInv, SafeState, FlaggedWasJudged
  <1>2. NoPurchaseLost'
    BY DEF SafeInv, SafeState, NoPurchaseLost
  <1>3. DeliveredIsPersisted'
    BY DEF SafeInv, SafeState, DeliveredIsPersisted
  <1>4. StoredWasPaid'
    BY SafeFacts DEF StoredWasPaid, Keychain
  <1>5. OneModelPerTransaction' /\ ModelsLeft
    BY DEF SafeInv, SafeState, OneModelPerTransaction, ModelsLeft
  <1> QED
    BY <1>1, <1>2, <1>3, <1>4, <1>5 DEF SafeNow, SafeState

\* The sandbox is checked: new models are unflagged and paid, and only a
\* flagged transaction is finished and deleted.
LEMMA CheckUnfinishedKeepsSafe ==
  ASSUME SafeInv, TypeOK', NEW u \in User, NEW rc, NEW q, CheckUnfinished(u, rc, q),
         userid' = u, UNCHANGED <<judged, cleared>>,
         \/ undelivered' = {t \in Txn : sk'[t] \in {"purchased", "failed"}}
         \/ userid = u /\ undelivered' = {t \in undelivered : sk'[t] = sk[t]}
  PROVE  SafeNow
  <1>0. TypeOK /\ keychain' \in Keychain
    BY DEF SafeInv, TypeInv, TypeOK, VMTypeOK, Keychain
  <1>1. /\ OneEach(keychain')
        /\ \A v \in User, m \in Model :
             m \in keychain'[v] => m \in keychain[v] \/ (~m.valid /\ sk[m.txn] = "purchased")
        /\ \A t \in Txn :
             \/ sk'[t] = sk[t]
             \/ sk[t] = "failed" /\ sk'[t] = "none"
             \/ sk[t] = "purchased" /\ sk'[t] = "finished" /\ FlaggedValid(keychain, u, t)
        /\ \A v \in User, x \in Txn :
             Stored(keychain, v, x) =>
               \/ Stored(keychain', v, x)
               \/ sk'[x] = "finished" /\ FlaggedValid(keychain, u, x)
    BY <1>0, SafeFacts, CheckUnfinishedResult
  <1>2. FlaggedWasJudged'
    BY <1>0, <1>1, SafeFacts DEF FlaggedWasJudged, Keychain
  <1>3. NoPurchaseLost'
    BY <1>1, SafeFacts DEF SafeInv, SafeState, NoPurchaseLost
  <1>4. StoredWasPaid'
    <2>1. \A v \in User, m \in Model :
            m \in keychain'[v] => sk[m.txn] \in {"purchased", "finished"} /\ m.txn \in Txn
      BY <1>1, SafeFacts DEF Model
    <2> QED
      BY <1>0, <1>1, <2>1 DEF StoredWasPaid, Keychain
  <1>5. OneModelPerTransaction' /\ ModelsLeft
    BY <1>1, SafeFacts DEF OneModelPerTransaction, OneEach, ModelsLeft
  <1>6. DeliveredIsPersisted'
    BY <1>1 DEF SafeInv, SafeState, DeliveredIsPersisted
  <1> QED
    BY <1>2, <1>3, <1>4, <1>5, <1>6 DEF SafeNow, SafeState

\* Every step of every handler keeps purchases safe: one step per action.
LEMMA SafeStep == SafeInv /\ TypeOK' /\ [Next]_vars => SafeNow
  <1> SUFFICES ASSUME SafeInv, TypeOK', [Next]_vars PROVE SafeNow
    OBVIOUS
  <1>a. /\ keychain \in Keychain /\ sk \in [Txn -> StoreKitState]
        /\ OneEach(keychain)
        /\ userid \in User \cup {NoUser}
        /\ requests \in Requests
    BY SafeFacts, VMTypeParts DEF SafeInv, TypeInv, TypeOK, TasksTypeOK
  <1>b. keychain' \in Keychain
    BY DEF TypeOK, VMTypeOK, Keychain
  <1>c. SameTxns(keychain, keychain) /\ NoNewFlag(keychain, keychain)
    BY DEF SameTxns, NoNewFlag
  <1>d. ASSUME NEW s \in Slot, requests[s] # NoRequest
        PROVE  /\ userid \in User
               /\ requests[s].txn \in Txn
               /\ requests[s].count \in VerifyCount
               /\ requests[s].rcpt \in Receipt
    BY <1>a, <1>d DEF Requests, Request, SafeInv, TypeInv, LoggedOutIsQuiet
  <1>1. ASSUME UNCHANGED <<userid, keychain, sk, undelivered, judged, cleared>>
        PROVE  SafeNow
    BY <1>1, <1>a, <1>b, <1>c, UpdateKeepsSafe
  <1>2. ASSUME NEW u \in User, Login(u) PROVE SafeNow
    <2>1. CheckUnfinished(u, device,
            IF device = NoReceipt THEN {} ELSE PlannedQueue(keychain[u]))
      BY <1>2 DEF Login
    <2> QED
      BY <1>2, <2>1, CheckUnfinishedKeepsSafe DEF Login
  <1>3. ASSUME NEW t \in Txn, BuyProduct(t) PROVE SafeNow
    BY <1>3, <1>a, StoreKitKeepsSafe DEF BuyProduct, vmVars
  <1>4. ASSUME NEW t \in Txn, StoreKitPurchased(t) PROVE SafeNow
    <2>1. sk'[t] = "purchased" /\ \A x \in Txn : x # t => sk'[x] = sk[x]
      BY <1>4, <1>a DEF StoreKitPurchased
    <2>2. /\ userid # NoUser => t \in undelivered'
          /\ \A x \in Txn : x # t => (x \in undelivered <=> x \in undelivered')
      BY <1>4 DEF StoreKitPurchased
    <2>3. sk[t] = "purchasing" /\ UNCHANGED <<userid, keychain, judged, cleared>>
      BY <1>4 DEF StoreKitPurchased, vmVars
    <2> QED
      BY <2>1, <2>2, <2>3, StoreKitKeepsSafe
  <1>5. ASSUME NEW t \in Txn, StoreKitFailed(t) PROVE SafeNow
    <2>1. sk'[t] = "failed" /\ \A x \in Txn : x # t => sk'[x] = sk[x]
      BY <1>5, <1>a DEF StoreKitFailed
    <2>2. \A x \in Txn : x # t => (x \in undelivered <=> x \in undelivered')
      BY <1>5 DEF StoreKitFailed
    <2>3. sk[t] = "purchasing" /\ UNCHANGED <<userid, keychain, judged, cleared>>
      BY <1>5 DEF StoreKitFailed, vmVars
    <2> QED
      BY <2>1, <2>2, <2>3, StoreKitKeepsSafe
  <1>6. ASSUME NEW t \in Txn, TransactionFailed(t) PROVE SafeNow
    <2>1. sk'[t] = "none" /\ \A x \in Txn : x # t => sk'[x] = sk[x]
      BY <1>6, <1>a DEF TransactionFailed, Finished
    <2>2. \A x \in Txn : x # t => (x \in undelivered <=> x \in undelivered')
      BY <1>6 DEF TransactionFailed
    <2>3. sk[t] = "failed" /\ UNCHANGED <<userid, keychain, judged, cleared>>
      BY <1>6 DEF TransactionFailed, vmVars
    <2> QED
      BY <2>1, <2>2, <2>3, StoreKitKeepsSafe
  <1>7. ASSUME NEW t \in Txn, TransactionPurchased(t) PROVE SafeNow
    <2>1. /\ userid \in User /\ UNCHANGED <<userid, judged, cleared>>
          /\ sk[t] = "purchased" /\ undelivered' = undelivered \ {t}
      BY <1>7, <1>a DEF TransactionPurchased
    <2>2. CASE /\ FlaggedValid(keychain, userid, t)
               /\ keychain' = DeleteModel(keychain, userid, t)
               /\ sk' = Finished({t})
      <3>1. /\ \A v \in User : keychain'[v] \subseteq keychain[v]
            /\ \A v \in User, x \in Txn : Stored(keychain, v, x) => Stored(keychain', v, x) \/ x = t
            /\ OneEach(keychain')
        BY <1>a, <2>1, <2>2, DeleteModelResult, DeleteModelOneEach
      <3>2. sk'[t] = "finished" /\ \A x \in Txn : x # t => sk'[x] = sk[x]
        BY <1>a, <2>1, <2>2 DEF Finished
      <3>3. t \in judged
        BY <2>1, <2>2, SafeFacts
      <3>4. FlaggedWasJudged'
        BY <2>1, <3>1 DEF SafeInv, SafeState, FlaggedWasJudged
      <3>5. NoPurchaseLost' /\ DeliveredIsPersisted'
        BY <2>1, <3>1, <3>2, <3>3 DEF SafeInv, SafeState, NoPurchaseLost, DeliveredIsPersisted
      <3>6. StoredWasPaid'
        BY <1>a, <3>1, <3>2, SafeFacts DEF StoredWasPaid, Keychain, Model
      <3>7. OneModelPerTransaction' /\ ModelsLeft
        BY <2>1, <3>1, <3>3 DEF OneModelPerTransaction, OneEach, ModelsLeft
      <3> QED
        BY <3>4, <3>5, <3>6, <3>7 DEF SafeNow, SafeState
    <2>3. CASE keychain' = Saved(userid, {t}) /\ UNCHANGED sk
      <3>1. /\ OneEach(keychain')
            /\ \A v \in User, m \in Model :
                 m \in keychain'[v] => m \in keychain[v] \/ (~m.valid /\ sk[m.txn] = "purchased")
            /\ \A v \in User, x \in Txn : Stored(keychain, v, x) => Stored(keychain', v, x)
            /\ Stored(keychain', userid, t)
        <4> {t} \in SUBSET Txn
          OBVIOUS
        <4> QED
          BY <1>a, <2>1, <2>3, SavedResult
      <3>2. FlaggedWasJudged' /\ StoredWasPaid'
        BY <1>b, <2>1, <2>3, <3>1, SafeFacts DEF FlaggedWasJudged, StoredWasPaid, Keychain
      <3>3. NoPurchaseLost' /\ DeliveredIsPersisted'
        BY <2>1, <2>3, <3>1 DEF SafeInv, SafeState, NoPurchaseLost, DeliveredIsPersisted
      <3>4. OneModelPerTransaction' /\ ModelsLeft
        BY <3>1 DEF OneModelPerTransaction, OneEach, ModelsLeft
      <3> QED
        BY <3>2, <3>3, <3>4 DEF SafeNow, SafeState
    <2> QED
      BY <1>7, <2>2, <2>3 DEF TransactionPurchased
  <1>8. ASSUME NEW s \in Slot, ReceiptVerdict(s) PROVE SafeNow
    <2> DEFINE t == requests[s].txn
    <2>1. requests[s] # NoRequest
      BY <1>8 DEF ReceiptVerdict, Outstanding
    <2>2. userid \in User /\ t \in Txn
      BY <1>d, <2>1
    <2>3. CASE ~IsCurrent(requests[s])
      BY <1>8, <1>1, <2>3 DEF ReceiptVerdict, ReceiptVerdictForOther
    <2>4. CASE IsCurrent(requests[s])
      <3>1. PICK kc \in {keychain, SetValid(keychain, userid, t)} :
              FinishOrFlag(t, kc) /\ ReceiptVerdictForCurrent(s, device, kc)
        BY <1>8, <2>4 DEF ReceiptVerdict
      <3>2. /\ judged' = judged \cup {t} /\ UNCHANGED <<userid, cleared>>
            /\ keychain' = DeleteModel(kc, userid, t)
            /\ undelivered' = {x \in undelivered : sk'[x] = sk[x]}
        BY <1>8, <2>4, <3>1 DEF ReceiptVerdict, ReceiptVerdictForCurrent
      <3>3. \A x \in Txn : \/ sk'[x] = sk[x]
                           \/ x = t /\ sk[x] = "failed" /\ sk'[x] = "none"
                           \/ x = t /\ sk'[x] = "finished"
        BY <1>a, <3>1, FinishedType DEF FinishOrFlag
      <3>4. kc \in Keychain /\ OneEach(kc) /\ SameTxns(kc, keychain)
            /\ \A v \in User : \A m \in kc[v] : m \in keychain[v] \/ m.txn = t
        <4>1. CASE kc = keychain
          BY <1>a, <1>c, <4>1
        <4>2. CASE kc = SetValid(keychain, userid, t)
          <5>1. \E n \in VerifyCount, r \in Receipt : TRUE
            BY <1>d, <2>1
          <5> QED
            BY <1>a, <2>2, <4>2, <5>1, SetValidResult, UpdatesOneEach
        <4> QED
          BY <3>1, <4>1, <4>2
      <3>5. /\ OneEach(keychain')
            /\ \A v \in User : \A m \in keychain'[v] : m \in keychain[v] \/ m.txn = t
            /\ \A v \in User, x \in Txn : Stored(keychain, v, x) => Stored(keychain', v, x) \/ x = t
            /\ \A v \in User, x \in Txn : Stored(keychain', v, x) => Stored(keychain, v, x)
        <4>1. \A v \in User : keychain'[v] \subseteq kc[v]
          BY <2>2, <3>2, <3>4, DeleteModelResult
        <4>2. \A v \in User, x \in Txn : Stored(kc, v, x) => Stored(keychain', v, x) \/ x = t
          BY <2>2, <3>2, <3>4, DeleteModelResult
        <4>3. \A v \in User, x \in Txn : Stored(keychain', v, x) => Stored(kc, v, x)
          BY <4>1 DEF Stored
        <4> QED
          BY <2>2, <3>2, <3>4, <4>1, <4>2, <4>3, DeleteModelOneEach DEF SameTxns
      <3> HIDE DEF t
      <3>6. FlaggedWasJudged'
        BY <1>b, <3>2, <3>5, SafeFacts DEF FlaggedWasJudged, Keychain
      <3>7. NoPurchaseLost' /\ DeliveredIsPersisted'
        BY <2>2, <3>2, <3>3, <3>5 DEF SafeInv, SafeState, NoPurchaseLost, DeliveredIsPersisted
      <3>8. StoredWasPaid'
        <4>1. \A v \in User, m \in Model : m \in keychain'[v] => Stored(keychain, v, m.txn) /\ m.txn \in Txn
          BY <3>5 DEF Stored, Model
        <4> QED
          BY <1>b, <3>3, <4>1, SafeFacts DEF StoredWasPaid, Keychain
      <3>9. OneModelPerTransaction' /\ ModelsLeft
        BY <3>2, <3>5 DEF OneModelPerTransaction, OneEach, ModelsLeft
      <3> QED
        BY <3>6, <3>7, <3>8, <3>9 DEF SafeNow, SafeState
    <2> QED
      BY <2>3, <2>4
  <1>9. ASSUME NEW s \in Slot, OrderCreated(s) PROVE SafeNow
    <2>1. CreateOrderResponse(s) /\ requests[s] # NoRequest /\ VerifyManagerAlone
      BY <1>9 DEF OrderCreated, CreateOrderResponse, Outstanding
    <2>2. CASE keychain' = keychain
      BY <1>1, <2>1, <2>2 DEF CreateOrderResponse, VerifyManagerAlone
    <2>3. CASE keychain' = SetOrder(keychain, userid, requests[s].txn, requests[s].rcpt)
      <3>1. OneEach(keychain')
        BY <1>a, <1>d, <2>1, <2>3, UpdatesOneEach
      <3>2. SameTxns(keychain', keychain) /\ NoNewFlag(keychain', keychain)
        BY <1>a, <1>d, <2>1, <2>3, SetOrderResult
      <3> QED
        BY <1>b, <2>1, <3>1, <3>2, UpdateKeepsSafe DEF CreateOrderResponse, VerifyManagerAlone
    <2> QED
      BY <2>1, <2>2, <2>3 DEF CreateOrderResponse
  <1>10. ASSUME NEW s \in Slot, UploadFailed(s) PROVE SafeNow
    <2>1. /\ UploadCertificateRequestFailed(s, device) /\ requests[s] # NoRequest
          /\ UNCHANGED <<userid, sk, undelivered, judged, cleared>>
      BY <1>10 DEF UploadFailed, UploadCertificateRequestFailed, Outstanding
    <2>2. CASE keychain' = keychain
      BY <1>1, <2>1, <2>2
    <2>3. CASE keychain' = SetVerifyCount(keychain, userid, requests[s].txn,
                                          OneMore(requests[s].count))
      <3>1. OneMore(requests[s].count) \in VerifyCount
        BY <1>d, <2>1, OneMoreType
      <3>2. OneEach(keychain')
        BY <1>a, <1>d, <2>1, <2>3, <3>1, UpdatesOneEach
      <3>3. SameTxns(keychain', keychain) /\ NoNewFlag(keychain', keychain)
        BY <1>a, <1>d, <2>1, <2>3, <3>1, SetVerifyCountResult
      <3> QED
        BY <1>b, <2>1, <3>2, <3>3, UpdateKeepsSafe
    <2> QED
      BY <2>1, <2>2, <2>3 DEF UploadCertificateRequestFailed
  <1>11. ASSUME NEW s \in Slot, OrderFailed(s) \/ Dropped(s) PROVE SafeNow
    BY <1>1, <1>11 DEF OrderFailed, CreateOrderRequestFailed, Dropped, RequestDropped,
                       VerifyManagerAlone
  <1>12. ASSUME NEW status \in {"NotReachable", "Reachable"}, NetworkChanged(status)
         PROVE  SafeNow
    BY <1>1, <1>12 DEF NetworkChanged, ReachabilityChanged, VerifyManagerAlone
  <1>13. ASSUME NEW kind \in {"products", "receipt"}, RequestDidFinish(kind)
         PROVE  SafeNow
    BY <1>1, <1>13 DEF RequestDidFinish, vmVars
  <1>14. ASSUME StartDelayed \/ FetchProductInfo \/ UNCHANGED vars PROVE SafeNow
    BY <1>1, <1>14 DEF StartDelayed, DelayedStart, FetchProductInfo, VerifyManagerAlone,
                       vmVars, vars
  <1>15. ASSUME WillEnterForeground PROVE SafeNow
    <2>1. CASE userid # NoUser
      BY <1>15, <1>a, <2>1, CheckUnfinishedKeepsSafe DEF WillEnterForeground
    <2>2. CASE userid = NoUser
      <3>1. UNCHANGED <<userid, keychain, judged, cleared>>
        BY <1>15, <2>2 DEF WillEnterForeground, vmVars
      <3>2. PICK listed \in Listings : sk' = Finished({t \in listed : sk[t] = "failed"})
        BY <1>15, <2>2 DEF WillEnterForeground
      <3>3. \A t \in Txn : sk'[t] = sk[t] \/ (sk[t] = "failed" /\ sk'[t] = "none")
        BY <1>a, <3>2, FinishedType
      <3>4. FlaggedWasJudged' /\ NoPurchaseLost' /\ DeliveredIsPersisted'
        BY <2>2, <3>1, <3>3
           DEF SafeInv, SafeState, FlaggedWasJudged, NoPurchaseLost, DeliveredIsPersisted
      <3>5. StoredWasPaid'
        BY <1>b, <3>1, <3>3, SafeFacts DEF StoredWasPaid, Keychain
      <3>6. OneModelPerTransaction' /\ ModelsLeft
        BY <3>1 DEF SafeInv, SafeState, OneModelPerTransaction, ModelsLeft
      <3> QED
        BY <3>4, <3>5, <3>6 DEF SafeNow, SafeState
    <2> QED
      BY <2>1, <2>2
  <1>16. ASSUME ClearAllUnfinishedTransactions PROVE SafeNow
    <2>1. PICK listed \in Listings :
            /\ sk' = Finished(listed)
            /\ cleared' = cleared \cup
                 {t \in Txn : /\ sk[t] = "purchased"
                             /\ \/ sk'[t] = "finished"
                                \/ userid # NoUser /\ Stored(keychain, userid, t)}
      BY <1>16 DEF ClearAllUnfinishedTransactions
    <2>2. /\ keychain' = IF userid = NoUser THEN keychain ELSE DeleteAllModels(keychain, userid)
          /\ undelivered' = {t \in undelivered : sk'[t] = sk[t]}
          /\ UNCHANGED <<userid, judged>>
      BY <1>16 DEF ClearAllUnfinishedTransactions
    <2>3. \A t \in Txn : \/ sk'[t] = sk[t]
                         \/ sk[t] = "failed" /\ sk'[t] = "none"
                         \/ sk[t] = "purchased" /\ sk'[t] = "finished" /\ t \in cleared'
      BY <1>a, <2>1, FinishedType
    <2>4. /\ \A u \in User : keychain'[u] \subseteq keychain[u]
          /\ \A u \in User : u # userid => keychain'[u] = keychain[u]
      BY <1>a, <2>2, EmptyResult
    <2>5. \A u \in User, t \in Txn :
            Stored(keychain, u, t) /\ ~Stored(keychain', u, t) => t \in judged' \/ t \in cleared'
      <3> SUFFICES ASSUME NEW u \in User, NEW t \in Txn,
                          Stored(keychain, u, t), ~Stored(keychain', u, t)
                   PROVE  t \in judged' \/ t \in cleared'
        OBVIOUS
      <3>1. u = userid /\ userid # NoUser
        BY <1>a, <2>2, <2>4, NoUserAssumption DEF Stored
      <3>2. CASE sk[t] = "purchased"
        BY <2>1, <3>1, <3>2
      <3>3. CASE sk[t] = "finished"
        BY <2>1, <2>2, <3>3 DEF SafeInv, SafeState, NoPurchaseLost
      <3> QED
        BY <3>2, <3>3, SafeFacts
    <2>6. NoPurchaseLost'
      BY <2>1, <2>2, <2>3 DEF SafeInv, SafeState, NoPurchaseLost
    <2>7. DeliveredIsPersisted'
      BY <1>a, <2>1, <2>2, <2>3, <2>5 DEF SafeInv, SafeState, DeliveredIsPersisted
    <2>8. FlaggedWasJudged' /\ OneModelPerTransaction'
      BY <2>2, <2>4 DEF SafeInv, SafeState, FlaggedWasJudged, OneModelPerTransaction
    <2>9. StoredWasPaid'
      BY <1>b, <2>3, <2>4, SafeFacts DEF StoredWasPaid, Keychain
    <2> QED
      BY <2>5, <2>6, <2>7, <2>8, <2>9 DEF SafeNow, SafeState, ModelsLeft
  <1>17. ASSUME Logout \/ Terminate PROVE SafeNow
    BY <1>17, <1>a, GoneKeepsSafe DEF Logout, Terminate, ProcessGone
  <1>18. ASSUME CrashInsideWrite PROVE SafeNow
    <2>1. OneEach(keychain') /\ \A u \in User : keychain'[u] = {}
      BY <1>18, <1>a, EmptyResult DEF CrashInsideWrite, OneEach
    <2>2. VerifyManagerGone /\ userid' # userid /\ UNCHANGED <<sk, judged, cleared>>
      BY <1>18 DEF CrashInsideWrite, ProcessGone, VerifyManagerGone
    <2> QED
      BY <1>b, <2>1, <2>2, GoneKeepsSafe
  <1>19. ASSUME NEW t \in Txn, CrashBeforeFinish(t) PROVE SafeNow
    <2>1. VerifyManagerGone /\ userid' # userid /\ UNCHANGED <<sk, judged, cleared>>
      BY <1>19 DEF CrashBeforeFinish, ProcessGone, VerifyManagerGone
    <2>2. OneEach(keychain') /\ \A u \in User : keychain'[u] \subseteq keychain[u]
      BY <1>19, <1>a, DeleteModelResult, DeleteModelOneEach DEF CrashBeforeFinish
    <2> QED
      BY <1>b, <2>1, <2>2, GoneKeepsSafe
  <1>20. ASSUME NEW s \in Slot, CrashInVerdict(s) PROVE SafeNow
    <2> DEFINE t == requests[s].txn
    <2>1. requests[s] # NoRequest /\ VerifyManagerGone /\ cleared' = cleared
          /\ judged' = judged \cup {t}
      BY <1>20 DEF CrashInVerdict, Outstanding, ProcessGone
    <2>2. userid \in User /\ t \in Txn /\ userid' # userid
      BY <1>a, <1>d, <2>1, NoUserAssumption DEF VerifyManagerGone
    <2>3. PICK kc \in {keychain, SetValid(keychain, userid, t)} :
            FinishOrFlag(t, kc) /\ keychain' \in {kc, ItemRemoved}
      BY <1>20 DEF CrashInVerdict
    <2>4. \A x \in Txn : \/ sk'[x] = sk[x]
                         \/ sk[x] = "failed" /\ sk'[x] = "none"
                         \/ sk'[x] = "finished" /\ x \in judged'
      BY <1>a, <2>1, <2>3, FinishedType DEF FinishOrFlag
    <2>5. OneEach(kc) /\ SameTxns(kc, keychain)
          /\ \A v \in User : \A m \in kc[v] : m \in keychain[v] \/ m.txn = t
      <3>1. CASE kc = keychain
        BY <1>a, <1>c, <3>1
      <3>2. CASE kc = SetValid(keychain, userid, t)
        BY <1>a, <1>d, <2>1, <2>2, <3>2, SetValidResult, UpdatesOneEach
      <3> QED
        BY <2>3, <3>1, <3>2
    <2> HIDE DEF t
    <2>6. CASE keychain' = kc
      <3>1. \A v \in User, m \in Model : m \in keychain'[v] =>
              \/ m \in keychain[v]
              \/ m.txn \in judged' /\ Stored(keychain, v, m.txn) /\ m.txn \in Txn
        BY <2>1, <2>2, <2>5, <2>6 DEF SameTxns, Stored
      <3> QED
        BY <1>b, <2>1, <2>2, <2>4, <2>5, <2>6, <3>1, GoneKeepsSafe
    <2>7. CASE keychain' = ItemRemoved
      <3>1. OneEach(keychain') /\ \A u \in User : keychain'[u] = {}
        BY <1>a, <2>7, EmptyResult, <2>2 DEF OneEach
      <3> QED
        BY <1>b, <2>1, <2>2, <2>4, <3>1, GoneKeepsSafe
    <2> QED
      BY <2>3, <2>6, <2>7
  <1> QED
    BY <1>2, <1>3, <1>4, <1>5, <1>6, <1>7, <1>8, <1>9, <1>10, <1>11, <1>12, <1>13,
       <1>14, <1>15, <1>16, <1>17, <1>18, <1>19, <1>20 DEF Next

LEMMA SafeInvariant == Spec => []SafeInv
  <1>1. Init => SafeInv
    BY TypeInitially, SafeInitially DEF SafeInv
  <1>2. SafeInv /\ [Next]_vars => SafeInv'
    BY TypeStep, QuietStep, SafeStep DEF SafeInv, TypeInv, SafeNow
  <1> QED
    BY <1>1, <1>2, PTL DEF Spec

\* No purchase is lost, whatever crashes, logouts, hidden listings and
\* network changes do: no handler finishes a paid transaction with StoreKit
\* before the client has acted on the server's verdict on it.
THEOREM PurchasesAreNeverLost == Spec => []NoPurchaseLost
  <1>1. SafeInv => NoPurchaseLost
    BY DEF SafeInv, SafeState
  <1> QED
    BY SafeInvariant, <1>1, PTL

\* Only transactions the server has answered for are flagged, so that a
\* redelivered transaction is never finished unverified by mistake.
THEOREM FlagsAreVerdicts == Spec => []FlaggedWasJudged
  <1>1. SafeInv => FlaggedWasJudged
    BY DEF SafeInv, SafeState
  <1> QED
    BY SafeInvariant, <1>1, PTL

\* A purchase delivered to a logged-in user's observer is in the keychain of
\* that user until its verdict.
THEOREM DeliveriesArePersisted == Spec => []DeliveredIsPersisted
  <1>1. SafeInv => DeliveredIsPersisted
    BY DEF SafeInv, SafeState
  <1> QED
    BY SafeInvariant, <1>1, PTL

\* A transaction has at most one model in a user's keychain, which the
\* searches by transaction identifier rely on.
THEOREM ModelsAreUnique == Spec => []OneModelPerTransaction
  <1>1. SafeInv => OneModelPerTransaction
    BY DEF SafeInv, SafeState
  <1> QED
    BY SafeInvariant, <1>1, PTL

\* While its user stays logged in, a model leaves the keychain only with the
\* verdict on its transaction, or by the clear-all notification.
THEOREM ModelsWaitForVerdicts == Spec => ModelsLeaveWithVerdict
  <1>1. SafeInv /\ [Next]_vars => [ModelsLeft]_vars
    BY TypeStep, SafeStep DEF SafeInv, SafeNow
  <1> QED
    BY SafeInvariant, <1>1, PTL DEF Spec, ModelsLeaveWithVerdict
-----------------------------------------------------------------------------
(* One transaction is verified at a time.  Every start detaches what is on *)
(* the wire before it sends anything; a delayed start, which detaches      *)
(* nothing, sends for the task that is current by then.                    *)

\* Requests rq that were not cancelled are for task c.
AttachedTo(rq, c) ==
  \A s \in Slot : rq[s] # NoRequest /\ rq[s].attached
                    => c # NoTask /\ c.txn = rq[s].txn

LEMMA AttachedToCurrent == OneTransactionAtATime <=> AttachedTo(requests, current)
  BY DEF OneTransactionAtATime, AttachedTo, IsCurrent

LEMMA NothingAttached ==
  ASSUME NEW rq \in Requests, NEW c
  PROVE  AttachedTo(Detached(rq), c)
  <1>1. ASSUME NEW s \in Slot, rq[s] # NoRequest
        PROVE  [rq[s] EXCEPT !.attached = FALSE].attached = FALSE
    BY <1>1 DEF Requests, Request
  <1> QED
    BY <1>1 DEF Detached, AttachedTo

LEMMA StartTaskAttached ==
  ASSUME NEW t \in Task, NEW rq \in Requests, AttachedTo(rq, t), StartTask(t, rq)
  PROVE  AttachedTo(requests', current')
  <1>1. CASE t.state = "Cancel"
    BY <1>1 DEF StartTask
  <1>2. CASE t.state # "Cancel"
    <2>1. PICK s \in Slot :
            /\ current' = [t EXCEPT !.state = "WaitingForServersResponse"]
            /\ requests' = [rq EXCEPT ![s] = RequestOf(t)]
      BY <1>2 DEF StartTask
    <2>2. current' \in Task /\ current'.txn = t.txn
      BY <2>1 DEF Task, TaskState
    <2>3. current' # NoTask
      BY <2>2, NoTaskAssumption
    <2>4. \A x \in Slot : requests'[x] = IF x = s THEN RequestOf(t) ELSE rq[x]
      BY <2>1 DEF Requests
    <2> QED
      BY <2>2, <2>3, <2>4, RequestOfType DEF AttachedTo
  <1> QED
    BY <1>1, <1>2

LEMMA StartVerifyingAttached ==
  ASSUME NEW kc \in Keychain, NEW u \in User, NEW rc \in Receipt, NEW cur,
         NEW rq \in Requests, StartVerifying(u, kc, rc, cur, rq)
  PROVE  AttachedTo(requests', current')
  <1>1. CASE queue' = {} \/ reach' # "Reachable"
    BY <1>1, NothingAttached DEF StartVerifying
  <1>2. CASE ~(queue' = {} \/ reach' # "Reachable")
    <2>1. PICK m \in Firsts(kc[u]) : StartModel(m, rc, Detached(rq))
      BY <1>2 DEF StartVerifying
    <2>2. NewTask(m, rc) \in Task /\ Detached(rq) \in Requests
      BY PlannedQueueType, NewTaskType, DetachedType DEF Keychain
    <2>3. AttachedTo(Detached(rq), NewTask(m, rc))
      BY NothingAttached
    <2>4. CASE m.count > 0
      BY <2>1, <2>3, <2>4 DEF StartModel
    <2>5. CASE ~(m.count > 0)
      BY <2>1, <2>2, <2>3, <2>5, StartTaskAttached DEF StartModel
    <2> QED
      BY <2>4, <2>5
  <1> QED
    BY <1>1, <1>2

LEMMA RefreshReceiptDataAttached ==
  ASSUME requests \in Requests, NEW u, NEW rc, RefreshReceiptData(u, rc),
         AttachedTo(requests, current)
  PROVE  AttachedTo(requests', current')
  BY NothingAttached DEF RefreshReceiptData

LEMMA AppendAttached ==
  ASSUME TypeOK, AttachedTo(requests, current), NEW u \in User, NEW rc \in Receipt, NEW q,
         CheckUnfinished(u, rc, q)
  PROVE  AttachedTo(requests', current')
  <1>1. keychain \in Keychain /\ requests \in Requests
    BY VMTypeParts DEF TypeOK, TasksTypeOK
  <1>2. PICK T \in SUBSET Txn : Append(u, T, rc, q)
    BY DEF CheckUnfinished, Listings, Unfinished
  <1>3. CASE Fresh(u, T) = {} \/ current # NoTask
    BY <1>2, <1>3 DEF Append
  <1>4. CASE ~(Fresh(u, T) = {} \/ current # NoTask)
    <2>1. PICK S \in {T} \cup {{t} : t \in Fresh(u, T)} :
            StartVerifying(u, Saved(u, S), rc, NoTask, requests)
      BY <1>2, <1>4 DEF Append
    <2>2. Saved(u, S) \in Keychain
      BY <1>1, <2>1, SavedType DEF Fresh
    <2> QED
      BY <1>1, <2>1, <2>2, StartVerifyingAttached
  <1> QED
    BY <1>3, <1>4

LEMMA AttachedStep ==
  ASSUME TypeInv, TypeOK', OneTransactionAtATime, [Next]_vars
  PROVE  OneTransactionAtATime'
  <1>a. /\ userid \in User \cup {NoUser} /\ keychain \in Keychain
        /\ receipt \in Receipt /\ device \in Receipt
        /\ current \in MaybeTask /\ requests \in Requests
    BY VMTypeParts DEF TypeInv, TypeOK, TasksTypeOK
  <1>b. keychain' \in Keychain /\ receipt' \in Receipt /\ device' \in Receipt
    BY DEF TypeOK, VMTypeOK, Keychain
  <1>c. AttachedTo(requests, current)
    BY AttachedToCurrent
  <1>d. SUFFICES AttachedTo(requests', current')
    BY DEF OneTransactionAtATime, AttachedTo, IsCurrent
  <1>e. CASE UNCHANGED <<current, requests>>
    BY <1>c, <1>e
  <1>f. CASE VerifyManagerGone
    BY <1>f DEF VerifyManagerGone, AttachedTo
  \* An answer, after which the verification goes on from the next state.
  <1>g. ASSUME NEW s \in Slot, requests[s] # NoRequest
        PROVE  userid \in User /\ Answered(s) \in Requests
    BY <1>a, <1>g, AnsweredType DEF TypeInv, LoggedOutIsQuiet
  <1>h. ASSUME NEW s \in Slot, requests[s] # NoRequest, NEW cur \in {NoTask, current},
               StartVerifying(userid, keychain', receipt', cur, Answered(s))
        PROVE  AttachedTo(requests', current')
    BY <1>a, <1>b, <1>g, <1>h, StartVerifyingAttached
  <1>1. ASSUME NEW u \in User, Login(u) PROVE AttachedTo(requests', current')
    BY <1>1, <1>a, <1>c, AppendAttached DEF Login, TypeInv
  <1>2. ASSUME WillEnterForeground PROVE AttachedTo(requests', current')
    <2>1. CASE userid = NoUser
      BY <1>2, <1>e, <2>1 DEF WillEnterForeground, vmVars
    <2>2. CASE userid # NoUser
      BY <1>2, <1>a, <1>c, <2>2, AppendAttached DEF WillEnterForeground, TypeInv
    <2> QED
      BY <2>1, <2>2
  <1>3. ASSUME NEW t \in Txn, TransactionPurchased(t) PROVE AttachedTo(requests', current')
    <2>1. CASE RefreshReceiptData(userid, device)
      BY <1>a, <1>c, <2>1, RefreshReceiptDataAttached
    <2>2. CASE StartVerifying(userid, keychain', receipt', NoTask, requests)
      BY <1>3, <1>a, <1>b, <2>2, StartVerifyingAttached DEF TransactionPurchased
    <2> QED
      BY <1>3, <2>1, <2>2 DEF TransactionPurchased
  <1>4. ASSUME NEW kind \in {"products", "receipt"}, RequestDidFinish(kind)
        PROVE  AttachedTo(requests', current')
    <2>1. CASE userid = NoUser
      BY <1>4, <1>e, <2>1 DEF RequestDidFinish, vmVars
    <2>2. CASE userid # NoUser
      BY <1>4, <1>a, <1>c, <2>2, RefreshReceiptDataAttached DEF RequestDidFinish
    <2> QED
      BY <2>1, <2>2
  <1>5. ASSUME NEW s \in Slot, OrderCreated(s) PROVE AttachedTo(requests', current')
    <2>1. requests[s] # NoRequest /\ UNCHANGED receipt
      BY <1>5 DEF OrderCreated, CreateOrderResponse, Outstanding
    <2>2. \E cur \in {NoTask, current} :
            StartVerifying(userid, keychain', receipt', cur, Answered(s))
      BY <1>5, <2>1 DEF OrderCreated, CreateOrderResponse
    <2> QED
      BY <1>h, <2>1, <2>2
  <1>6. ASSUME NEW s \in Slot, OrderFailed(s) PROVE AttachedTo(requests', current')
    <2>1. requests[s] # NoRequest /\ UNCHANGED <<keychain, receipt>>
      BY <1>6 DEF OrderFailed, CreateOrderRequestFailed, Outstanding
    <2>2. \E cur \in {NoTask, current} :
            StartVerifying(userid, keychain', receipt', cur, Answered(s))
      BY <1>6, <2>1 DEF OrderFailed, CreateOrderRequestFailed
    <2> QED
      BY <1>h, <2>1, <2>2
  <1>7. ASSUME NEW s \in Slot, ReceiptVerdict(s) PROVE AttachedTo(requests', current')
    <2>1. requests[s] # NoRequest
      BY <1>7 DEF ReceiptVerdict, Outstanding
    <2>2. \E cur \in {NoTask, current} :
            StartVerifying(userid, keychain', receipt', cur, Answered(s))
      BY <1>7 DEF ReceiptVerdict, ReceiptVerdictForCurrent, ReceiptVerdictForOther
    <2> QED
      BY <1>h, <2>1, <2>2
  <1>8. ASSUME NEW s \in Slot, UploadFailed(s) PROVE AttachedTo(requests', current')
    <2>1. requests[s] # NoRequest
      BY <1>8 DEF UploadFailed, UploadCertificateRequestFailed, Outstanding
    <2>2. \E cur \in {NoTask, current} :
            StartVerifying(userid, keychain', receipt', cur, Answered(s))
      BY <1>8 DEF UploadFailed, UploadCertificateRequestFailed
    <2> QED
      BY <1>h, <2>1, <2>2
  <1>9. ASSUME NEW s \in Slot, Dropped(s) PROVE AttachedTo(requests', current')
    BY <1>9, <1>a, <1>c, AnsweredType DEF Dropped, RequestDropped, AttachedTo
  <1>10. ASSUME NEW status \in {"NotReachable", "Reachable"}, NetworkChanged(status)
         PROVE  AttachedTo(requests', current')
    <2>1. userid \in User /\ ReachabilityChanged(status)
      BY <1>10, <1>a DEF NetworkChanged, ReachabilityChanged
    <2> QED
      BY <1>a, <1>e, <2>1, StartVerifyingAttached DEF ReachabilityChanged
  <1>11. ASSUME StartDelayed PROVE AttachedTo(requests', current')
    <2>1. CASE current = NoTask
      BY <1>11, <1>e, <2>1 DEF StartDelayed, DelayedStart
    <2>2. CASE current # NoTask
      BY <1>11, <1>a, <1>c, <2>2, StartTaskAttached DEF StartDelayed, DelayedStart, MaybeTask
    <2> QED
      BY <2>1, <2>2
  <1>12. ASSUME \/ \E t \in Txn : \/ BuyProduct(t) \/ StoreKitPurchased(t)
                                  \/ StoreKitFailed(t) \/ TransactionFailed(t)
                \/ FetchProductInfo \/ ClearAllUnfinishedTransactions \/ UNCHANGED vars
         PROVE  UNCHANGED <<current, requests>>
    BY <1>12 DEF BuyProduct, StoreKitPurchased, StoreKitFailed, TransactionFailed,
                 FetchProductInfo, ClearAllUnfinishedTransactions, vmVars, vars
  <1>13. ASSUME \/ \E t \in Txn : CrashBeforeFinish(t)
                \/ \E s \in Slot : CrashInVerdict(s)
                \/ Logout \/ Terminate \/ CrashInsideWrite
         PROVE  VerifyManagerGone
    BY <1>13 DEF CrashBeforeFinish, CrashInVerdict, Logout, Terminate, CrashInsideWrite,
                 ProcessGone
  <1> QED
    BY <1>e, <1>f, <1>1, <1>2, <1>3, <1>4, <1>5, <1>6, <1>7, <1>8, <1>9, <1>10, <1>11,
       <1>12, <1>13 DEF Next

\* Whatever is on the wire without having been cancelled is for the current
\* task: after any refresh, answer, change of the network or delayed start,
\* one transaction at most is being verified.
THEOREM OneIsVerified == Spec => []OneTransactionAtATime
  <1>1. Init => OneTransactionAtATime
    BY DEF Init, VMInit, OneTransactionAtATime
  <1>2. TypeInv /\ TypeInv' /\ OneTransactionAtATime /\ [Next]_vars => OneTransactionAtATime'
    BY AttachedStep DEF TypeInv
  <1>3. TypeInv /\ [Next]_vars => TypeInv'
    BY TypeStep, QuietStep DEF TypeInv
  <1> QED
    BY TypeInitially, <1>1, <1>2, <1>3, PTL DEF Spec
=============================================================================
