----------------------- MODULE BLPaymentLedger_proofs -----------------------
(***************************************************************************)
(* The in-app purchase client implements the ledger of PaymentLedger.      *)
(*                                                                         *)
(* The ledger is judged only for what was paid, so the invariant of        *)
(* BLPaymentManager_proofs is strengthened once more: StoreKit, the        *)
(* receipt, the tasks and the requests agree on what is paid (PaidInv).    *)
(* The second part proves, with UploadInv on top, that a receipt is only   *)
(* uploaded for a transaction it contains.                                 *)
(***************************************************************************)
EXTENDS BLPaymentManager_proofs

PaidTxns == {t \in Txn : sk[t] \in {"purchased", "finished"}}

\* The current task and the requests are of transactions in P ...
TasksOf(P) ==
  /\ current # NoTask => current.txn \in P
  /\ \A s \in Slot : requests[s] # NoRequest => requests[s].txn \in P

\* ... and so they are after the step.
NextTasksOf(P) ==
  /\ current' # NoTask => current'.txn \in P
  /\ \A s \in Slot : requests'[s] # NoRequest => requests'[s].txn \in P

PaidInv ==
  /\ \A t \in Txn : t \in PaidTxns <=> paidAt[t] # NoReceipt
  /\ judged \subseteq PaidTxns
  /\ cleared \subseteq PaidTxns
  /\ TasksOf(PaidTxns)

LedgerInv == SafeInv /\ PaidInv

-----------------------------------------------------------------------------
(* Tasks and requests are of persisted, hence of paid transactions *)

LEMMA StartTaskTxns ==
  ASSUME NEW t \in Task, NEW rq \in Requests, StartTask(t, rq), NEW P,
         t.txn \in P, \A s \in Slot : rq[s] # NoRequest => rq[s].txn \in P
  PROVE  NextTasksOf(P)
  <1>1. CASE t.state = "Cancel"
    BY <1>1 DEF StartTask, NextTasksOf
  <1>2. CASE t.state # "Cancel"
    <2>1. PICK s \in Slot :
            /\ current' = [t EXCEPT !.state = "WaitingForServersResponse"]
            /\ requests' = [rq EXCEPT ![s] = RequestOf(t)]
      BY <1>2 DEF StartTask
    <2>2. current'.txn = t.txn
      BY <2>1 DEF Task
    <2>3. \A x \in Slot : requests'[x] = IF x = s THEN RequestOf(t) ELSE rq[x]
      BY <2>1 DEF Requests
    <2> QED
      BY <2>2, <2>3, RequestOfType DEF NextTasksOf
  <1> QED
    BY <1>1, <1>2

LEMMA StartVerifyingTxns ==
  ASSUME NEW kc \in Keychain, NEW u \in User, NEW rc \in Receipt,
         NEW cur \in MaybeTask, NEW rq \in Requests,
         StartVerifying(u, kc, rc, cur, rq), NEW P,
         \A m \in Model : m \in kc[u] => m.txn \in P,
         cur # NoTask => cur.txn \in P,
         \A s \in Slot : rq[s] # NoRequest => rq[s].txn \in P
  PROVE  NextTasksOf(P)
  <1>1. CASE queue' = {} \/ reach' # "Reachable"
    BY <1>1, CancelTaskType, DetachedType DEF StartVerifying, NextTasksOf
  <1>2. CASE ~(queue' = {} \/ reach' # "Reachable")
    <2>1. PICK m \in Firsts(kc[u]) : StartModel(m, rc, Detached(rq))
      BY <1>2 DEF StartVerifying
    <2>2. m \in Model /\ m \in kc[u]
      BY PlannedQueueType DEF Keychain
    <2>3. NewTask(m, rc) \in Task /\ NewTask(m, rc).txn \in P
      BY <2>2, NewTaskType
    <2>4. /\ Detached(rq) \in Requests
          /\ \A s \in Slot : Detached(rq)[s] # NoRequest => Detached(rq)[s].txn \in P
      BY DetachedType
    <2>5. CASE m.count > 0
      BY <2>1, <2>3, <2>4, <2>5 DEF StartModel, NextTasksOf
    <2>6. CASE ~(m.count > 0)
      BY <2>1, <2>3, <2>4, <2>6, StartTaskTxns DEF StartModel
    <2> QED
      BY <2>5, <2>6
  <1> QED
    BY <1>1, <1>2

LEMMA RefreshReceiptDataTxns ==
  ASSUME current \in MaybeTask, requests \in Requests, NEW u, NEW rc,
         RefreshReceiptData(u, rc), NEW P, TasksOf(P)
  PROVE  NextTasksOf(P)
  BY CancelTaskType, DetachedType DEF RefreshReceiptData, TasksOf, NextTasksOf

\* What the steps below use of the invariant.
LEMMA PaidFacts ==
  ASSUME LedgerInv
  PROVE  /\ keychain \in Keychain /\ sk \in [Txn -> StoreKitState]
         /\ OneEach(keychain)
         /\ userid \in User \cup {NoUser} /\ receipt \in Receipt /\ device \in Receipt
         /\ current \in MaybeTask /\ NoTask \in MaybeTask /\ requests \in Requests
         /\ \A u \in User, m \in Model : m \in keychain[u] => m.txn \in PaidTxns
         /\ \A u \in User, t \in Txn : Stored(keychain, u, t) => t \in PaidTxns
         /\ TasksOf(PaidTxns)
  BY SafeFacts, VMTypeParts
     DEF LedgerInv, PaidInv, PaidTxns, SafeInv, TypeInv, TypeOK, TasksTypeOK, MaybeTask

LEMMA AppendTxns ==
  ASSUME LedgerInv, NEW u \in User, NEW T \in SUBSET Txn, NEW rc \in Receipt, NEW q,
         Append(u, T, rc, q)
  PROVE  NextTasksOf(PaidTxns)
  <1>1. CASE Fresh(u, T) = {} \/ current # NoTask
    BY <1>1, PaidFacts DEF Append, TasksOf, NextTasksOf
  <1>2. CASE ~(Fresh(u, T) = {} \/ current # NoTask)
    <2>1. PICK t \in Fresh(u, T) :
            StartVerifying(u,
              IF rc # NoReceipt /\ reach' = "Reachable" THEN Saved(u, {t})
                                                       ELSE Saved(u, T),
              rc, NoTask, requests)
      BY <1>2 DEF Append
    <2>2. PICK W \in SUBSET Txn : StartVerifying(u, Saved(u, W), rc, NoTask, requests)
      <3>1. {t} \in SUBSET Txn
        BY DEF Fresh
      <3>2. CASE rc # NoReceipt /\ reach' = "Reachable"
        BY <2>1, <3>1, <3>2
      <3>3. CASE ~(rc # NoReceipt /\ reach' = "Reachable")
        BY <2>1, <3>3
      <3> QED
        BY <3>2, <3>3
    <2>3. /\ Saved(u, W) \in Keychain
          /\ \A m \in Model : m \in Saved(u, W)[u] => m.txn \in PaidTxns
      BY PaidFacts, SavedResult DEF PaidTxns, Model
    <2> QED
      BY <2>2, <2>3, PaidFacts, StartVerifyingTxns DEF TasksOf
  <1> QED
    BY <1>1, <1>2

LEMMA CheckUnfinishedTxns ==
  ASSUME LedgerInv, NEW u \in User, NEW rc \in Receipt, NEW q, CheckUnfinished(u, rc, q)
  PROVE  NextTasksOf(PaidTxns)
  <1>1. \A listed \in Listings : listed \in SUBSET Txn
    BY DEF Listings, Unfinished
  <1> QED
    BY <1>1, AppendTxns DEF CheckUnfinished

-----------------------------------------------------------------------------
(* What a step may do to a transaction's history *)

Paid == {"purchased", "finished"}

\* StoreKit's view of x stays, or x is unpaid before and after.
Kept(x) == sk'[x] = sk[x] \/ (sk[x] \notin Paid /\ sk'[x] \notin Paid)

Quiet == UNCHANGED <<paidAt, judged, cleared>> /\ \A x \in Txn : Kept(x)

Pays(t) ==
  /\ UNCHANGED <<judged, cleared>>
  /\ sk[t] \notin Paid /\ sk'[t] = "purchased" /\ paidAt'[t] # NoReceipt
  /\ \A x \in Txn : x # t => Kept(x) /\ paidAt'[x] = paidAt[x]

Judges(t) ==
  /\ UNCHANGED <<paidAt, cleared>>
  /\ t \in PaidTxns /\ judged' = judged \cup {t}
  /\ sk'[t] \in {sk[t], "finished"}
  /\ \A x \in Txn : x # t => Kept(x)

Closes(t) ==
  /\ UNCHANGED <<paidAt, judged, cleared>>
  /\ t \in judged /\ sk[t] = "purchased" /\ sk'[t] = "finished"
  /\ \A x \in Txn : x # t => Kept(x)

WritesOff(S) ==
  /\ UNCHANGED <<paidAt, judged>>
  /\ S \subseteq {t \in Txn : sk[t] = "purchased"} /\ cleared' = cleared \cup S
  /\ \A x \in Txn : Kept(x) \/ (x \in S /\ sk'[x] = "finished")

HistoryStep ==
  \/ Quiet
  \/ \E t \in Txn : Pays(t) \/ Judges(t) \/ Closes(t)
  \/ \E S \in SUBSET Txn : WritesOff(S)

LEMMA FinishedKeeps ==
  ASSUME sk \in [Txn -> StoreKitState], NEW F, sk' = Finished(F), NEW x \in Txn
  PROVE  Kept(x) \/ (x \in F /\ sk[x] = "purchased" /\ sk'[x] = "finished")
  BY FinishedType DEF Kept, Paid

\* checkUnfinishedTransactionInSandbox closes at most one transaction.
LEMMA CheckUnfinishedHistory ==
  ASSUME LedgerInv, UNCHANGED <<paidAt, judged, cleared>>, NEW u \in User, NEW rc, NEW q,
         CheckUnfinished(u, rc, q)
  PROVE  HistoryStep
  <1>1. PICK listed \in Listings :
          LET marked == {t \in listed : sk[t] = "purchased" /\ FlaggedValid(keychain, u, t)}
              unpaid(T) == {t \in T : sk[t] = "failed"}
          IN \/ /\ marked = {}
                /\ keychain' = Saved(u, listed)
                /\ sk' = Finished(unpaid(listed))
                /\ Append(u, listed, rc, q)
             \/ \E t \in marked, seen \in SUBSET (listed \ marked) :
                  /\ keychain' = DeleteModel(Saved(u, seen), u, t)
                  /\ sk' = Finished(unpaid(seen) \cup {t})
                  /\ Append(u, seen, rc, q)
    BY DEF CheckUnfinished
  <1>2. CASE sk' = Finished({x \in listed : sk[x] = "failed"})
    BY <1>2, PaidFacts, FinishedKeeps DEF HistoryStep, Quiet
  <1>3. ASSUME NEW t \in listed, NEW seen \in SUBSET listed,
               sk[t] = "purchased", FlaggedValid(keychain, u, t),
               sk' = Finished({x \in seen : sk[x] = "failed"} \cup {t})
        PROVE  HistoryStep
    <2>1. t \in Txn /\ t \in judged
      BY <1>3, SafeFacts DEF Listings, Unfinished, LedgerInv
    <2>2. sk'[t] = "finished"
      BY <1>3, <2>1 DEF Finished
    <2>3. ASSUME NEW x \in Txn, x # t PROVE Kept(x)
      BY <1>3, <2>3, PaidFacts, FinishedKeeps
    <2> QED
      BY <1>3, <2>1, <2>2, <2>3 DEF HistoryStep, Closes
  <1> QED
    BY <1>1, <1>2, <1>3

\* The verdict on t: its transaction is finished, or flagged.
LEMMA VerdictHistory ==
  ASSUME LedgerInv, NEW s \in Slot, requests[s] # NoRequest, NEW kc,
         FinishOrFlag(requests[s].txn, kc), UNCHANGED <<paidAt, cleared>>,
         judged' = judged \cup {requests[s].txn}
  PROVE  HistoryStep
  <1> DEFINE t == requests[s].txn
  <1>1. t \in PaidTxns /\ t \in Txn
    BY PaidFacts DEF TasksOf, PaidTxns
  <1>2. sk' = sk \/ sk' = Finished({t})
    BY DEF FinishOrFlag
  <1>3. sk'[t] \in {sk[t], "finished"} /\ \A x \in Txn : x # t => Kept(x)
    BY <1>1, <1>2, PaidFacts, FinishedType DEF Kept, PaidTxns
  <1> QED
    BY <1>1, <1>3 DEF HistoryStep, Judges

LEMMA HistoryOfStep == LedgerInv /\ [Next]_vars => HistoryStep
  <1> SUFFICES ASSUME LedgerInv, [Next]_vars PROVE HistoryStep
    OBVIOUS
  <1>a. sk \in [Txn -> StoreKitState] /\ userid \in User \cup {NoUser}
    BY PaidFacts
  <1>b. paidAt \in [Txn -> Receipt]
    BY DEF LedgerInv, SafeInv, TypeInv, TypeOK
  <1>1. ASSUME UNCHANGED <<sk, paidAt, judged, cleared>> PROVE HistoryStep
    BY <1>1 DEF HistoryStep, Quiet, Kept
  <1>2. ASSUME NEW u \in User, Login(u) PROVE HistoryStep
    BY <1>2, CheckUnfinishedHistory DEF Login
  <1>3. ASSUME NEW t \in Txn, BuyProduct(t) PROVE HistoryStep
    BY <1>3, <1>a DEF BuyProduct, HistoryStep, Quiet, Kept, Paid
  <1>4. ASSUME NEW t \in Txn, StoreKitPurchased(t) PROVE HistoryStep
    BY <1>4, <1>a, <1>b DEF StoreKitPurchased, HistoryStep, Pays, Kept, Paid
  <1>5. ASSUME NEW t \in Txn, StoreKitFailed(t) PROVE HistoryStep
    BY <1>5, <1>a DEF StoreKitFailed, HistoryStep, Quiet, Kept, Paid
  <1>6. ASSUME NEW t \in Txn, TransactionFailed(t) PROVE HistoryStep
    <2>1. \A x \in Txn : Kept(x)
      BY <1>6, <1>a, FinishedKeeps DEF TransactionFailed
    <2> QED
      BY <1>6, <2>1 DEF TransactionFailed, HistoryStep, Quiet
  <1>7. ASSUME NEW t \in Txn, TransactionPurchased(t) PROVE HistoryStep
    <2>1. CASE UNCHANGED sk
      BY <1>1, <1>7, <2>1 DEF TransactionPurchased
    <2>2. CASE FlaggedValid(keychain, userid, t) /\ sk' = Finished({t})
      <3>1. t \in judged
        BY <1>7, <1>a, <2>2, SafeFacts DEF TransactionPurchased, LedgerInv
      <3>2. sk'[t] = "finished" /\ \A x \in Txn : x # t => Kept(x)
        BY <1>7, <1>a, <2>2, FinishedKeeps DEF TransactionPurchased, Finished
      <3> QED
        BY <1>7, <3>1, <3>2 DEF TransactionPurchased, HistoryStep, Closes
    <2> QED
      BY <1>7, <2>1, <2>2 DEF TransactionPurchased
  <1>8. ASSUME NEW s \in Slot, ReceiptVerdict(s) PROVE HistoryStep
    <2>1. CASE IsCurrent(requests[s])
      BY <1>8, <2>1, VerdictHistory DEF ReceiptVerdict, Outstanding
    <2>2. CASE ~IsCurrent(requests[s])
      BY <1>1, <1>8, <2>2 DEF ReceiptVerdict
    <2> QED
      BY <2>1, <2>2
  <1>9. ASSUME NEW s \in Slot,
               OrderCreated(s) \/ OrderFailed(s) \/ UploadFailed(s) \/ Dropped(s)
        PROVE  HistoryStep
    BY <1>1, <1>9 DEF OrderCreated, OrderFailed, UploadFailed, Dropped, VerifyManagerAlone
  <1>10. ASSUME NEW s \in Slot, CrashInVerdict(s) PROVE HistoryStep
    BY <1>10, VerdictHistory DEF CrashInVerdict, Outstanding, ProcessGone
  <1>11. ASSUME \/ \E t \in Txn : CrashBeforeFinish(t)
                \/ Terminate \/ CrashInsideWrite \/ Logout
         PROVE  HistoryStep
    BY <1>1, <1>11 DEF CrashBeforeFinish, Terminate, CrashInsideWrite, Logout, ProcessGone
  <1>12. ASSUME \/ \E status \in {"NotReachable", "Reachable"} : NetworkChanged(status)
                \/ \E kind \in {"products", "receipt"} : RequestDidFinish(kind)
                \/ StartDelayed \/ FetchProductInfo \/ UNCHANGED vars
         PROVE  HistoryStep
    BY <1>1, <1>12 DEF NetworkChanged, RequestDidFinish, StartDelayed, FetchProductInfo,
                       VerifyManagerAlone, vars
  <1>13. ASSUME WillEnterForeground PROVE HistoryStep
    <2>1. CASE userid # NoUser
      BY <1>13, <1>a, <2>1, CheckUnfinishedHistory DEF WillEnterForeground
    <2>2. CASE userid = NoUser
      <3>1. PICK listed \in Listings : sk' = Finished({t \in listed : sk[t] = "failed"})
        BY <1>13, <2>2 DEF WillEnterForeground
      <3>2. \A x \in Txn : Kept(x)
        BY <1>a, <3>1, FinishedKeeps
      <3> QED
        BY <1>13, <3>2 DEF WillEnterForeground, HistoryStep, Quiet
    <2> QED
      BY <2>1, <2>2
  <1>14. ASSUME ClearAllUnfinishedTransactions PROVE HistoryStep
    <2> DEFINE S == {t \in Txn : /\ sk[t] = "purchased"
                                 /\ \/ sk'[t] = "finished"
                                    \/ userid # NoUser /\ Stored(keychain, userid, t)}
    <2>1. PICK listed \in Listings : sk' = Finished(listed) /\ cleared' = cleared \cup S
      BY <1>14 DEF ClearAllUnfinishedTransactions
    <2>2. \A x \in Txn : Kept(x) \/ (x \in S /\ sk'[x] = "finished")
      BY <1>a, <2>1, FinishedKeeps
    <2>3. WritesOff(S)
      BY <1>14, <2>1, <2>2 DEF ClearAllUnfinishedTransactions, WritesOff
    <2> QED
      BY <2>3 DEF HistoryStep
  <1> QED
    BY <1>2, <1>3, <1>4, <1>5, <1>6, <1>7, <1>8, <1>9, <1>10, <1>11, <1>12, <1>13, <1>14
       DEF Next

-----------------------------------------------------------------------------
(* PaidInv is an invariant *)

LEMMA TasksStep == LedgerInv /\ TypeOK' /\ [Next]_vars => NextTasksOf(PaidTxns)
  <1> SUFFICES ASSUME LedgerInv, TypeOK', [Next]_vars PROVE NextTasksOf(PaidTxns)
    OBVIOUS
  <1>a. /\ keychain \in Keychain /\ OneEach(keychain)
        /\ userid \in User \cup {NoUser} /\ receipt \in Receipt /\ device \in Receipt
        /\ current \in MaybeTask /\ NoTask \in MaybeTask /\ requests \in Requests
        /\ \A u \in User, m \in Model : m \in keychain[u] => m.txn \in PaidTxns
        /\ \A u \in User, t \in Txn : Stored(keychain, u, t) => t \in PaidTxns
        /\ TasksOf(PaidTxns)
    BY PaidFacts
  <1>b. keychain' \in Keychain /\ receipt' \in Receipt /\ device' \in Receipt
    BY DEF TypeOK, VMTypeOK, Keychain
  <1>c. ASSUME NEW s \in Slot, requests[s] # NoRequest
        PROVE  /\ userid \in User
               /\ requests[s].txn \in Txn /\ requests[s].count \in VerifyCount
               /\ requests[s].rcpt \in Receipt /\ Answered(s) \in Requests
               /\ \A x \in Slot : Answered(s)[x] # NoRequest => Answered(s)[x].txn \in PaidTxns
    BY <1>a, <1>c, AnsweredType
       DEF Requests, Request, LedgerInv, SafeInv, TypeInv, LoggedOutIsQuiet, TasksOf
  \* An answer, after which the verification goes on from keychain kc.
  <1>d. ASSUME NEW s \in Slot, requests[s] # NoRequest, NEW kc \in Keychain,
               \A m \in Model : m \in kc[userid] => m.txn \in PaidTxns,
               NEW rc \in Receipt, NEW cur \in {NoTask, current},
               StartVerifying(userid, kc, rc, cur, Answered(s))
        PROVE  NextTasksOf(PaidTxns)
    BY <1>a, <1>c, <1>d, StartVerifyingTxns DEF TasksOf
  <1>e. ASSUME NEW kc \in Keychain, SameTxns(kc, keychain)
        PROVE  \A u \in User, m \in Model : m \in kc[u] => m.txn \in PaidTxns
    BY <1>a, <1>e DEF SameTxns, Stored, Model
  <1>1. ASSUME UNCHANGED <<current, requests>> PROVE NextTasksOf(PaidTxns)
    BY <1>1, <1>a DEF TasksOf, NextTasksOf
  <1>2. ASSUME VerifyManagerGone PROVE NextTasksOf(PaidTxns)
    BY <1>2 DEF VerifyManagerGone, NextTasksOf
  <1>3. ASSUME NEW u \in User, Login(u) PROVE NextTasksOf(PaidTxns)
    BY <1>3, <1>a, CheckUnfinishedTxns DEF Login
  <1>4. ASSUME NEW t \in Txn, TransactionPurchased(t) PROVE NextTasksOf(PaidTxns)
    <2>1. CASE RefreshReceiptData(userid, device)
      BY <1>a, <2>1, RefreshReceiptDataTxns
    <2>2. CASE /\ keychain' = Saved(userid, {t})
               /\ StartVerifying(userid, keychain', receipt', NoTask, requests)
      <3>1. userid \in User /\ {t} \in SUBSET Txn
        BY <1>4, <1>a DEF TransactionPurchased
      <3>2. \A m \in Model : m \in keychain'[userid] => m.txn \in PaidTxns
        BY <1>a, <2>2, <3>1, SavedResult DEF PaidTxns, Model
      <3> QED
        BY <1>a, <1>b, <2>2, <3>1, <3>2, StartVerifyingTxns DEF TasksOf
    <2> QED
      BY <1>4, <2>1, <2>2 DEF TransactionPurchased
  <1>5. ASSUME NEW s \in Slot, OrderCreated(s) PROVE NextTasksOf(PaidTxns)
    <2>1. requests[s] # NoRequest /\ CreateOrderResponse(s)
      BY <1>5 DEF OrderCreated, CreateOrderResponse, Outstanding
    <2>2. SameTxns(keychain', keychain)
      BY <1>a, <1>c, <2>1, SetOrderResult DEF CreateOrderResponse, SameTxns
    <2>3. \A m \in Model : m \in keychain'[userid] => m.txn \in PaidTxns
      BY <1>b, <1>c, <1>e, <2>1, <2>2
    <2>4. \E cur \in {NoTask, current} :
            StartVerifying(userid, keychain', receipt, cur, Answered(s))
      BY <2>1 DEF CreateOrderResponse
    <2> QED
      BY <1>a, <1>b, <1>d, <2>1, <2>3, <2>4
  <1>6. ASSUME NEW s \in Slot, OrderFailed(s) PROVE NextTasksOf(PaidTxns)
    <2>1. requests[s] # NoRequest /\ CreateOrderRequestFailed(s)
      BY <1>6 DEF OrderFailed, CreateOrderRequestFailed, Outstanding
    <2> QED
      BY <1>a, <1>c, <1>d, <2>1 DEF CreateOrderRequestFailed
  <1>7. ASSUME NEW s \in Slot, UploadFailed(s) PROVE NextTasksOf(PaidTxns)
    <2>1. requests[s] # NoRequest /\ UploadCertificateRequestFailed(s, device)
      BY <1>7 DEF UploadFailed, UploadCertificateRequestFailed, Outstanding
    <2>2. SameTxns(keychain', keychain)
      BY <1>a, <1>c, <2>1, OneMoreType, SetVerifyCountResult
         DEF UploadCertificateRequestFailed, SameTxns
    <2>3. \A m \in Model : m \in keychain'[userid] => m.txn \in PaidTxns
      BY <1>b, <1>c, <1>e, <2>1, <2>2
    <2>4. \E cur \in {NoTask, current} :
            StartVerifying(userid, keychain', receipt', cur, Answered(s))
      BY <2>1 DEF UploadCertificateRequestFailed
    <2> QED
      BY <1>a, <1>b, <1>d, <2>1, <2>3, <2>4
  <1>8. ASSUME NEW s \in Slot, ReceiptVerdict(s) PROVE NextTasksOf(PaidTxns)
    <2>1. requests[s] # NoRequest
      BY <1>8 DEF ReceiptVerdict, Outstanding
    <2>2. CASE ~IsCurrent(requests[s])
      BY <1>8, <1>a, <1>c, <1>d, <2>1, <2>2 DEF ReceiptVerdict, ReceiptVerdictForOther
    <2>3. CASE IsCurrent(requests[s])
      <3>1. PICK kc \in {keychain, SetValid(keychain, userid, requests[s].txn)} :
              ReceiptVerdictForCurrent(s, device, kc)
        BY <1>8, <2>3 DEF ReceiptVerdict
      <3>2. kc \in Keychain /\ SameTxns(kc, keychain)
        BY <1>a, <1>c, <2>1, SetValidResult DEF SameTxns
      <3>3. \A m \in Model : m \in keychain'[userid] => m.txn \in PaidTxns
        BY <1>c, <1>e, <2>1, <3>1, <3>2, DeleteModelResult DEF ReceiptVerdictForCurrent
      <3> QED
        BY <1>b, <1>d, <2>1, <3>1, <3>3 DEF ReceiptVerdictForCurrent
    <2> QED
      BY <2>2, <2>3
  <1>9. ASSUME NEW s \in Slot, Dropped(s) PROVE NextTasksOf(PaidTxns)
    BY <1>9, <1>a, <1>c DEF Dropped, RequestDropped, TasksOf, NextTasksOf
  <1>10. ASSUME NEW status \in {"NotReachable", "Reachable"}, NetworkChanged(status)
         PROVE  NextTasksOf(PaidTxns)
    <2>1. CASE UNCHANGED <<current, requests>>
      BY <1>1, <2>1
    <2>2. CASE StartVerifying(userid, keychain, receipt, current, requests)
      <3>1. userid \in User
        BY <1>10, <1>a DEF NetworkChanged, ReachabilityChanged
      <3> QED
        BY <1>a, <2>2, <3>1, StartVerifyingTxns DEF TasksOf
    <2> QED
      BY <1>10, <2>1, <2>2 DEF NetworkChanged, ReachabilityChanged
  <1>11. ASSUME NEW kind \in {"products", "receipt"}, RequestDidFinish(kind)
         PROVE  NextTasksOf(PaidTxns)
    <2>1. CASE userid = NoUser
      BY <1>1, <1>11, <2>1 DEF RequestDidFinish, vmVars
    <2>2. CASE userid # NoUser
      BY <1>11, <1>a, <2>2, RefreshReceiptDataTxns DEF RequestDidFinish
    <2> QED
      BY <2>1, <2>2
  <1>12. ASSUME StartDelayed PROVE NextTasksOf(PaidTxns)
    <2>1. CASE current = NoTask
      BY <1>1, <1>12, <2>1 DEF StartDelayed, DelayedStart
    <2>2. CASE current # NoTask
      BY <1>12, <1>a, <2>2, StartTaskTxns DEF StartDelayed, DelayedStart, MaybeTask, TasksOf
    <2> QED
      BY <2>1, <2>2
  <1>13. ASSUME WillEnterForeground PROVE NextTasksOf(PaidTxns)
    <2>1. CASE userid = NoUser
      BY <1>1, <1>13, <2>1 DEF WillEnterForeground, vmVars
    <2>2. CASE userid # NoUser
      BY <1>13, <1>a, <2>2, CheckUnfinishedTxns DEF WillEnterForeground
    <2> QED
      BY <2>1, <2>2
  <1>14. ASSUME \/ \E t \in Txn : \/ BuyProduct(t) \/ StoreKitPurchased(t)
                                  \/ StoreKitFailed(t) \/ TransactionFailed(t)
                \/ FetchProductInfo \/ ClearAllUnfinishedTransactions \/ UNCHANGED vars
         PROVE  NextTasksOf(PaidTxns)
    BY <1>1, <1>14 DEF BuyProduct, StoreKitPurchased, StoreKitFailed, TransactionFailed,
                       FetchProductInfo, ClearAllUnfinishedTransactions, vmVars, vars
  <1>15. ASSUME \/ \E t \in Txn : CrashBeforeFinish(t)
                \/ \E s \in Slot : CrashInVerdict(s)
                \/ Logout \/ Terminate \/ CrashInsideWrite
         PROVE  NextTasksOf(PaidTxns)
    BY <1>2, <1>15 DEF CrashBeforeFinish, CrashInVerdict, Logout, Terminate,
                       CrashInsideWrite, ProcessGone
  <1> QED
    BY <1>3, <1>4, <1>5, <1>6, <1>7, <1>8, <1>9, <1>10, <1>11, <1>12, <1>13, <1>14, <1>15
       DEF Next

LEMMA PaidStep == LedgerInv /\ TypeOK' /\ [Next]_vars => PaidInv'
  <1> SUFFICES ASSUME LedgerInv, TypeOK', [Next]_vars PROVE PaidInv'
    OBVIOUS
  <1>1. HistoryStep /\ NextTasksOf(PaidTxns)
    BY HistoryOfStep, TasksStep
  <1>2. /\ \A t \in Txn : t \in PaidTxns <=> paidAt[t] # NoReceipt
        /\ judged \subseteq PaidTxns /\ cleared \subseteq PaidTxns
    BY DEF LedgerInv, PaidInv
  <1>3. PaidTxns \subseteq PaidTxns'
    BY <1>1 DEF HistoryStep, Quiet, Pays, Judges, Closes, WritesOff, Kept, Paid, PaidTxns
  <1>4. TasksOf(PaidTxns)'
    BY <1>1, <1>3 DEF NextTasksOf, TasksOf
  <1>5. judged' \subseteq PaidTxns' /\ cleared' \subseteq PaidTxns'
    BY <1>1, <1>2, <1>3 DEF HistoryStep, Quiet, Pays, Judges, Closes, WritesOff, PaidTxns
  <1>6. \A t \in Txn : t \in PaidTxns' <=> paidAt'[t] # NoReceipt
    BY <1>1, <1>2 DEF HistoryStep, Quiet, Pays, Judges, Closes, WritesOff, Kept, Paid, PaidTxns
  <1> QED
    BY <1>4, <1>5, <1>6 DEF PaidInv

LEMMA PaidInitially == Init => PaidInv
  BY DEF Init, VMInit, PaidInv, PaidTxns, TasksOf

-----------------------------------------------------------------------------
(* Refinement *)

\* The ledger before and after a step.
Before == [t \in Txn |-> LedgerOf(t)]
After == [t \in Txn |-> LedgerOf(t)']

\* How far the ledger has a transaction, where the invariant holds: nothing
\* that was paid is lost.
LEMMA LedgerCases ==
  ASSUME LedgerInv, NEW t \in Txn
  PROVE  LedgerOf(t) = IF sk[t] \notin Paid THEN "unpaid"
                       ELSE IF t \in cleared THEN "writtenOff"
                       ELSE IF t \notin judged THEN "paid"
                       ELSE IF sk[t] = "finished" THEN "closed" ELSE "judged"
  BY DEF LedgerInv, PaidInv, SafeInv, SafeState, NoPurchaseLost, PaidTxns, Paid, LedgerOf

LEMMA LedgerCasesNext ==
  ASSUME LedgerInv', NEW t \in Txn
  PROVE  LedgerOf(t)' = IF sk'[t] \notin Paid THEN "unpaid"
                        ELSE IF t \in cleared' THEN "writtenOff"
                        ELSE IF t \notin judged' THEN "paid"
                        ELSE IF sk'[t] = "finished" THEN "closed" ELSE "judged"
  BY DEF LedgerInv, PaidInv, SafeInv, SafeState, NoPurchaseLost, PaidTxns, Paid, LedgerOf

LEMMA LedgerInitially == Init => Ledger!Init
  BY DEF Init, Ledger!Init, LedgerOf

LEMMA LedgerStep == LedgerInv /\ LedgerInv' /\ [Next]_vars => [Ledger!Next]_Before
  <1> SUFFICES ASSUME LedgerInv, LedgerInv', [Next]_vars PROVE [Ledger!Next]_Before
    OBVIOUS
  <1>1. HistoryStep
    BY HistoryOfStep
  <1>2. Before' = After
    BY DEF Before, After
  <1>a. cleared \subseteq PaidTxns /\ judged \subseteq PaidTxns
    BY DEF LedgerInv, PaidInv
  <1>3. CASE Quiet
    <2>1. \A t \in Txn : LedgerOf(t)' = LedgerOf(t)
      BY <1>3, LedgerCases, LedgerCasesNext DEF Quiet, Kept
    <2> QED
      BY <1>2, <2>1 DEF Before, After
  <1>4. ASSUME NEW t \in Txn, Pays(t) PROVE [Ledger!Next]_Before
    <2>1. \A x \in Txn : x # t => LedgerOf(x)' = LedgerOf(x)
      BY <1>4, LedgerCases, LedgerCasesNext DEF Pays, Kept
    <2>2. LedgerOf(t) = "unpaid" /\ LedgerOf(t)' = "paid"
      BY <1>4, <1>a, LedgerCases, LedgerCasesNext DEF Pays, Paid, PaidTxns
    <2>3. Ledger!Pay(t)
      BY <1>2, <2>1, <2>2 DEF Ledger!Pay, Before, After
    <2> QED
      BY <2>3 DEF Ledger!Next
  <1>5. ASSUME NEW t \in Txn, Judges(t) PROVE [Ledger!Next]_Before
    <2>1. \A x \in Txn : x # t => LedgerOf(x)' = LedgerOf(x)
      BY <1>5, LedgerCases, LedgerCasesNext DEF Judges, Kept
    <2>2. \/ LedgerOf(t)' = LedgerOf(t)
          \/ LedgerOf(t) \in {"paid", "judged"} /\ LedgerOf(t)' \in {"judged", "closed"}
      BY <1>5, LedgerCases, LedgerCasesNext DEF Judges, Paid, PaidTxns
    <2>3. CASE LedgerOf(t)' = LedgerOf(t)
      BY <1>2, <2>1, <2>3 DEF Before, After
    <2>4. CASE LedgerOf(t) \in {"paid", "judged"} /\ LedgerOf(t)' \in {"judged", "closed"}
      <3>1. Ledger!Judge(t)
        BY <1>2, <2>1, <2>4 DEF Ledger!Judge, Before, After
      <3> QED
        BY <3>1 DEF Ledger!Next
    <2> QED
      BY <2>2, <2>3, <2>4
  <1>6. ASSUME NEW t \in Txn, Closes(t) PROVE [Ledger!Next]_Before
    <2>1. \A x \in Txn : x # t => LedgerOf(x)' = LedgerOf(x)
      BY <1>6, LedgerCases, LedgerCasesNext DEF Closes, Kept
    <2>2. CASE t \in cleared
      <3>1. LedgerOf(t)' = LedgerOf(t)
        BY <1>6, <2>2, LedgerCases, LedgerCasesNext DEF Closes, Paid
      <3> QED
        BY <1>2, <2>1, <3>1 DEF Before, After
    <2>3. CASE t \notin cleared
      <3>1. LedgerOf(t) = "judged" /\ LedgerOf(t)' = "closed"
        BY <1>6, <2>3, LedgerCases, LedgerCasesNext DEF Closes, Paid
      <3>2. Ledger!Close(t)
        BY <1>2, <2>1, <3>1 DEF Ledger!Close, Before, After
      <3> QED
        BY <3>2 DEF Ledger!Next
    <2> QED
      BY <2>2, <2>3
  <1>7. ASSUME NEW S \in SUBSET Txn, WritesOff(S) PROVE [Ledger!Next]_Before
    <2> DEFINE W == S \ cleared
    <2>1. \A t \in W : LedgerOf(t) \in {"paid", "judged"} /\ LedgerOf(t)' = "writtenOff"
      BY <1>7, LedgerCases, LedgerCasesNext DEF WritesOff, Kept, Paid
    <2>2. \A t \in Txn : t \notin W => LedgerOf(t)' = LedgerOf(t)
      BY <1>7, <1>a, LedgerCases, LedgerCasesNext DEF WritesOff, Kept, Paid
    <2>3. Ledger!WriteOff(W)
      BY <1>2, <2>1, <2>2 DEF Ledger!WriteOff, Before, After
    <2> QED
      BY <2>3 DEF Ledger!Next
  <1> QED
    BY <1>1, <1>3, <1>4, <1>5, <1>6, <1>7 DEF HistoryStep

LEMMA LedgerInvariant == Spec => []LedgerInv
  <1>1. Init => LedgerInv
    BY TypeInitially, SafeInitially, PaidInitially DEF LedgerInv, SafeInv
  <1>2. LedgerInv /\ [Next]_vars => LedgerInv'
    BY TypeStep, QuietStep, SafeStep, PaidStep DEF LedgerInv, SafeInv, TypeInv, SafeNow
  <1> QED
    BY <1>1, <1>2, PTL DEF Spec

\* The client implements the ledger: each transaction is paid, judged and
\* closed in that order and never lost, whatever the environment does.
THEOREM ClientImplementsLedger == Spec => ImplementsLedger
  <1>1. LedgerInv /\ LedgerInv' /\ [Next]_vars => [Ledger!Next]_Before
    BY LedgerStep
  <1> QED
    BY LedgerInitially, LedgerInvariant, <1>1, PTL DEF Spec, ImplementsLedger, Ledger!Spec, Before

-----------------------------------------------------------------------------
(* Uploads contain their transactions.  Every snapshot of a receipt was    *)
(* taken when the receipt at hand contained all that the user had stored.  *)
(* The return to the foreground stores a purchase beside an older receipt. *)

\* If r is a receipt, t is in it.
Contains(r, t) == r # NoReceipt => paidAt[t] <= r

ContainsStored(rc, kc, u) == \A t \in Txn : Stored(kc, u, t) => Contains(rc, t)

TaskContained(c) == c # NoTask => Contains(c.rcpt, c.txn)

RequestsContained(rq) ==
  \A s \in Slot : rq[s] # NoRequest =>
    /\ Contains(rq[s].rcpt, rq[s].txn)
    /\ rq[s].kind = "upload" => rq[s].rcpt # NoReceipt

UploadInv ==
  /\ \A t \in Txn : Contains(device, t)
  /\ device # NoReceipt => \E t \in Txn : paidAt[t] # NoReceipt
  /\ receipt # NoReceipt => device # NoReceipt
  /\ userid # NoUser => ContainsStored(receipt, keychain, userid)
  /\ TaskContained(current)
  /\ RequestsContained(requests)

\* UploadInv after a step in which nothing is paid.
NextUploadInv ==
  /\ \A t \in Txn : Contains(device', t)
  /\ device' # NoReceipt => \E t \in Txn : paidAt[t] # NoReceipt
  /\ receipt' # NoReceipt => device' # NoReceipt
  /\ userid' # NoUser => ContainsStored(receipt', keychain', userid')
  /\ TaskContained(current')
  /\ RequestsContained(requests')

NextTasksContained == TaskContained(current') /\ RequestsContained(requests')

LEMMA CancelContained ==
  ASSUME NEW c \in MaybeTask, TaskContained(c)
  PROVE  TaskContained(CancelTask(c))
  <1>1. c # NoTask => [c EXCEPT !.state = "Cancel"].txn = c.txn
                      /\ [c EXCEPT !.state = "Cancel"].rcpt = c.rcpt
    BY DEF MaybeTask, Task
  <1> QED
    BY <1>1 DEF CancelTask, TaskContained

LEMMA DetachedContained ==
  ASSUME NEW rq \in Requests, RequestsContained(rq)
  PROVE  RequestsContained(Detached(rq))
  <1>1. ASSUME NEW s \in Slot, rq[s] # NoRequest
        PROVE  /\ [rq[s] EXCEPT !.attached = FALSE].txn = rq[s].txn
               /\ [rq[s] EXCEPT !.attached = FALSE].rcpt = rq[s].rcpt
               /\ [rq[s] EXCEPT !.attached = FALSE].kind = rq[s].kind
    BY <1>1 DEF Requests, Request
  <1> QED
    BY <1>1 DEF Detached, RequestsContained

\* A request takes the snapshot of its task along, and uploads a receipt.
LEMMA StartTaskContained ==
  ASSUME NEW t \in Task, NEW rq \in Requests, StartTask(t, rq),
         TaskContained(t), RequestsContained(rq)
  PROVE  NextTasksContained
  <1>1. CASE t.state = "Cancel"
    BY <1>1 DEF StartTask, NextTasksContained
  <1>2. CASE t.state # "Cancel"
    <2>1. PICK s \in Slot :
            /\ current' = [t EXCEPT !.state = "WaitingForServersResponse"]
            /\ requests' = [rq EXCEPT ![s] = RequestOf(t)]
      BY <1>2 DEF StartTask
    <2>2. Contains(t.rcpt, t.txn)
      BY NoTaskAssumption DEF TaskContained
    <2>3. current'.txn = t.txn /\ current'.rcpt = t.rcpt
      BY <2>1 DEF Task
    <2>4. \A x \in Slot : requests'[x] = IF x = s THEN RequestOf(t) ELSE rq[x]
      BY <2>1 DEF Requests
    <2>5. /\ RequestOf(t).txn = t.txn /\ RequestOf(t).rcpt = t.rcpt
          /\ RequestOf(t).kind = "upload" => t.rcpt # NoReceipt
      BY DEF RequestOf
    <2>6. TaskContained(current')
      BY <2>2, <2>3 DEF TaskContained
    <2>7. RequestsContained(requests')
      BY <2>2, <2>4, <2>5 DEF RequestsContained
    <2> QED
      BY <2>6, <2>7 DEF NextTasksContained
  <1> QED
    BY <1>1, <1>2

LEMMA StartVerifyingContained ==
  ASSUME NEW kc \in Keychain, NEW u \in User, NEW rc \in Receipt,
         NEW cur \in MaybeTask, NEW rq \in Requests,
         StartVerifying(u, kc, rc, cur, rq), ContainsStored(rc, kc, u),
         TaskContained(cur), RequestsContained(rq)
  PROVE  NextTasksContained
  <1>1. CASE queue' = {} \/ reach' # "Reachable"
    BY <1>1, CancelContained, DetachedContained DEF StartVerifying, NextTasksContained
  <1>2. CASE ~(queue' = {} \/ reach' # "Reachable")
    <2>1. PICK m \in Firsts(kc[u]) : StartModel(m, rc, Detached(rq))
      BY <1>2 DEF StartVerifying
    <2>2. m \in Model /\ m \in kc[u]
      BY PlannedQueueType DEF Keychain
    <2>3. m.txn \in Txn /\ Stored(kc, u, m.txn)
      BY <2>2 DEF Model, Stored
    <2>4. NewTask(m, rc) \in Task /\ TaskContained(NewTask(m, rc))
      BY <2>2, <2>3, NewTaskType DEF NewTask, TaskContained, ContainsStored
    <2>5. Detached(rq) \in Requests /\ RequestsContained(Detached(rq))
      BY DetachedType, DetachedContained
    <2>6. CASE m.count > 0
      BY <2>1, <2>4, <2>5, <2>6 DEF StartModel, NextTasksContained
    <2>7. CASE ~(m.count > 0)
      BY <2>1, <2>4, <2>5, <2>7, StartTaskContained DEF StartModel
    <2> QED
      BY <2>6, <2>7
  <1> QED
    BY <1>1, <1>2

\* A login reads the receipt on the device, which contains all that is paid.
LEMMA LoginContained ==
  ASSUME LedgerInv, UploadInv, NEW u \in User, NEW q, CheckUnfinished(u, device, q)
  PROVE  NextTasksContained
  <1>1. PICK T \in SUBSET Txn : Append(u, T, device, q)
    BY DEF CheckUnfinished, Listings, Unfinished
  <1>2. CASE Fresh(u, T) = {} \/ current # NoTask
    BY <1>1, <1>2 DEF Append, UploadInv, NextTasksContained
  <1>3. CASE ~(Fresh(u, T) = {} \/ current # NoTask)
    <2>1. PICK t \in Fresh(u, T) :
            StartVerifying(u,
              IF device # NoReceipt /\ reach' = "Reachable" THEN Saved(u, {t})
                                                           ELSE Saved(u, T),
              device, NoTask, requests)
      BY <1>1, <1>3 DEF Append
    <2>2. {t} \in SUBSET Txn
      BY DEF Fresh
    <2>3. PICK W \in SUBSET Txn : StartVerifying(u, Saved(u, W), device, NoTask, requests)
      <3>1. CASE device # NoReceipt /\ reach' = "Reachable"
        BY <2>1, <2>2, <3>1
      <3>2. CASE ~(device # NoReceipt /\ reach' = "Reachable")
        BY <2>1, <3>2
      <3> QED
        BY <3>1, <3>2
    <2>4. Saved(u, W) \in Keychain /\ ContainsStored(device, Saved(u, W), u)
      BY PaidFacts, SavedResult DEF UploadInv, ContainsStored
    <2> QED
      BY <2>3, <2>4, PaidFacts, StartVerifyingContained DEF UploadInv, TaskContained
  <1> QED
    BY <1>2, <1>3

\* What is paid now was not stored and has no task or request, and the
\* receipt that arrives with it contains all that was paid before.
LEMMA PurchaseContained ==
  ASSUME LedgerInv, UploadInv, NEW t \in Txn, StoreKitPurchased(t)
  PROVE  UploadInv'
  <1>a. /\ paidAt \in [Txn -> Receipt] /\ device \in Receipt
        /\ Receipt \subseteq Nat /\ NoReceipt = 0
    BY DEF LedgerInv, SafeInv, TypeInv, TypeOK, Receipt, NoReceipt
  <1>b. requests \in Requests /\ current \in MaybeTask /\ userid \in User \cup {NoUser}
    BY PaidFacts
  <1>1. PICK r \in Receipt \ {NoReceipt} :
          /\ IsLatest(r - 1)
          /\ paidAt' = [paidAt EXCEPT ![t] = r]
          /\ device' = r \/ (device = NoReceipt /\ UNCHANGED device)
    BY DEF StoreKitPurchased
  <1>2. t \notin PaidTxns /\ UNCHANGED vmVars
    BY DEF StoreKitPurchased, PaidTxns
  <1>3. \A x \in PaidTxns : paidAt'[x] = paidAt[x]
    BY <1>1, <1>2, <1>a DEF PaidTxns
  <1>4. \A x \in Txn : Contains(device, x)'
    <2>1. ASSUME NEW x \in Txn PROVE paidAt'[x] <= r
      <3>1. paidAt[x] \in Nat /\ r \in Nat /\ paidAt[x] <= r - 1
        BY <1>1, <1>a DEF IsLatest
      <3>2. paidAt'[x] \in {paidAt[x], r}
        BY <1>1, <1>a
      <3> QED
        BY <3>1, <3>2
    <2> QED
      BY <1>1, <2>1 DEF Contains
  <1>5. device' # NoReceipt /\ receipt' # NoReceipt => device' = r
    BY <1>1
  <1>6. /\ device' # NoReceipt => \E x \in Txn : paidAt'[x] # NoReceipt
        /\ receipt' # NoReceipt => device' # NoReceipt
    BY <1>1, <1>2, <1>a DEF UploadInv, vmVars
  <1>7. (userid # NoUser => ContainsStored(receipt, keychain, userid))'
    BY <1>2, <1>3, <1>b, PaidFacts DEF UploadInv, ContainsStored, Contains, Stored, vmVars
  <1>8. TaskContained(current)' /\ RequestsContained(requests)'
    BY <1>2, <1>3, <1>b, PaidFacts
       DEF UploadInv, TaskContained, RequestsContained, Contains, TasksOf, vmVars
  <1> QED
    BY <1>4, <1>6, <1>7, <1>8 DEF UploadInv

\* A handler that refreshes the receipt, if there is a file to read.
LEMMA RefreshedContained ==
  ASSUME LedgerInv, UploadInv, UNCHANGED device,
         receipt' = IF device = NoReceipt THEN receipt ELSE device
  PROVE  /\ \A t \in Txn : Contains(receipt', t) /\ Contains(device', t)
         /\ device' # NoReceipt => \E t \in Txn : paidAt[t] # NoReceipt
         /\ receipt' # NoReceipt => device' # NoReceipt
  BY DEF UploadInv, Contains

LEMMA RefreshReceiptDataContained ==
  ASSUME current \in MaybeTask, requests \in Requests, NEW u, NEW rc,
         RefreshReceiptData(u, rc), UploadInv
  PROVE  /\ NextTasksContained
         /\ receipt' = IF rc = NoReceipt THEN receipt ELSE rc
  BY CancelContained, DetachedContained DEF RefreshReceiptData, UploadInv, NextTasksContained

LEMMA UploadStep ==
  ASSUME "foreground" \notin Disturbances, LedgerInv, UploadInv, TypeOK', [Next]_vars
  PROVE  UploadInv'
  <1>a. /\ keychain \in Keychain /\ OneEach(keychain)
        /\ userid \in User \cup {NoUser} /\ receipt \in Receipt /\ device \in Receipt
        /\ current \in MaybeTask /\ NoTask \in MaybeTask /\ requests \in Requests
    BY PaidFacts
  <1>b. keychain' \in Keychain /\ receipt' \in Receipt /\ device' \in Receipt
    BY DEF TypeOK, VMTypeOK, Keychain
  <1>c. ASSUME NextUploadInv, UNCHANGED paidAt PROVE UploadInv'
    BY <1>c DEF NextUploadInv, UploadInv, ContainsStored, Contains, Stored, TaskContained,
                RequestsContained
  <1>d. ASSUME NEW s \in Slot, requests[s] # NoRequest
        PROVE  /\ userid \in User /\ userid # NoUser
               /\ requests[s].txn \in Txn /\ requests[s].count \in VerifyCount
               /\ requests[s].rcpt \in Receipt
               /\ Answered(s) \in Requests /\ RequestsContained(Answered(s))
    BY <1>a, <1>d, AnsweredType, NoUserAssumption
       DEF Requests, Request, LedgerInv, SafeInv, TypeInv, LoggedOutIsQuiet, UploadInv,
           RequestsContained
  \* A step that keeps the receipt and stores no further transaction.
  <1>e. ASSUME UNCHANGED <<userid, receipt, device, paidAt>>, NextTasksContained,
               \A u \in User, t \in Txn : Stored(keychain', u, t) => Stored(keychain, u, t)
        PROVE  UploadInv'
    <2>1. userid' # NoUser => ContainsStored(receipt', keychain', userid')
      BY <1>a, <1>e DEF UploadInv, ContainsStored
    <2>2. NextUploadInv
      BY <1>e, <2>1 DEF UploadInv, NextUploadInv, NextTasksContained
    <2> QED
      BY <1>c, <1>e, <2>2
  \* A step that refreshes it, whatever it stores.
  <1>f. ASSUME UNCHANGED <<device, paidAt>>, NextTasksContained,
               receipt' = IF device = NoReceipt THEN receipt ELSE device
        PROVE  UploadInv'
    <2>1. NextUploadInv
      BY <1>f, RefreshedContained DEF NextUploadInv, NextTasksContained, ContainsStored
    <2> QED
      BY <1>c, <1>f, <2>1
  <1>g. TaskContained(NoTask) /\ \A cur \in {NoTask, current} : TaskContained(cur)
    BY DEF UploadInv, TaskContained
  \* An answer, after which the verification goes on from the next state.
  <1>h. ASSUME NEW s \in Slot, requests[s] # NoRequest, NEW cur \in {NoTask, current},
               ContainsStored(receipt', keychain', userid),
               StartVerifying(userid, keychain', receipt', cur, Answered(s))
        PROVE  NextTasksContained
    BY <1>a, <1>b, <1>d, <1>g, <1>h, StartVerifyingContained
  \* The answer keeps the receipt, and the transactions stored.
  <1>i. ASSUME NEW s \in Slot, requests[s] # NoRequest, NEW cur \in {NoTask, current},
               UNCHANGED <<userid, receipt, device, paidAt>>, SameTxns(keychain', keychain),
               StartVerifying(userid, keychain', receipt', cur, Answered(s))
        PROVE  UploadInv'
    <2>1. ContainsStored(receipt', keychain', userid)
      BY <1>d, <1>i DEF UploadInv, ContainsStored, SameTxns
    <2> QED
      BY <1>e, <1>h, <1>i, <2>1 DEF SameTxns
  \* The answer refreshes the receipt.
  <1>j. ASSUME NEW s \in Slot, requests[s] # NoRequest, NEW cur \in {NoTask, current},
               UNCHANGED <<device, paidAt>>,
               receipt' = IF device = NoReceipt THEN receipt ELSE device,
               StartVerifying(userid, keychain', receipt', cur, Answered(s))
        PROVE  UploadInv'
    <2>1. ContainsStored(receipt', keychain', userid)
      BY <1>j, RefreshedContained DEF ContainsStored
    <2> QED
      BY <1>f, <1>h, <1>j, <2>1
  <1>1. ASSUME UNCHANGED <<vmVars, paidAt, device>> PROVE UploadInv'
    BY <1>1, <1>e DEF vmVars, UploadInv, NextTasksContained
  <1>2. ASSUME VerifyManagerGone, UNCHANGED <<paidAt, device>> PROVE UploadInv'
    <2>1. NextUploadInv
      BY <1>2 DEF VerifyManagerGone, UploadInv, NextUploadInv, TaskContained, RequestsContained
    <2> QED
      BY <1>2, <1>c, <2>1
  <1>3. ASSUME NEW u \in User, Login(u) PROVE UploadInv'
    <2>1. NextTasksContained
      BY <1>3, LoginContained DEF Login
    <2>2. NextUploadInv
      BY <1>3, <2>1 DEF Login, UploadInv, NextUploadInv, NextTasksContained, ContainsStored
    <2> QED
      BY <1>3, <1>c, <2>2 DEF Login
  <1>4. ASSUME NEW t \in Txn, StoreKitPurchased(t) PROVE UploadInv'
    BY <1>4, PurchaseContained
  <1>5. ASSUME NEW t \in Txn, TransactionPurchased(t) PROVE UploadInv'
    <2>1. UNCHANGED <<userid, device, paidAt>>
      BY <1>5 DEF TransactionPurchased
    <2>2. CASE RefreshReceiptData(userid, device)
      BY <1>a, <1>f, <2>1, <2>2, RefreshReceiptDataContained
    <2>3. CASE /\ receipt' = IF device = NoReceipt THEN receipt ELSE device
               /\ StartVerifying(userid, keychain', receipt', NoTask, requests)
      <3>1. userid \in User /\ ContainsStored(receipt', keychain', userid)
        BY <1>5, <1>a, <2>1, <2>3, RefreshedContained DEF TransactionPurchased, ContainsStored
      <3>2. NextTasksContained
        BY <1>a, <1>b, <1>g, <2>3, <3>1, StartVerifyingContained DEF UploadInv
      <3> QED
        BY <1>f, <2>1, <2>3, <3>2
    <2> QED
      BY <1>5, <2>2, <2>3 DEF TransactionPurchased
  <1>6. ASSUME NEW s \in Slot, OrderCreated(s) PROVE UploadInv'
    <2>1. /\ requests[s] # NoRequest /\ CreateOrderResponse(s)
          /\ UNCHANGED <<userid, receipt, device, paidAt>>
      BY <1>6 DEF OrderCreated, CreateOrderResponse, Outstanding, VerifyManagerAlone
    <2>2. SameTxns(keychain', keychain)
      BY <1>a, <1>d, <2>1, SetOrderResult DEF CreateOrderResponse, SameTxns
    <2>3. \E cur \in {NoTask, current} :
            StartVerifying(userid, keychain', receipt', cur, Answered(s))
      BY <2>1 DEF CreateOrderResponse
    <2> QED
      BY <1>i, <2>1, <2>2, <2>3
  <1>7. ASSUME NEW s \in Slot, OrderFailed(s) PROVE UploadInv'
    <2>1. /\ requests[s] # NoRequest /\ CreateOrderRequestFailed(s)
          /\ UNCHANGED <<userid, keychain, receipt, device, paidAt>>
      BY <1>7 DEF OrderFailed, CreateOrderRequestFailed, Outstanding, VerifyManagerAlone
    <2>2. \E cur \in {NoTask, current} :
            StartVerifying(userid, keychain', receipt', cur, Answered(s))
      BY <2>1 DEF CreateOrderRequestFailed
    <2> QED
      BY <1>i, <2>1, <2>2 DEF SameTxns
  <1>8. ASSUME NEW s \in Slot, UploadFailed(s) PROVE UploadInv'
    <2>1. /\ requests[s] # NoRequest /\ UploadCertificateRequestFailed(s, device)
          /\ UNCHANGED <<userid, device, paidAt>>
      BY <1>8 DEF UploadFailed, UploadCertificateRequestFailed, Outstanding
    <2>2. CASE IsCurrent(requests[s])
      BY <1>j, <2>1, <2>2 DEF UploadCertificateRequestFailed
    <2>3. CASE ~IsCurrent(requests[s])
      BY <1>i, <2>1, <2>3 DEF UploadCertificateRequestFailed, SameTxns
    <2> QED
      BY <2>2, <2>3
  <1>9. ASSUME NEW s \in Slot, ReceiptVerdict(s) PROVE UploadInv'
    <2>1. requests[s] # NoRequest /\ UNCHANGED <<device, paidAt>>
      BY <1>9 DEF ReceiptVerdict, Outstanding
    <2>2. CASE IsCurrent(requests[s])
      BY <1>9, <1>j, <2>1, <2>2 DEF ReceiptVerdict, ReceiptVerdictForCurrent
    <2>3. CASE ~IsCurrent(requests[s])
      BY <1>9, <1>i, <2>1, <2>3 DEF ReceiptVerdict, ReceiptVerdictForOther, SameTxns
    <2> QED
      BY <2>2, <2>3
  <1>10. ASSUME NEW s \in Slot, Dropped(s) PROVE UploadInv'
    <2>1. requests[s] # NoRequest /\ requests' = Answered(s)
          /\ UNCHANGED <<userid, keychain, receipt, current, device, paidAt>>
      BY <1>10 DEF Dropped, RequestDropped, VerifyManagerAlone
    <2> QED
      BY <1>d, <1>e, <2>1 DEF UploadInv, NextTasksContained
  <1>11. ASSUME NEW status \in {"NotReachable", "Reachable"}, NetworkChanged(status)
         PROVE  UploadInv'
    <2>1. /\ userid \in User /\ userid # NoUser
          /\ UNCHANGED <<userid, keychain, receipt, device, paidAt>>
      BY <1>11, <1>a DEF NetworkChanged, ReachabilityChanged, VerifyManagerAlone
    <2>2. NextTasksContained
      <3>1. CASE UNCHANGED <<current, requests>>
        BY <3>1 DEF UploadInv, NextTasksContained
      <3>2. CASE StartVerifying(userid, keychain, receipt, current, requests)
        BY <1>a, <2>1, <3>2, StartVerifyingContained DEF UploadInv
      <3> QED
        BY <1>11, <3>1, <3>2 DEF NetworkChanged, ReachabilityChanged
    <2> QED
      BY <1>e, <2>1, <2>2
  <1>12. ASSUME NEW kind \in {"products", "receipt"}, RequestDidFinish(kind)
         PROVE  UploadInv'
    <2>1. UNCHANGED <<userid, keychain, paidAt>>
      BY <1>12 DEF RequestDidFinish, vmVars
    <2>2. /\ \A t \in Txn : Contains(device', t)
          /\ device' # NoReceipt => \E t \in Txn : paidAt[t] # NoReceipt
          /\ device # NoReceipt => device' # NoReceipt
      <3>1. CASE UNCHANGED device
        BY <3>1 DEF UploadInv, Contains
      <3>2. CASE IsLatest(device')
        <4>1. \A t \in Txn : paidAt[t] \in Nat /\ NoReceipt = 0
          BY DEF LedgerInv, SafeInv, TypeInv, TypeOK, Receipt, NoReceipt
        <4> QED
          BY <1>b, <3>2, <4>1 DEF IsLatest, UploadInv, Contains, Receipt
      <3> QED
        BY <1>12, <3>1, <3>2 DEF RequestDidFinish
    <2>3. CASE userid = NoUser
      <3>1. UNCHANGED vmVars
        BY <1>12, <2>3 DEF RequestDidFinish
      <3>2. NextUploadInv
        BY <2>2, <2>3, <3>1 DEF UploadInv, NextUploadInv, vmVars
      <3> QED
        BY <1>c, <2>1, <3>2
    <2>4. CASE userid # NoUser
      <3>1. /\ NextTasksContained
            /\ receipt' = IF device' = NoReceipt THEN receipt ELSE device'
        BY <1>12, <1>a, <2>4, RefreshReceiptDataContained DEF RequestDidFinish
      <3>2. /\ receipt' # NoReceipt => device' # NoReceipt
            /\ \A t \in Txn : Contains(receipt', t)
        BY <2>2, <3>1 DEF UploadInv, Contains
      <3>3. NextUploadInv
        BY <2>2, <3>1, <3>2 DEF NextUploadInv, NextTasksContained, ContainsStored
      <3> QED
        BY <1>c, <2>1, <3>3
    <2> QED
      BY <2>3, <2>4
  <1>13. ASSUME StartDelayed PROVE UploadInv'
    <2>1. UNCHANGED <<userid, keychain, receipt, device, paidAt>>
      BY <1>13 DEF StartDelayed, DelayedStart, VerifyManagerAlone
    <2>2. NextTasksContained
      <3>1. CASE current = NoTask
        BY <1>13, <3>1 DEF StartDelayed, DelayedStart, UploadInv, NextTasksContained
      <3>2. CASE current # NoTask
        BY <1>13, <1>a, <3>2, StartTaskContained
           DEF StartDelayed, DelayedStart, MaybeTask, UploadInv
      <3> QED
        BY <3>1, <3>2
    <2> QED
      BY <1>e, <2>1, <2>2
  <1>14. ASSUME ClearAllUnfinishedTransactions PROVE UploadInv'
    <2>1. UNCHANGED <<userid, receipt, current, requests, device, paidAt>>
      BY <1>14 DEF ClearAllUnfinishedTransactions
    <2>2. \A u \in User : keychain'[u] \subseteq keychain[u]
      BY <1>14, <1>a, EmptyResult DEF ClearAllUnfinishedTransactions
    <2>3. \A u \in User, t \in Txn : Stored(keychain', u, t) => Stored(keychain, u, t)
      BY <2>2 DEF Stored
    <2> QED
      BY <1>e, <2>1, <2>3 DEF UploadInv, NextTasksContained
  <1>15. ASSUME \/ \E t \in Txn : BuyProduct(t) \/ StoreKitFailed(t) \/ TransactionFailed(t)
                \/ FetchProductInfo \/ UNCHANGED vars
         PROVE  UploadInv'
    BY <1>1, <1>15 DEF BuyProduct, StoreKitFailed, TransactionFailed, FetchProductInfo,
                       vmVars, vars
  <1>16. ASSUME \/ \E t \in Txn : CrashBeforeFinish(t)
                \/ \E s \in Slot : CrashInVerdict(s)
                \/ Logout \/ Terminate \/ CrashInsideWrite
         PROVE  UploadInv'
    BY <1>2, <1>16 DEF CrashBeforeFinish, CrashInVerdict, Logout, Terminate,
                       CrashInsideWrite, ProcessGone
  <1>17. ~WillEnterForeground
    BY DEF WillEnterForeground
  <1> QED
    BY <1>3, <1>4, <1>5, <1>6, <1>7, <1>8, <1>9, <1>10, <1>11, <1>12, <1>13, <1>14, <1>15,
       <1>16, <1>17 DEF Next

LEMMA UploadInitially == Init => UploadInv
  BY DEF Init, VMInit, UploadInv, Contains, TaskContained, RequestsContained

\* While the app never comes back to the foreground with a verify manager, a
\* receipt is uploaded only for a transaction it contains.
THEOREM UploadsContainTheirTransaction ==
  ASSUME "foreground" \notin Disturbances
  PROVE  Spec => []UploadCoversTransaction
  <1>1. LedgerInv /\ LedgerInv' /\ UploadInv /\ [Next]_vars => UploadInv'
    BY UploadStep DEF LedgerInv, SafeInv, TypeInv
  <1>2. UploadInv => UploadCoversTransaction
    BY DEF UploadInv, RequestsContained, Contains, UploadCoversTransaction
  <1> QED
    BY UploadInitially, LedgerInvariant, <1>1, <1>2, PTL DEF Spec
=============================================================================
