------------------------- MODULE BLPaymentManager -------------------------
(***************************************************************************)
(* The in-app purchase client: BLPaymentManager between StoreKit's payment *)
(* queue and the verify manager of the logged-in user.                     *)
(*                                                                         *)
(* StoreKit, the App Store receipt, the application's server, the network  *)
(* and the life of the process are the environment, modelled from what the *)
(* code relies on.  Disturbances says which of their optional behaviours   *)
(* an instance includes.  A device that is not jailbroken is assumed: on   *)
(* one that is, every entry point returns at once.                         *)
(*                                                                         *)
(* A crash loses everything but the keychain and StoreKit's own state.     *)
(***************************************************************************)
EXTENDS BLPaymentVerifyManager

CONSTANT Disturbances  \* what the environment may do besides purchases

ASSUME DisturbancesAssumption ==
  Disturbances \subseteq {"crash",       \* the process dies
                          "logout",      \* the user logs out
                          "foreground",  \* the app re-enters the foreground
                          "products",    \* the app fetches product details
                          "network",     \* reachability changes after login
                          "hide",        \* StoreKit lists no transactions
                          "noreceipt",   \* a purchase leaves no receipt file
                          "drop",        \* a cancelled request stays unanswered
                          "clear"}       \* the clear-all test notification

VARIABLES
  sk,           \* StoreKit's view of each transaction
  undelivered,  \* transactions the observer has yet to be told of
  paidAt,       \* receipt version in which a paid transaction appears
  device,       \* version of the receipt file on the device
  skRequests,   \* SKRequests that have not finished
  judged,       \* history: transactions whose verdict the client acted on
  cleared       \* history: transactions the clear-all notification wiped

vars == <<userid, keychain, receipt, queue, current, timers, reach, requests,
          sk, undelivered, paidAt, device, skRequests, judged, cleared>>

StoreKitState == {"none", "purchasing", "purchased", "failed", "finished"}

TypeOK ==
  /\ VMTypeOK
  /\ sk \in [Txn -> StoreKitState]
  /\ undelivered \in SUBSET Txn
  /\ paidAt \in [Txn -> Receipt]
  /\ device \in Receipt
  /\ skRequests \in SUBSET {"products", "receipt"}
  /\ judged \in SUBSET Txn
  /\ cleared \in SUBSET Txn

Init ==
  /\ VMInit
  /\ sk = [t \in Txn |-> "none"]
  /\ undelivered = {}
  /\ paidAt = [t \in Txn |-> NoReceipt]
  /\ device = NoReceipt
  /\ skRequests = {}
  /\ judged = {}
  /\ cleared = {}

-----------------------------------------------------------------------------
(* StoreKit *)

Unfinished == {t \in Txn : sk[t] \in {"purchasing", "purchased", "failed"}}

\* What [[SKPaymentQueue defaultQueue] transactions] may return: the code
\* expects it to come back empty now and then.
Listings == {Unfinished} \cup (IF "hide" \in Disturbances THEN {{}} ELSE {})

\* r is the newest version of the receipt there is.
IsLatest(r) == /\ \A t \in Txn : paidAt[t] <= r
               /\ r = NoReceipt \/ \E t \in Txn : paidAt[t] = r

\* finishTransaction of the transactions in F.
Finished(F) ==
  [t \in Txn |-> IF t \notin F THEN sk[t]
                 ELSE CASE sk[t] = "purchased" -> "finished"
                        [] sk[t] = "failed"    -> "none"
                        [] OTHER               -> sk[t]]

BuyProduct(t) ==
  /\ sk[t] = "none"
  /\ sk' = [sk EXCEPT ![t] = "purchasing"]
  /\ UNCHANGED <<vmVars, undelivered, paidAt, device, skRequests, judged, cleared>>

\* The App Store charges the user and, as a rule, writes a new receipt.  An
\* observer is told now, or of the whole queue when one is next added.
StoreKitPurchased(t) ==
  /\ sk[t] = "purchasing"
  /\ \E r \in Receipt \ {NoReceipt} :
       /\ IsLatest(r - 1)
       /\ paidAt' = [paidAt EXCEPT ![t] = r]
       /\ \/ device' = r
          \/ "noreceipt" \in Disturbances /\ device = NoReceipt /\ UNCHANGED device
  /\ sk' = [sk EXCEPT ![t] = "purchased"]
  /\ undelivered' = IF userid = NoUser THEN undelivered ELSE undelivered \cup {t}
  /\ UNCHANGED <<vmVars, skRequests, judged, cleared>>

StoreKitFailed(t) ==
  /\ sk[t] = "purchasing"
  /\ sk' = [sk EXCEPT ![t] = "failed"]
  /\ undelivered' = IF userid = NoUser THEN undelivered ELSE undelivered \cup {t}
  /\ UNCHANGED <<vmVars, paidAt, device, skRequests, judged, cleared>>

-----------------------------------------------------------------------------
(* BLPaymentManager *)

\* fetchTransactionReceiptDataInCurrentDevice for user u: with no receipt
\* file, and models waiting for one, StoreKit is asked for it.
FetchReceipt(u) ==
  skRequests' = IF device = NoReceipt /\ keychain[u] # {}
                THEN skRequests \cup {"receipt"} ELSE skRequests

\* Mutant: the push without transactionDidStoreInKeyChain.
FreshUnchecked(u, T) == {t \in T : sk[t] = "purchased"}

\* The transactions of T that pushPaymentTransactionIntoOperationTaskQueue-
\* IfNeed appends.
Fresh(u, T) == {t \in T : sk[t] = "purchased" /\ ~Stored(keychain, u, t)}

\* Mutant: the append returns for a busy verify manager before it persists.
SavedWhenIdle(u, T) ==
  IF current # NoTask THEN keychain
  ELSE SaveModels(keychain, u, {NewModel(t) : t \in Fresh(u, T)})

\* The keychain once the fresh transactions of T are saved.
Saved(u, T) == SaveModels(keychain, u, {NewModel(t) : t \in Fresh(u, T)})

\* What appending the fresh transactions of T one by one does to the verify
\* manager: an idle one tries to start at each append until it has a task.
\* Constrains queue', current', timers', requests'; q is the queue before.
Append(u, T, rc, q) ==
  IF Fresh(u, T) = {} \/ current # NoTask
  THEN queue' = q /\ UNCHANGED <<current, timers, requests>>
  ELSE HasRoom /\ \E t \in Fresh(u, T) :
         StartVerifying(u,
           IF rc # NoReceipt /\ reach' = "Reachable" THEN Saved(u, {t})
                                                    ELSE Saved(u, T),
           rc, NoTask, requests)

\* checkUnfinishedTransactionInSandbox: finish what was never paid, append
\* what is not persisted.  The first transaction found flagged is finished
\* and ends the loop; seen is what StoreKit listed before it.
CheckUnfinished(u, rc, q) ==
  \E listed \in Listings :
    LET marked == {t \in listed : sk[t] = "purchased" /\ FlaggedValid(keychain, u, t)}
        unpaid(T) == {t \in T : sk[t] = "failed"}
    IN \/ /\ marked = {}
          /\ keychain' = Saved(u, listed)
          /\ sk' = Finished(unpaid(listed))
          /\ Append(u, listed, rc, q)
       \/ \E t \in marked, seen \in SUBSET (listed \ marked) :
            /\ keychain' = DeleteModel(Saved(u, seen), u, t)
            /\ sk' = Finished(unpaid(seen) \cup {t})
            /\ Append(u, seen, rc, q)

\* startTransactionObservingAndPaymentTransactionVerifingWithUserID: a new
\* verify manager, which has heard nothing of the network yet.  StoreKit
\* tells the new observer of every transaction still in its queue.
Login(u) ==
  /\ userid = NoUser
  /\ userid' = u
  /\ receipt' = device
  /\ UNCHANGED reach
  /\ FetchReceipt(u)
  /\ CheckUnfinished(u, device,
       IF device = NoReceipt THEN {} ELSE PlannedQueue(keychain[u]))
  /\ undelivered' = {t \in Txn : sk'[t] \in {"purchased", "failed"}}
  /\ UNCHANGED <<paidAt, device, judged, cleared>>

\* applicationWillEnterForegroundNotification.  Without a verify manager
\* the messages to it do nothing and only unpaid transactions are finished.
WillEnterForeground ==
  /\ "foreground" \in Disturbances
  /\ IF userid = NoUser
     THEN /\ \E listed \in Listings : sk' = Finished({t \in listed : sk[t] = "failed"})
          /\ UNCHANGED vmVars
     ELSE /\ UNCHANGED <<userid, receipt, reach>>
          /\ CheckUnfinished(userid, receipt, queue)
  /\ undelivered' = {t \in undelivered : sk'[t] = sk[t]}
  /\ UNCHANGED <<paidAt, device, skRequests, judged, cleared>>

\* updatedTransactions, a purchased transaction: transactionPurchased.
TransactionPurchased(t) ==
  /\ userid # NoUser
  /\ t \in undelivered /\ sk[t] = "purchased"
  /\ undelivered' = undelivered \ {t}
  /\ FetchReceipt(userid)
  /\ \/ /\ FlaggedValid(keychain, userid, t)
        /\ RefreshReceiptData(userid, device)
        /\ keychain' = DeleteModel(keychain, userid, t)
        /\ sk' = Finished({t})
        /\ UNCHANGED timers
     \/ /\ ~FlaggedValid(keychain, userid, t)
        /\ Stored(keychain, userid, t) \/ current # NoTask
        /\ RefreshReceiptData(userid, device)
        /\ keychain' = Saved(userid, {t})
        /\ UNCHANGED <<sk, timers>>
     \/ /\ ~Stored(keychain, userid, t) /\ current = NoTask
        /\ HasRoom
        /\ receipt' = IF device = NoReceipt THEN receipt ELSE device
        /\ keychain' = Saved(userid, {t})
        /\ reach' = reach
        /\ StartVerifying(userid, keychain', receipt', NoTask, requests)
        /\ UNCHANGED sk
  /\ UNCHANGED <<userid, reach, paidAt, device, judged, cleared>>

\* Mutant: every delivered transaction is finished, whatever its state.
FinishesAnyDelivered(t) ==
  /\ userid # NoUser
  /\ t \in undelivered
  /\ undelivered' = undelivered \ {t}
  /\ sk' = Finished({t})
  /\ UNCHANGED <<vmVars, paidAt, device, skRequests, judged, cleared>>

\* updatedTransactions, a failed or cancelled transaction.
TransactionFailed(t) ==
  /\ userid # NoUser
  /\ t \in undelivered /\ sk[t] = "failed"
  /\ undelivered' = undelivered \ {t}
  /\ sk' = Finished({t})
  /\ UNCHANGED <<vmVars, paidAt, device, skRequests, judged, cleared>>

\* fetchProductInfoWithProductIdentifiers starts an SKProductsRequest.
FetchProductInfo ==
  /\ "products" \in Disturbances
  /\ skRequests' = skRequests \cup {"products"}
  /\ UNCHANGED <<vmVars, sk, undelivered, paidAt, device, judged, cleared>>

\* requestDidFinish of either kind of SKRequest.  A receipt refresh may
\* have put the latest receipt on the device.
RequestDidFinish(kind) ==
  /\ kind \in skRequests
  /\ device' = device \/ (kind = "receipt" /\ device' \in Receipt /\ IsLatest(device'))
  /\ IF userid = NoUser
     THEN /\ skRequests' = skRequests \ {kind}
          /\ UNCHANGED vmVars
     ELSE /\ skRequests' = (skRequests \ {kind}) \cup
                IF device' = NoReceipt /\ keychain[userid] # {} THEN {"receipt"} ELSE {}
          /\ RefreshReceiptData(userid, device')
          /\ UNCHANGED <<userid, keychain, timers, reach>>
  /\ UNCHANGED <<sk, undelivered, paidAt, judged, cleared>>

\* logoutPaymentManager.  Bound: not while a delayed start is pending, whose
\* block keeps the old verify manager alive until it fires.
Logout ==
  /\ "logout" \in Disturbances
  /\ userid # NoUser /\ timers = 0
  /\ VerifyManagerGone
  /\ undelivered' = {}
  /\ skRequests' = skRequests \ {"products"}
  /\ UNCHANGED <<keychain, sk, paidAt, device, judged, cleared>>

\* BLClearAllUnfinishedTransiactionNotification, which both managers hear.
ClearAllUnfinishedTransactions ==
  /\ "clear" \in Disturbances
  /\ \E listed \in Listings :
       /\ sk' = Finished(listed)
       /\ cleared' = cleared \cup
            {t \in Txn : /\ sk[t] = "purchased"
                        /\ \/ sk'[t] = "finished"
                           \/ userid # NoUser /\ Stored(keychain, userid, t)}
  /\ keychain' = IF userid = NoUser THEN keychain ELSE DeleteAllModels(keychain, userid)
  /\ undelivered' = {t \in undelivered : sk'[t] = sk[t]}
  /\ UNCHANGED <<userid, receipt, queue, current, timers, reach, requests,
                 paidAt, device, skRequests, judged>>

-----------------------------------------------------------------------------
(* The server's answers, and the manager's part in them as the delegate *)

\* finishATransationWithIndentifier: finish t if StoreKit lists it, else
\* remember in the keychain that the server has answered for it.
FinishOrFlag(t, kc) ==
  \E listed \in Listings :
    IF t \in listed /\ sk[t] # "purchasing"
    THEN sk' = Finished({t}) /\ kc = keychain
    ELSE sk' = sk /\ kc = SetValid(keychain, userid, t)

\* Both verdicts are handled alike: refresh the receipt, finish, delete the
\* model, go on with the next one.
ReceiptVerdict(s) ==
  /\ Outstanding(s, "upload")
  /\ LET r == requests[s] IN
     IF IsCurrent(r)
     THEN /\ \E kc \in {keychain, SetValid(keychain, userid, r.txn)} :
               /\ FinishOrFlag(r.txn, kc)
               /\ ReceiptVerdictForCurrent(s, device, kc)
          /\ FetchReceipt(userid)
          /\ judged' = judged \cup {r.txn}
          /\ undelivered' = {t \in undelivered : sk'[t] = sk[t]}
     ELSE /\ ReceiptVerdictForOther(s)
          /\ UNCHANGED <<sk, skRequests, judged, undelivered>>
  /\ UNCHANGED <<paidAt, device, cleared>>

UploadFailed(s) ==
  /\ UploadCertificateRequestFailed(s, device)
  /\ IF IsCurrent(requests[s]) THEN FetchReceipt(userid) ELSE UNCHANGED skRequests
  /\ UNCHANGED <<sk, undelivered, paidAt, device, judged, cleared>>

VerifyManagerAlone == UNCHANGED <<sk, undelivered, paidAt, device, skRequests, judged, cleared>>

OrderCreated(s) == CreateOrderResponse(s) /\ VerifyManagerAlone
OrderFailed(s) == CreateOrderRequestFailed(s) /\ VerifyManagerAlone
StartDelayed == DelayedStart /\ VerifyManagerAlone
Dropped(s) == "drop" \in Disturbances /\ RequestDropped(s) /\ VerifyManagerAlone

\* The verify manager is told of the network once it exists, and again
\* whenever the network changes.
NetworkChanged(status) ==
  /\ reach = "Unknown" \/ "network" \in Disturbances
  /\ ReachabilityChanged(status)
  /\ VerifyManagerAlone

-----------------------------------------------------------------------------
(* The process dies *)

\* Everything volatile goes; the next process logs in anew.
ProcessGone ==
  /\ VerifyManagerGone
  /\ undelivered' = {}
  /\ skRequests' = {}
  /\ UNCHANGED <<paidAt, device, cleared>>

\* Between two handlers: killed, or terminated with notice.
Terminate ==
  /\ "crash" \in Disturbances
  /\ ProcessGone
  /\ UNCHANGED <<keychain, sk, judged>>

\* Some handler is about to write the keychain.
WritePending ==
  \/ \E t \in Unfinished : /\ sk[t] = "purchased"
                           /\ ~Stored(keychain, userid, t) \/ FlaggedValid(keychain, userid, t)
                           /\ t \in undelivered \/ "foreground" \in Disturbances
  \/ \E s \in Slot : /\ requests[s] # NoRequest
                     /\ IsCurrent(requests[s])
                     /\ Stored(keychain, userid, requests[s].txn)

\* Inside a write, between the removal of the item and its new value.
CrashInsideWrite ==
  /\ "crash" \in Disturbances
  /\ userid # NoUser /\ WritePending
  /\ ProcessGone
  /\ keychain' = ItemRemoved
  /\ UNCHANGED <<sk, judged>>

\* Between the deletion of a flagged model and finishTransaction.
CrashBeforeFinish(t) ==
  /\ "crash" \in Disturbances
  /\ userid # NoUser
  /\ t \in undelivered /\ sk[t] = "purchased" /\ FlaggedValid(keychain, userid, t)
  /\ ProcessGone
  /\ keychain' = DeleteModel(keychain, userid, t)
  /\ UNCHANGED <<sk, judged>>

\* In the handler of a verdict: after the transaction has been finished or
\* its model flagged, before the model has been deleted.
CrashInVerdict(s) ==
  /\ "crash" \in Disturbances
  /\ Outstanding(s, "upload") /\ IsCurrent(requests[s])
  /\ \E kc \in {keychain, SetValid(keychain, userid, requests[s].txn)} :
       /\ FinishOrFlag(requests[s].txn, kc)
       /\ keychain' \in {kc, ItemRemoved}
  /\ ProcessGone
  /\ judged' = judged \cup {requests[s].txn}

-----------------------------------------------------------------------------
Next ==
  \/ \E u \in User : Login(u)
  \/ \E t \in Txn : \/ BuyProduct(t)
                    \/ StoreKitPurchased(t)
                    \/ StoreKitFailed(t)
                    \/ TransactionPurchased(t)
                    \/ TransactionFailed(t)
                    \/ CrashBeforeFinish(t)
  \/ \E s \in Slot : \/ OrderCreated(s)
                     \/ OrderFailed(s)
                     \/ ReceiptVerdict(s)
                     \/ UploadFailed(s)
                     \/ Dropped(s)
                     \/ CrashInVerdict(s)
  \/ \E status \in {"NotReachable", "Reachable"} : NetworkChanged(status)
  \/ \E kind \in {"products", "receipt"} : RequestDidFinish(kind)
  \/ StartDelayed
  \/ WillEnterForeground
  \/ FetchProductInfo
  \/ Logout
  \/ ClearAllUnfinishedTransactions
  \/ Terminate
  \/ CrashInsideWrite

Spec == Init /\ [][Next]_vars

\* What the environment owes the client: StoreKit delivers, delayed starts
\* fire, a request is answered or fails (unless it is cancelled and lost:
\* Dropped), someone logs in to an idle app, and a network not reported
\* reachable will be.  Once it is, nothing more need be reported: the callback
\* is called on changes only.
ServerAnswers(s) == OrderCreated(s) \/ OrderFailed(s) \/ ReceiptVerdict(s) \/ UploadFailed(s)

Fairness ==
  /\ \A t \in Txn : WF_vars(TransactionPurchased(t))
  /\ \A s \in Slot : WF_vars(ServerAnswers(s))
  /\ WF_vars(StartDelayed)
  /\ WF_vars(\E u \in User : Login(u))
  /\ WF_vars(reach # "Reachable" /\ NetworkChanged("Reachable"))

FairSpec == Spec /\ Fairness

\* The request of the current task for t, tried again and again, succeeds.
RequestFor(s, t) == requests[s] # NoRequest /\ requests[s].txn = t /\ IsCurrent(requests[s])
OrdersRecover == \A t \in Txn : SF_vars(\E s \in Slot : RequestFor(s, t) /\ OrderCreated(s))
UploadsRecover == \A t \in Txn : SF_vars(\E s \in Slot : RequestFor(s, t) /\ ReceiptVerdict(s))

OrdersRecoverSpec == FairSpec /\ OrdersRecover
RecoveringSpec == OrdersRecoverSpec /\ UploadsRecover

-----------------------------------------------------------------------------
(* Safety *)

\* No purchase is lost: a paid transaction leaves StoreKit's queue, whose
\* redelivery is the only other copy of it, only once the client has acted
\* on the server's verdict, across crashes, hidden lists and logouts.
NoPurchaseLost ==
  \A t \in Txn : sk[t] = "finished" => t \in judged \/ t \in cleared

\* "The model is persisted to the keychain" (BLPaymentManager.h:29): once told,
\* of a purchase, the client has it in the keychain until the verdict.
DeliveredIsPersisted ==
  \A t \in Txn :
    sk[t] = "purchased" /\ userid # NoUser /\ t \notin undelivered
      => Stored(keychain, userid, t) \/ t \in judged \/ t \in cleared

\* A user never has two models of one transaction, although saving replaces
\* only models with the same md5 and an order changes the md5.
OneModelPerTransaction ==
  \A u \in User : \A m, n \in keychain[u] : m.txn = n.txn => m = n

\* The flag with which a redelivered transaction is finished unverified is
\* set only on transactions the server has answered for.
FlaggedWasJudged ==
  \A u \in User : \A m \in keychain[u] : m.valid => m.txn \in judged

\* A receipt is uploaded for a transaction only if it contains it: any other
\* is judged invalid, and the paid transaction finished.
UploadCoversTransaction ==
  \A s \in Slot : requests[s] # NoRequest /\ requests[s].kind = "upload"
                    => paidAt[requests[s].txn] <= requests[s].rcpt

\* Nothing waits for a task that cannot finish: a current task has a request
\* that will be answered or a delayed start to come.
CurrentTaskWillFinish ==
  current # NoTask =>
    \/ \E s \in Slot : requests[s] # NoRequest
    \/ timers > 0 /\ current.state # "Cancel"

\* One transaction is verified at a time: whatever is on the wire without
\* having been cancelled is for the current task, also after a delayed start
\* that fires for another task than it was set up for.
OneTransactionAtATime ==
  \A s \in Slot :
    requests[s] # NoRequest /\ requests[s].attached => IsCurrent(requests[s])

\* A transaction the client has acted on the verdict of, but that StoreKit
\* still has, is flagged in the keychain for when it comes back.
VerdictIsRemembered ==
  \A t \in Txn :
    sk[t] = "purchased" /\ t \in judged /\ userid # NoUser /\ t \notin cleared
      => FlaggedValid(keychain, userid, t)

(* Action properties *)

\* A model leaves the keychain while the verify manager lives only with the
\* verdict on its transaction, or by the clear-all notification.
ModelsLeft ==
  \A u \in User, t \in Txn :
    Stored(keychain, u, t) /\ ~Stored(keychain', u, t) /\ userid' = userid
      => t \in judged' \/ t \in cleared'
ModelsLeaveWithVerdict == [][ModelsLeft]_vars

(* Liveness *)

\* Every purchase gets its verdict, retries, cancellations and competing
\* purchases notwithstanding, if the server and the network recover, unless
\* a current task that cannot finish blocks the queue for ever (which
\* CurrentTaskWillFinish says never happens, and the code lets happen).
EveryPurchaseIsJudged ==
  \A t \in Txn : sk[t] = "purchased" ~> (t \in judged \/ []~CurrentTaskWillFinish)

\* "So that the first failed order is not verified for ever while queued
\* orders are not": a persisted transaction gets a turn, or its verdict.
\* (At the bound counts are no longer told apart, so only below it.)
EveryModelGetsATurn ==
  \A u \in User, t \in Txn :
    (\E m \in keychain[u] : m.txn = t /\ m.count < MaxVerifyCount)
      ~> \/ ~Stored(keychain, u, t)
         \/ current # NoTask /\ current.txn = t

(* Refinement *)

\* How far the ledger has t.  "lost" is no state of the ledger.
LedgerOf(t) ==
  CASE paidAt[t] = NoReceipt -> "unpaid"
    [] paidAt[t] # NoReceipt /\ t \in cleared -> "writtenOff"
    [] paidAt[t] # NoReceipt /\ t \notin cleared ->
         IF sk[t] = "finished" THEN IF t \in judged THEN "closed" ELSE "lost"
                               ELSE IF t \in judged THEN "judged" ELSE "paid"

Ledger == INSTANCE PaymentLedger WITH ledger <- [t \in Txn |-> LedgerOf(t)]

\* The client implements the ledger.
ImplementsLedger == Ledger!Spec
=============================================================================
