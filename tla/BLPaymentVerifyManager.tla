---------------------- MODULE BLPaymentVerifyManager ----------------------
(***************************************************************************)
(* BLPaymentVerifyManager and BLPaymentVerifyTask: the queue that sends    *)
(* the persisted transactions of the logged-in user, one at a time, to the *)
(* application's server (create an order, then upload the receipt) and     *)
(* acts on the answers.                                                    *)
(*                                                                         *)
(* The operators are the methods of the two classes.  Each constrains the  *)
(* next value of this module's variables that its comment names, so that   *)
(* BLPaymentManager, whose callbacks run inside these methods, can compose *)
(* them into whole handlers.  Everything runs on the main thread, one      *)
(* handler at a time.                                                      *)
(*                                                                         *)
(* operationTaskQueue is kept as the set of its transactions: a queue is   *)
(* rebuilt from the keychain whenever a task is taken from its head, so    *)
(* the order behind the head and the snapshots in its tasks are never      *)
(* used.  The order decides the head: see Firsts.                          *)
(***************************************************************************)
EXTENDS BLWalletKeyChainStore, FiniteSets

CONSTANTS Slot,        \* bound: one per server request outstanding at once
          MaxTimers,   \* bound: delayed starts pending at once
          NoUser,      \* no verify manager exists
          NoTask,      \* currentVerifingTask is nil
          NoRequest    \* a free slot

ASSUME MaxTimersAssumption == MaxTimers \in Nat

VARIABLES
  userid,    \* whose verify manager exists, or NoUser
  keychain,  \* the persisted models
  receipt,   \* transactionReceiptData
  queue,     \* the transactions of operationTaskQueue
  current,   \* currentVerifingTask
  timers,    \* dispatch_after blocks that have not fired
  reach,     \* the verify manager's network reachability status
  requests   \* server requests that have not been answered

vmVars == <<userid, keychain, receipt, queue, current, timers, reach, requests>>

\* A task is a snapshot of a model and of the receipt, and a state.
TaskState == {"Default", "WaitingForServersResponse", "Cancel"}
Task == [txn : Txn, count : VerifyCount, order : Receipt, rcpt : Receipt,
         state : TaskState]

\* A request answers to the task that sent it.  It is attached while that
\* task is the current one and has not been cancelled.
Request == [kind : {"createOrder", "upload"}, txn : Txn, count : VerifyCount,
            rcpt : Receipt, attached : BOOLEAN]

ReachabilityStatus == {"Unknown", "NotReachable", "Reachable"}

ASSUME NoUserAssumption == NoUser \notin User
ASSUME NoTaskAssumption == NoTask \notin Task
ASSUME NoRequestAssumption == NoRequest \notin Request

VMTypeOK ==
  /\ userid \in User \cup {NoUser}
  /\ keychain \in [User -> SUBSET Model]
  /\ receipt \in Receipt
  /\ queue \in SUBSET Txn
  /\ current \in Task \cup {NoTask}
  /\ timers \in 0..MaxTimers
  /\ reach \in ReachabilityStatus
  /\ requests \in [Slot -> Request \cup {NoRequest}]

VMInit ==
  /\ userid = NoUser
  /\ keychain = ItemRemoved
  /\ receipt = NoReceipt
  /\ queue = {}
  /\ current = NoTask
  /\ timers = 0
  /\ reach = "Unknown"
  /\ requests = [s \in Slot |-> NoRequest]

-----------------------------------------------------------------------------
\* dynamicPlanNeedVerifyModelsWithAllModels, applied to the models the
\* server has not answered for: those never verified, else the retries.
NeverVerified(S) == {m \in S : ~m.valid /\ m.count = 0}
Retries(S) == {m \in S : ~m.valid /\ m.count # 0}
VerifyNow(S) == IF NeverVerified(S) # {} THEN NeverVerified(S) ELSE Retries(S)

\* The comparator the retries are sorted with: TRUE is NSOrderedDescending,
\* m goes behind n.
Behind(m, n) == m.count < n.count

\* The models the queue may have at its head: models come out of an NSSet
\* in no order, and none may stand in front of the head once sorted.
Firsts(S) == {m \in VerifyNow(S) : \A n \in VerifyNow(S) : ~Behind(m, n)}

PlannedQueue(S) == {m.txn : m \in VerifyNow(S)}

NewTask(m, rc) == [txn |-> m.txn, count |-> m.count, order |-> m.order,
                   rcpt |-> rc, state |-> "Default"]

CancelTask(c) == IF c = NoTask THEN NoTask ELSE [c EXCEPT !.state = "Cancel"]

\* Mutant: a task that is replaced is not cancelled.
StillAttached(rq) == rq

\* What the cancellation of its task leaves of each request: the server may
\* still answer, to a task that was given up.
Detached(rq) ==
  [s \in Slot |-> IF rq[s] = NoRequest THEN NoRequest
                  ELSE [rq[s] EXCEPT !.attached = FALSE]]

\* An order exists for the receipt at hand: upload it; else ask for one.
RequestOf(t) ==
  [kind |-> IF t.order # NoReceipt /\ t.order = t.rcpt
            THEN "upload" ELSE "createOrder",
   txn |-> t.txn, count |-> t.count, rcpt |-> t.rcpt, attached |-> TRUE]

\* -start of task t: current', requests'.  A cancelled task does not start;
\* one that waits for an answer starts again.
StartTask(t, rq) ==
  IF t.state = "Cancel"
  THEN current' = t /\ requests' = rq
  ELSE \E s \in Slot :
         /\ rq[s] = NoRequest
         /\ current' = [t EXCEPT !.state = "WaitingForServersResponse"]
         /\ requests' = [rq EXCEPT ![s] = RequestOf(t)]

\* startFirstTaskInOperationQueueIfNeed from the retries on: current',
\* timers', requests'.  A model that failed before starts after a delay.
StartModel(m, rc, rq) ==
  IF m.count > 0
  THEN /\ timers < MaxTimers
       /\ timers' = timers + 1
       /\ current' = NewTask(m, rc)
       /\ requests' = rq
  ELSE StartTask(NewTask(m, rc), rq) /\ UNCHANGED timers

\* internalStartPaymentTransactionVerifing: cancel task cur, rebuild the
\* queue from u's models in kc, start its head if there is a network.
\* Constrains queue', current', timers', requests'; reach' comes first.
StartVerifying(u, kc, rc, cur, rq) ==
  /\ queue' = IF rc = NoReceipt THEN queue ELSE PlannedQueue(kc[u])
  /\ IF queue' = {} \/ reach' # "Reachable"
     THEN /\ current' = CancelTask(cur)
          /\ requests' = Detached(rq)
          /\ UNCHANGED timers
     ELSE \E m \in Firsts(kc[u]) : StartModel(m, rc, Detached(rq))

\* Mutant: the first receipt is kept.
KeepReceiptData(u, rc) ==
  IF rc = NoReceipt \/ receipt # NoReceipt
  THEN UNCHANGED <<receipt, queue, current, requests>>
  ELSE /\ receipt' = rc
       /\ queue' = PlannedQueue(keychain[u])
       /\ current' = CancelTask(current)
       /\ requests' = Detached(requests)

\* refreshTransactionReceiptData: the new receipt, resetAllIfNeed, and no
\* start.  Constrains receipt', queue', current', requests'.
RefreshReceiptData(u, rc) ==
  IF rc = NoReceipt
  THEN UNCHANGED <<receipt, queue, current, requests>>
  ELSE /\ receipt' = rc
       /\ queue' = PlannedQueue(keychain[u])
       /\ current' = CancelTask(current)
       /\ requests' = Detached(requests)

\* inspectTask:isCurrentVerifyTask: with assertions compiled out.  Tasks
\* are equal when their transaction and product are.
IsCurrent(r) == current # NoTask /\ current.txn = r.txn

Answered(s) == [requests EXCEPT ![s] = NoRequest]

\* Bound: a step that may send a request or delay a start, and takes none
\* away, waits while as many of them are pending as there is room for.
HasRoom == timers + Cardinality({s \in Slot : requests[s] # NoRequest}) < MaxTimers

Outstanding(s, kind) == requests[s] # NoRequest /\ requests[s].kind = kind

-----------------------------------------------------------------------------
\* Mutant: the network coming back starts nothing.
ReachabilityNoted(status) ==
  /\ userid # NoUser
  /\ reach' = status
  /\ UNCHANGED <<userid, keychain, receipt, queue, current, timers, requests>>

\* networkReachabilityByAFN's block.  WWAN and WiFi count alike.
ReachabilityChanged(status) ==
  /\ userid # NoUser
  /\ reach' = status
  /\ IF status = "Reachable"
     THEN HasRoom /\ StartVerifying(userid, keychain, receipt, current, requests)
     ELSE UNCHANGED <<queue, current, timers, requests>>
  /\ UNCHANGED <<userid, keychain, receipt>>

\* The dispatch_after block: starts whatever task is current by now.
DelayedStart ==
  /\ timers > 0
  /\ timers' = timers - 1
  /\ IF current = NoTask THEN UNCHANGED <<current, requests>>
                         ELSE StartTask(current, requests)
  /\ UNCHANGED <<userid, keychain, receipt, queue, reach>>

CreateOrderResponse(s) ==
  /\ Outstanding(s, "createOrder")
  /\ UNCHANGED <<userid, receipt, reach>>
  /\ LET r == requests[s] IN
     IF IsCurrent(r)
     THEN /\ keychain' = SetOrder(keychain, userid, r.txn, r.rcpt)
          /\ StartVerifying(userid, keychain', receipt, NoTask, Answered(s))
     ELSE /\ UNCHANGED keychain
          /\ StartVerifying(userid, keychain, receipt, current, Answered(s))

CreateOrderRequestFailed(s) ==
  /\ Outstanding(s, "createOrder")
  /\ UNCHANGED <<userid, keychain, receipt, reach>>
  /\ StartVerifying(userid, keychain, receipt,
                    IF IsCurrent(requests[s]) THEN NoTask ELSE current,
                    Answered(s))

\* The delegate hands over receipt rc, NoReceipt if the device has none.
UploadCertificateRequestFailed(s, rc) ==
  /\ Outstanding(s, "upload")
  /\ UNCHANGED <<userid, reach>>
  /\ LET r == requests[s] IN
     IF IsCurrent(r)
     THEN /\ receipt' = IF rc = NoReceipt THEN receipt ELSE rc
          /\ keychain' = SetVerifyCount(keychain, userid, r.txn, OneMore(r.count))
          /\ StartVerifying(userid, keychain', receipt', NoTask, Answered(s))
     ELSE /\ UNCHANGED <<keychain, receipt>>
          /\ StartVerifying(userid, keychain, receipt, current, Answered(s))

\* paymentVerifyTaskDidReceiveResponseReceiptValid and ...Invalid for the
\* current task.  The delegate hands over receipt rc and leaves models kc.
ReceiptVerdictForCurrent(s, rc, kc) ==
  /\ UNCHANGED <<userid, reach>>
  /\ receipt' = IF rc = NoReceipt THEN receipt ELSE rc
  /\ keychain' = DeleteModel(kc, userid, requests[s].txn)
  /\ StartVerifying(userid, keychain', receipt', NoTask, Answered(s))

\* The same answers for a task that is not the current one.
ReceiptVerdictForOther(s) ==
  /\ UNCHANGED <<userid, keychain, receipt, reach>>
  /\ StartVerifying(userid, keychain, receipt, current, Answered(s))

\* The request of a cancelled or replaced task may never be answered.
RequestDropped(s) ==
  /\ requests[s] # NoRequest
  /\ ~requests[s].attached
  /\ requests' = Answered(s)
  /\ UNCHANGED <<userid, keychain, receipt, queue, current, timers, reach>>

\* The verify manager and its tasks are released; the keychain stays.
VerifyManagerGone ==
  /\ userid' = NoUser
  /\ receipt' = NoReceipt
  /\ queue' = {}
  /\ current' = NoTask
  /\ timers' = 0
  /\ reach' = "Unknown"
  /\ requests' = [s \in Slot |-> NoRequest]
=============================================================================
