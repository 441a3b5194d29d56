------------------ MODULE BLPaymentVerifyManager_proofs ------------------
(***************************************************************************)
(* Lemmas about the keychain store and the verify manager.  The proofs     *)
(* about the managers cite them and never expand the operations.           *)
(***************************************************************************)
EXTENDS BLPaymentVerifyManager, TLAPS

(***************************************************************************)
(* What each operation of the keychain store returns, for every number of  *)
(* users, transactions and receipts.                                       *)
(***************************************************************************)
Keychain == [User -> SUBSET Model]

\* An index search that finds something finds a model of that transaction.
LEMMA MatchingFound ==
  ASSUME NEW kc, NEW u, NEW t, Stored(kc, u, t)
  PROVE  Matching(kc, u, t) \in kc[u] /\ Matching(kc, u, t).txn = t
  BY DEF Stored, Matching

\* A model found that way is a well-formed model.
LEMMA MatchingType ==
  ASSUME NEW kc \in Keychain, NEW u \in User, NEW t, Stored(kc, u, t)
  PROVE  Matching(kc, u, t) \in Model
  BY MatchingFound DEF Keychain

\* The count stays within its bound.
LEMMA OneMoreType ==
  ASSUME NEW n \in VerifyCount
  PROVE  OneMore(n) \in VerifyCount
  BY MaxVerifyCountAssumption DEF OneMore, VerifyCount

LEMMA NewModelType ==
  ASSUME NEW t \in Txn
  PROVE  NewModel(t) \in Model /\ NewModel(t).txn = t /\ ~NewModel(t).valid
  BY MaxReceiptAssumption, MaxVerifyCountAssumption
     DEF NewModel, Model, VerifyCount, Receipt, NoReceipt

\* Saving adds the new models for u, keeps others' models as they are, and
\* drops only models that a new one of the same transaction replaces.
LEMMA SaveModelsResult ==
  ASSUME NEW kc \in Keychain, NEW u \in User, NEW M \in SUBSET Model
  PROVE  /\ SaveModels(kc, u, M) \in Keychain
         /\ M \subseteq SaveModels(kc, u, M)[u]
         /\ \A v \in User : SaveModels(kc, u, M)[v] \subseteq kc[v] \cup M
         /\ \A v \in User : v # u => SaveModels(kc, u, M)[v] = kc[v]
         /\ \A v \in User, t \in Txn : Stored(kc, v, t) => Stored(SaveModels(kc, u, M), v, t)
  BY DEF SaveModels, Keychain, Stored, SameModel

\* Deleting takes one model of t away from u's, and nothing else.
LEMMA DeleteModelResult ==
  ASSUME NEW kc \in Keychain, NEW u \in User, NEW t \in Txn
  PROVE  /\ DeleteModel(kc, u, t) \in Keychain
         /\ \A v \in User : DeleteModel(kc, u, t)[v] \subseteq kc[v]
         /\ \A v \in User, x \in Txn :
              Stored(kc, v, x) /\ (v # u \/ x # t) => Stored(DeleteModel(kc, u, t), v, x)
  <1>1. CASE ~Stored(kc, u, t)
    BY <1>1 DEF DeleteModel, Keychain
  <1>2. CASE Stored(kc, u, t)
    <2>1. DeleteModel(kc, u, t) = [kc EXCEPT ![u] = kc[u] \ {Matching(kc, u, t)}]
      BY <1>2 DEF DeleteModel
    <2>2. Matching(kc, u, t).txn = t
      BY <1>2, MatchingFound
    <2> QED
      BY <2>1, <2>2 DEF Keychain, Stored
  <1> QED
    BY <1>1, <1>2

\* Replacing the model of t by another of t loses no transaction, and every
\* model there was before, or is the new one.
LEMMA ReplaceResult ==
  ASSUME NEW kc \in Keychain, NEW u \in User, NEW t \in Txn, NEW m,
         Stored(kc, u, t) => m \in Model /\ m.txn = t
  PROVE  /\ Replace(kc, u, t, m) \in Keychain
         /\ \A v \in User : v # u => Replace(kc, u, t, m)[v] = kc[v]
         /\ ~Stored(kc, u, t) => Replace(kc, u, t, m) = kc
         /\ \A v \in User : Replace(kc, u, t, m)[v] \subseteq kc[v] \cup {m}
         /\ \A v \in User, x \in Txn :
              Stored(Replace(kc, u, t, m), v, x) <=> Stored(kc, v, x)
  <1>1. CASE ~Stored(kc, u, t)
    BY <1>1 DEF Replace, Keychain
  <1>2. CASE Stored(kc, u, t)
    <2>1. Replace(kc, u, t, m) =
            [kc EXCEPT ![u] = (kc[u] \ {Matching(kc, u, t)}) \cup {m}]
      BY <1>2 DEF Replace
    <2>2. Matching(kc, u, t) \in kc[u] /\ Matching(kc, u, t).txn = t
      BY <1>2, MatchingFound
    <2>3. m \in Model /\ m.txn = t
      BY <1>2
    <2> QED
      BY <1>2, <2>1, <2>2, <2>3 DEF Keychain, Stored
  <1> QED
    BY <1>1, <1>2

-----------------------------------------------------------------------------
(* The three updates: well-typed, no transaction lost, and only SetValid   *)
(* flags a model.                                                          *)

SameTxns(kc1, kc2) ==
  \A v \in User, x \in Txn : Stored(kc1, v, x) <=> Stored(kc2, v, x)

\* Every model of kc1 that is flagged was, of that transaction, in kc2.
NoNewFlag(kc1, kc2) ==
  \A v \in User, m \in Model :
    m \in kc1[v] /\ m.valid => \E n \in kc2[v] : n.valid /\ n.txn = m.txn

\* Each update of a model leaves a model of the same transaction.
LEMMA CountUpdate ==
  ASSUME NEW m \in Model, NEW n \in VerifyCount
  PROVE  /\ [m EXCEPT !.count = n] \in Model
         /\ [m EXCEPT !.count = n].txn = m.txn
         /\ [m EXCEPT !.count = n].valid = m.valid
  BY DEF Model

LEMMA OrderUpdate ==
  ASSUME NEW m \in Model, NEW r \in Receipt
  PROVE  /\ [m EXCEPT !.order = r] \in Model
         /\ [m EXCEPT !.order = r].txn = m.txn
         /\ [m EXCEPT !.order = r].valid = m.valid
  BY DEF Model

LEMMA ValidUpdate ==
  ASSUME NEW m \in Model
  PROVE  /\ [m EXCEPT !.valid = TRUE] \in Model
         /\ [m EXCEPT !.valid = TRUE].txn = m.txn
  BY DEF Model

LEMMA SetVerifyCountResult ==
  ASSUME NEW kc \in Keychain, NEW u \in User, NEW t \in Txn, NEW n \in VerifyCount
  PROVE  /\ SetVerifyCount(kc, u, t, n) \in Keychain
         /\ SameTxns(SetVerifyCount(kc, u, t, n), kc)
         /\ NoNewFlag(SetVerifyCount(kc, u, t, n), kc)
  <1> DEFINE old == Matching(kc, u, t)
             new == [old EXCEPT !.count = n]
  <1>1. SetVerifyCount(kc, u, t, n) = Replace(kc, u, t, new)
    BY DEF SetVerifyCount
  <1>2. ASSUME Stored(kc, u, t)
        PROVE  /\ old \in kc[u]
               /\ new \in Model /\ new.txn = t
               /\ new.valid = old.valid /\ new.txn = old.txn
    <2>1. old \in kc[u] /\ old \in Model /\ old.txn = t
      BY <1>2, MatchingFound, MatchingType
    <2> HIDE DEF old
    <2> QED
      BY <2>1, CountUpdate
  <1> HIDE DEF new, old
  <1>3. NoNewFlag(Replace(kc, u, t, new), kc)
    BY <1>2, ReplaceResult DEF NoNewFlag
  <1> QED
    BY <1>1, <1>2, <1>3, ReplaceResult DEF SameTxns

LEMMA SetOrderResult ==
  ASSUME NEW kc \in Keychain, NEW u \in User, NEW t \in Txn, NEW r \in Receipt
  PROVE  /\ SetOrder(kc, u, t, r) \in Keychain
         /\ SameTxns(SetOrder(kc, u, t, r), kc)
         /\ NoNewFlag(SetOrder(kc, u, t, r), kc)
  <1> DEFINE old == Matching(kc, u, t)
             new == [old EXCEPT !.order = r]
  <1>1. SetOrder(kc, u, t, r) = Replace(kc, u, t, new)
    BY DEF SetOrder
  <1>2. ASSUME Stored(kc, u, t)
        PROVE  /\ old \in kc[u]
               /\ new \in Model /\ new.txn = t
               /\ new.valid = old.valid /\ new.txn = old.txn
    <2>1. old \in kc[u] /\ old \in Model /\ old.txn = t
      BY <1>2, MatchingFound, MatchingType
    <2> HIDE DEF old
    <2> QED
      BY <2>1, OrderUpdate
  <1> HIDE DEF new, old
  <1>3. NoNewFlag(Replace(kc, u, t, new), kc)
    BY <1>2, ReplaceResult DEF NoNewFlag
  <1> QED
    BY <1>1, <1>2, <1>3, ReplaceResult DEF SameTxns

LEMMA SetValidResult ==
  ASSUME NEW kc \in Keychain, NEW u \in User, NEW t \in Txn
  PROVE  /\ SetValid(kc, u, t) \in Keychain
         /\ SameTxns(SetValid(kc, u, t), kc)
         /\ \A v \in User : \A m \in SetValid(kc, u, t)[v] : m \in kc[v] \/ m.txn = t
  <1> DEFINE old == Matching(kc, u, t)
             new == [old EXCEPT !.valid = TRUE]
  <1>1. SetValid(kc, u, t) = Replace(kc, u, t, new)
    BY DEF SetValid
  <1>2. ASSUME Stored(kc, u, t)
        PROVE  new \in Model /\ new.txn = t
    <2>1. old \in Model /\ old.txn = t
      BY <1>2, MatchingFound, MatchingType
    <2> HIDE DEF old
    <2> QED
      BY <2>1, ValidUpdate
  <1> HIDE DEF new, old
  <1>3. \A v \in User : \A m \in Replace(kc, u, t, new)[v] : m \in kc[v] \/ m.txn = t
    BY <1>2, ReplaceResult
  <1> QED
    BY <1>1, <1>2, <1>3, ReplaceResult DEF SameTxns

LEMMA EmptyResult ==
  ASSUME NEW kc \in Keychain, NEW u \in User
  PROVE  /\ ItemRemoved \in Keychain
         /\ \A v \in User : ItemRemoved[v] = {}
         /\ DeleteAllModels(kc, u) \in Keychain
         /\ DeleteAllModels(kc, u)[u] = {}
         /\ \A v \in User : DeleteAllModels(kc, u)[v] \subseteq kc[v]
         /\ \A v \in User : v # u => DeleteAllModels(kc, u)[v] = kc[v]
  BY DEF ItemRemoved, DeleteAllModels, Keychain

-----------------------------------------------------------------------------
(* One model of each transaction: every operation keeps it that way.       *)

OneEach(kc) == \A u \in User : \A m, n \in kc[u] : m.txn = n.txn => m = n

LEMMA SaveModelsOneEach ==
  ASSUME NEW kc \in Keychain, OneEach(kc), NEW u \in User, NEW T \in SUBSET Txn,
         \A t \in T : ~Stored(kc, u, t)
  PROVE  OneEach(SaveModels(kc, u, {NewModel(t) : t \in T}))
  <1> DEFINE M == {NewModel(t) : t \in T}
  <1>1. /\ M \in SUBSET Model
        /\ \A m \in M : m.txn \in T /\ m = NewModel(m.txn)
    BY NewModelType
  <1>2. \A m \in M, n \in kc[u] : m.txn # n.txn
    BY <1>1 DEF Stored
  <1> HIDE DEF M
  <1>3. \A v \in User : SaveModels(kc, u, M)[v] \subseteq IF v = u THEN kc[u] \cup M ELSE kc[v]
    BY <1>1, SaveModelsResult
  <1>4. \A m, n \in kc[u] \cup M : m.txn = n.txn => m = n
    BY <1>1, <1>2 DEF OneEach
  <1>5. OneEach(SaveModels(kc, u, M))
    BY <1>3, <1>4 DEF OneEach
  <1> QED
    BY <1>5 DEF M

LEMMA DeleteModelOneEach ==
  ASSUME NEW kc \in Keychain, OneEach(kc), NEW u \in User, NEW t \in Txn
  PROVE  OneEach(DeleteModel(kc, u, t)) /\ ~Stored(DeleteModel(kc, u, t), u, t)
  <1>1. OneEach(DeleteModel(kc, u, t))
    BY DeleteModelResult DEF OneEach
  <1>2. CASE ~Stored(kc, u, t)
    BY <1>1, <1>2 DEF DeleteModel
  <1>3. CASE Stored(kc, u, t)
    <2>1. Matching(kc, u, t) \in kc[u] /\ Matching(kc, u, t).txn = t
      BY <1>3, MatchingFound
    <2>2. DeleteModel(kc, u, t)[u] = kc[u] \ {Matching(kc, u, t)}
      BY <1>3 DEF DeleteModel, Keychain
    <2> QED
      BY <1>1, <2>1, <2>2 DEF OneEach, Stored
  <1> QED
    BY <1>2, <1>3

LEMMA ReplaceOneEach ==
  ASSUME NEW kc \in Keychain, OneEach(kc), NEW u \in User, NEW t \in Txn, NEW m,
         Stored(kc, u, t) => m.txn = t
  PROVE  OneEach(Replace(kc, u, t, m))
  <1>1. CASE ~Stored(kc, u, t)
    BY <1>1 DEF Replace
  <1>2. CASE Stored(kc, u, t)
    <2>1. Replace(kc, u, t, m) =
            [kc EXCEPT ![u] = (kc[u] \ {Matching(kc, u, t)}) \cup {m}]
      BY <1>2 DEF Replace
    <2>2. \A n \in kc[u] \ {Matching(kc, u, t)} : n.txn # t
      BY <1>2, MatchingFound DEF OneEach
    <2> QED
      BY <1>2, <2>1, <2>2 DEF Keychain, OneEach
  <1> QED
    BY <1>1, <1>2

LEMMA UpdatesOneEach ==
  ASSUME NEW kc \in Keychain, OneEach(kc), NEW u \in User, NEW t \in Txn,
         NEW n \in VerifyCount, NEW r \in Receipt
  PROVE  /\ OneEach(SetVerifyCount(kc, u, t, n))
         /\ OneEach(SetOrder(kc, u, t, r))
         /\ OneEach(SetValid(kc, u, t))
  <1>1. ASSUME Stored(kc, u, t)
        PROVE  /\ [Matching(kc, u, t) EXCEPT !.count = n].txn = t
               /\ [Matching(kc, u, t) EXCEPT !.order = r].txn = t
               /\ [Matching(kc, u, t) EXCEPT !.valid = TRUE].txn = t
    BY <1>1, MatchingFound, MatchingType DEF Model
  <1> QED
    BY <1>1, ReplaceOneEach DEF SetVerifyCount, SetOrder, SetValid

-----------------------------------------------------------------------------
(***************************************************************************)
(* What each method of the verify manager leaves in the queue, the current *)
(* task, the timers and the requests, whatever keychain and receipt it is  *)
(* given.                                                                  *)
(***************************************************************************)
MaybeTask == Task \cup {NoTask}
Requests == [Slot -> Request \cup {NoRequest}]

\* The part of the state that starting a verification changes.
TasksTypeOK ==
  /\ queue \in SUBSET Txn
  /\ current \in MaybeTask
  /\ timers \in 0..MaxTimers
  /\ requests \in Requests

LEMMA ReceiptFact == NoReceipt \in Receipt
  BY MaxReceiptAssumption DEF NoReceipt, Receipt

LEMMA NewTaskType ==
  ASSUME NEW m \in Model, NEW rc \in Receipt
  PROVE  NewTask(m, rc) \in Task /\ NewTask(m, rc).txn = m.txn
  BY DEF NewTask, Model, Task, TaskState

LEMMA CancelTaskType ==
  ASSUME NEW c \in MaybeTask
  PROVE  /\ CancelTask(c) \in MaybeTask
         /\ CancelTask(c) # NoTask => c # NoTask /\ CancelTask(c).txn = c.txn
  BY DEF CancelTask, MaybeTask, Task, TaskState

LEMMA DetachedType ==
  ASSUME NEW rq \in Requests
  PROVE  /\ Detached(rq) \in Requests
         /\ \A s \in Slot : Detached(rq)[s] # NoRequest =>
              rq[s] # NoRequest /\ Detached(rq)[s].txn = rq[s].txn
  <1>1. ASSUME NEW s \in Slot, rq[s] # NoRequest
        PROVE  [rq[s] EXCEPT !.attached = FALSE] \in Request
    BY <1>1 DEF Requests, Request
  <1>2. ASSUME NEW s \in Slot, rq[s] # NoRequest
        PROVE  [rq[s] EXCEPT !.attached = FALSE].txn = rq[s].txn
    BY <1>2 DEF Requests, Request
  <1> QED
    BY <1>1, <1>2 DEF Detached, Requests

LEMMA RequestOfType ==
  ASSUME NEW t \in Task
  PROVE  RequestOf(t) \in Request /\ RequestOf(t).txn = t.txn
  BY DEF RequestOf, Task, Request

\* A slot that is freed.
LEMMA AnsweredType ==
  ASSUME requests \in Requests, NEW s \in Slot
  PROVE  /\ Answered(s) \in Requests
         /\ \A x \in Slot : Answered(s)[x] # NoRequest => Answered(s)[x] = requests[x]
  BY DEF Answered, Requests

LEMMA PlannedQueueType ==
  ASSUME NEW S \in SUBSET Model
  PROVE  PlannedQueue(S) \in SUBSET Txn /\ Firsts(S) \subseteq S
  BY DEF PlannedQueue, Firsts, VerifyNow, NeverVerified, Retries, Model

LEMMA StartTaskType ==
  ASSUME NEW t \in Task, NEW rq \in Requests, StartTask(t, rq)
  PROVE  current' \in Task /\ requests' \in Requests
  <1>1. [t EXCEPT !.state = "WaitingForServersResponse"] \in Task
    BY DEF Task, TaskState
  <1>2. ASSUME NEW s \in Slot
        PROVE  [rq EXCEPT ![s] = RequestOf(t)] \in Requests
    BY RequestOfType DEF Requests
  <1> QED
    BY <1>1, <1>2 DEF StartTask

\* Whatever keychain, receipt, task and requests it is given, a start
\* leaves a well-formed queue, task, number of timers and requests.
LEMMA StartVerifyingType ==
  ASSUME TasksTypeOK, NEW kc \in Keychain, NEW u \in User, NEW rc \in Receipt,
         NEW cur \in MaybeTask, NEW rq \in Requests,
         StartVerifying(u, kc, rc, cur, rq)
  PROVE  TasksTypeOK'
  <1>1. queue' \in SUBSET Txn
    BY PlannedQueueType DEF StartVerifying, TasksTypeOK, Keychain
  <1>2. CASE queue' = {} \/ reach' # "Reachable"
    BY <1>1, <1>2, CancelTaskType, DetachedType DEF StartVerifying, TasksTypeOK
  <1>3. CASE ~(queue' = {} \/ reach' # "Reachable")
    <2>1. PICK m \in Firsts(kc[u]) : StartModel(m, rc, Detached(rq))
      BY <1>3 DEF StartVerifying
    <2>2. NewTask(m, rc) \in Task
      BY PlannedQueueType, NewTaskType DEF Keychain
    <2>3. Detached(rq) \in Requests
      BY DetachedType
    <2>4. CASE m.count > 0
      BY <1>1, <2>1, <2>2, <2>3, <2>4, MaxTimersAssumption
         DEF StartModel, TasksTypeOK, MaybeTask
    <2>5. CASE ~(m.count > 0)
      BY <1>1, <2>1, <2>2, <2>3, <2>5, StartTaskType
         DEF StartModel, TasksTypeOK, MaybeTask
    <2> QED
      BY <2>4, <2>5
  <1> QED
    BY <1>2, <1>3

\* The receipt is refreshed, the queue rebuilt and the current task cancelled.
LEMMA RefreshReceiptDataType ==
  ASSUME TasksTypeOK, receipt \in Receipt, keychain \in Keychain,
         NEW u \in User, NEW rc \in Receipt, RefreshReceiptData(u, rc), timers' = timers
  PROVE  TasksTypeOK' /\ receipt' \in Receipt
  <1>1. CASE rc = NoReceipt
    BY <1>1 DEF RefreshReceiptData, TasksTypeOK
  <1>2. CASE rc # NoReceipt
    BY <1>2, PlannedQueueType, CancelTaskType, DetachedType
       DEF RefreshReceiptData, TasksTypeOK, Keychain
  <1> QED
    BY <1>1, <1>2
=============================================================================
