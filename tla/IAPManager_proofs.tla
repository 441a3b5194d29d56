-------------------------- MODULE IAPManager_proofs -------------------------
(***************************************************************************)
(* Proofs about IAPManager, for any products and any numbers of calls and  *)
(* of ends of the process.                                                 *)
(***************************************************************************)
EXTENDS IAPManager, TLAPS

USE SoldAssumption, EmptyAssumption, NilAssumption, BoundsAssumption

-----------------------------------------------------------------------------
(* How far a purchase is: its lookup, its transaction in StoreKit's queue, *)
(* its verification and its answer follow one another.                     *)
Progress(c) ==
  /\ c \in lookups => /\ asked[c] # Nil /\ queue[c] = "None"
                      /\ verifying[c] = Nil /\ answers[c] = <<>>
  /\ queue[c] # "None" => asked[c] # Nil
  /\ InQueue(c) => verifying[c] = Nil /\ answers[c] = <<>>
  /\ verifying[c] # Nil => /\ c \in finished /\ queue[c] = "Purchased"
                           /\ answers[c] = <<>>
  /\ asked[c] = Nil => answers[c] = <<>>
  /\ Len(answers[c]) <= 1

(* Calls are numbered in turn, the handle is that of the latest one, and   *)
(* every other call that is under way has been noted.                      *)
HandleInv ==
  /\ \A c, d \in Call : asked[c] = Nil /\ c < d => asked[d] = Nil
  /\ handle # Nil => /\ asked[handle] # Nil
                     /\ \A d \in Call : handle < d => asked[d] = Nil
  /\ \A c \in UnderWay : c # handle => c \in unsettled

IAPInv == /\ TypeOK
          /\ \A c \in Call : Progress(c)
          /\ HandleInv
          /\ PaidIsVerified
          /\ AnswersReachTheirCall

-----------------------------------------------------------------------------
(* handleActionWithType, called about a purchase that is under way and has *)
(* no answer yet, keeps what is known of the answers.                      *)
LEMMA HandlesTold ==
  ASSUME IAPInv, NEW c \in Call, NEW type \in ResultType,
         c \in UnderWay, Handles(c, type, handle), UNCHANGED unsettled,
         asked' = asked
  PROVE  AnswersReachTheirCall'
<1>1. answers[c] = <<>> /\ asked[c] # Nil
  BY DEF IAPInv, Progress, UnderWay, InQueue, TypeOK, TransactionState
<1>2. handle \in Call \cup {Nil} /\ answers \in [Call -> Seq(Told)]
  BY DEF IAPInv, TypeOK
<1>3. c # handle => c \in unsettled /\ (handle = Nil \/ handle > c)
  <2>1. c # handle => c \in unsettled
    BY DEF IAPInv, HandleInv
  <2>2. handle # Nil => ~(handle < c)
    BY <1>1 DEF IAPInv, HandleInv
  <2>. QED
    BY <2>1, <2>2, <1>2 DEF Call
<1>4. answers' = [answers EXCEPT ![c] = <<[type |-> type, to |-> handle]>>]
  BY <1>1, <1>2 DEF Handles
<1>. QED
  BY <1>1, <1>2, <1>3, <1>4 DEF AnswersReachTheirCall, IAPInv, ResultType

(* The same for the types.                                                 *)
LEMMA HandlesType ==
  ASSUME TypeOK, NEW c \in Call, NEW type \in ResultType \cup {"Silent"},
         NEW h \in Call \cup {Nil}, Handles(c, type, h)
  PROVE  /\ answers' \in [Call -> Seq(Told)]
         /\ answers'[c] = Append(answers[c], [type |-> type, to |-> h])
         /\ \A d \in Call \ {c} : answers'[d] = answers[d]
<1>1. answers \in [Call -> Seq(Told)]
  BY DEF TypeOK
<1>2. [type |-> type, to |-> h] \in Told
  BY DEF Told
<1>3. Append(answers[c], [type |-> type, to |-> h]) \in Seq(Told)
  BY <1>1, <1>2
<1>. QED
  BY <1>1, <1>3 DEF Handles

(* The first answer about a purchase that is under way.                    *)
LEMMA FirstAnswer ==
  ASSUME IAPInv, NEW c \in UnderWay, NEW type \in ResultType \cup {"Silent"},
         NEW h \in Call \cup {Nil}, Handles(c, type, h)
  PROVE  /\ answers' \in [Call -> Seq(Told)]
         /\ answers'[c] = <<[type |-> type, to |-> h]>>
         /\ answers'[c] # <<>> /\ Len(answers'[c]) = 1
         /\ \A d \in Call \ {c} : answers'[d] = answers[d]
         /\ c \in Call /\ answers[c] = <<>> /\ asked[c] # Nil
<1>1. c \in Call /\ answers[c] = <<>> /\ asked[c] # Nil
  BY DEF IAPInv, Progress, UnderWay, InQueue
<1>2. /\ answers' \in [Call -> Seq(Told)]
      /\ answers'[c] = Append(answers[c], [type |-> type, to |-> h])
      /\ \A d \in Call \ {c} : answers'[d] = answers[d]
  BY <1>1, HandlesType DEF IAPInv
<1>3. answers'[c] = <<[type |-> type, to |-> h]>>
  BY <1>1, <1>2
<1>. QED
  BY <1>1, <1>2, <1>3

-----------------------------------------------------------------------------
LEMMA InitInv == Init => IAPInv
  BY DEF Init, IAPInv, TypeOK, Progress, HandleInv, PaidIsVerified,
     AnswersReachTheirCall, InQueue, UnderWay, TransactionState, Call

(* The process ends while StoreKit's queue and the answers stay.           *)
LEMMA EndsInv ==
  ASSUME IAPInv, Ends, UNCHANGED <<asked, queue, finished, answers, receipt>>,
         kills' \in 0 .. MaxKills
  PROVE  IAPInv'
<1>1. TypeOK'
  BY DEF Ends, IAPInv, TypeOK, UnderWay
<1>2. \A c \in Call : Progress(c)'
  BY DEF Ends, IAPInv, TypeOK, Progress, InQueue
<1>3. HandleInv'
  BY DEF Ends, IAPInv, TypeOK, HandleInv, UnderWay, InQueue
<1>4. PaidIsVerified'
  BY DEF Ends, IAPInv, TypeOK, PaidIsVerified
<1>5. AnswersReachTheirCall'
  BY DEF Ends, IAPInv, AnswersReachTheirCall
<1>. QED
  BY <1>1, <1>2, <1>3, <1>4, <1>5 DEF IAPInv

LEMMA StartIAPInv ==
  ASSUME IAPInv, NEW c \in Call, NEW p \in ProductID \cup {Empty},
         NEW allowed \in BOOLEAN, StartIAP(c, p, allowed)
  PROVE  IAPInv'
<1>1. /\ asked[c] = Nil /\ handle' = c /\ asked' = [asked EXCEPT ![c] = p]
      /\ p # Nil /\ unsettled' = unsettled \cup UnderWay
      /\ UNCHANGED <<running, queue, finished, receipt, verifying, lost, kills>>
      /\ running /\ \A d \in 1 .. (c - 1) : asked[d] # Nil
  BY DEF StartIAP, KeepsHandle
<1>2. /\ queue[c] = "None" /\ c \notin lookups /\ verifying[c] = Nil
      /\ answers[c] = <<>>
  BY <1>1 DEF IAPInv, Progress
<1>3. \/ /\ lookups' = lookups \cup {c} /\ productID' = p /\ p # Empty
         /\ answers' = answers
      \/ /\ lookups' = lookups /\ productID' = productID
         /\ \E type \in ResultType : Handles(c, type, c)
  BY <1>1 DEF StartIAP, ResultType
<1>4. /\ answers' \in [Call -> Seq(Told)]
      /\ \A d \in Call \ {c} : answers'[d] = answers[d]
      /\ \/ lookups' = lookups \cup {c} /\ answers' = answers
         \/ /\ lookups' = lookups
            /\ \E type \in ResultType :
                 answers'[c] = <<[type |-> type, to |-> c]>>
  <2>1. CASE lookups' = lookups \cup {c} /\ answers' = answers
    BY <2>1, <1>3 DEF IAPInv, TypeOK, Handles
  <2>2. CASE lookups' = lookups /\ \E type \in ResultType : Handles(c, type, c)
    <3>1. PICK type \in ResultType : Handles(c, type, c)
      BY <2>2
    <3>2. /\ answers' \in [Call -> Seq(Told)]
          /\ answers'[c] = Append(answers[c], [type |-> type, to |-> c])
          /\ \A d \in Call \ {c} : answers'[d] = answers[d]
      BY <3>1, HandlesType DEF IAPInv
    <3>. QED
      BY <3>2, <2>2, <1>2
  <2>. QED
    BY <2>1, <2>2, <1>3
<1>5. TypeOK'
  BY <1>1, <1>3, <1>4 DEF IAPInv, TypeOK, UnderWay
<1>6. \A d \in Call : Progress(d)'
  <2>1. asked'[c] = p /\ \A d \in Call \ {c} : asked'[d] = asked[d]
    BY <1>1 DEF IAPInv, TypeOK
  <2>2. ASSUME NEW d \in Call \ {c}
        PROVE  Progress(d)'
    <3>1. /\ asked'[d] = asked[d] /\ answers'[d] = answers[d]
          /\ d \in lookups' <=> d \in lookups
      BY <2>1, <1>4
    <3>2. queue' = queue /\ finished' = finished /\ verifying' = verifying
      BY <1>1
    <3>. QED
      BY <3>1, <3>2 DEF IAPInv, Progress, InQueue
  <2>3. Len(answers'[c]) <= 1
    <3>1. CASE answers' = answers
      BY <3>1, <1>2
    <3>2. ASSUME NEW type, answers'[c] = <<[type |-> type, to |-> c]>>
          PROVE  Len(answers'[c]) <= 1
      BY <3>2
    <3>. QED
      BY <3>1, <3>2, <1>4
  <2>4. c \in lookups' => answers'[c] = <<>>
    BY <1>2, <1>4
  <2>5. Progress(c)'
    BY <2>1, <2>3, <2>4, <1>1, <1>2 DEF Progress, InQueue
  <2>. QED
    BY <2>2, <2>5
<1>7. HandleInv'
  <2>1. \A d, e \in Call : asked'[d] = Nil /\ d < e => asked'[e] = Nil
    BY <1>1 DEF IAPInv, TypeOK, HandleInv, Call
  <2>2. asked'[c] # Nil /\ \A d \in Call : c < d => asked'[d] = Nil
    BY <1>1 DEF IAPInv, TypeOK, HandleInv, Call
  <2>3. UnderWay' \subseteq UnderWay \cup {c}
    BY <1>1, <1>4 DEF UnderWay, InQueue
  <2>. QED
    BY <2>1, <2>2, <2>3, <1>1 DEF HandleInv
<1>8. PaidIsVerified'
  BY <1>1, <1>2, <1>4 DEF IAPInv, TypeOK, PaidIsVerified
<1>9. AnswersReachTheirCall'
  BY <1>1, <1>2, <1>4 DEF IAPInv, AnswersReachTheirCall
<1>. QED
  BY <1>5, <1>6, <1>7, <1>8, <1>9 DEF IAPInv

LEMMA KillInv == IAPInv /\ Kill => IAPInv'
<1>. SUFFICES ASSUME IAPInv, Kill PROVE IAPInv'
  OBVIOUS
<1>1. kills' \in 0 .. MaxKills
  BY DEF IAPInv, TypeOK, Kill
<1>. QED
  BY <1>1, EndsInv DEF Kill

LEMMA LaunchInv == IAPInv /\ Launch => IAPInv'
  BY DEF IAPInv, TypeOK, Progress, InQueue, UnderWay, HandleInv, PaidIsVerified,
     AnswersReachTheirCall, Launch

LEMMA ReceiptArrivesInv == IAPInv /\ ReceiptArrives => IAPInv'
  BY DEF IAPInv, TypeOK, Progress, InQueue, UnderWay, HandleInv, PaidIsVerified,
     AnswersReachTheirCall, ReceiptArrives

LEMMA LookupFailsInv ==
  ASSUME IAPInv, NEW c \in Call, LookupFails(c)
  PROVE  IAPInv'
  BY DEF IAPInv, TypeOK, Progress, InQueue, UnderWay, HandleInv, PaidIsVerified,
     AnswersReachTheirCall, LookupFails

(* StoreKit's verdict leaves the transaction in the queue.                 *)
LEMMA SettlesInv ==
  ASSUME IAPInv, NEW c \in Call, Settles(c)
  PROVE  IAPInv'
<1>1. /\ queue[c] \in {"Purchasing", "Deferred"}
      /\ \E s \in Settled \cup {"Deferred"} : queue' = [queue EXCEPT ![c] = s]
      /\ UNCHANGED <<asked, running, handle, productID, lookups, finished,
                     receipt, verifying, answers, unsettled, lost, kills>>
  BY DEF Settles, Settled
<1>2. /\ queue' \in [Call -> TransactionState] /\ queue'[c] # "None"
      /\ \A d \in Call \ {c} : queue'[d] = queue[d]
  BY <1>1 DEF IAPInv, TypeOK, TransactionState, Settled
<1>3. c \notin finished
  BY <1>1 DEF IAPInv, TypeOK, Settled
<1>4. TypeOK'
  BY <1>1, <1>2, <1>3 DEF IAPInv, TypeOK
<1>5. \A d \in Call : Progress(d)' /\ (InQueue(d)' <=> InQueue(d))
  BY <1>1, <1>2, <1>3 DEF IAPInv, Progress, InQueue
<1>6. HandleInv'
  BY <1>1, <1>5 DEF IAPInv, HandleInv, UnderWay
<1>7. PaidIsVerified' /\ AnswersReachTheirCall'
  BY <1>1, <1>2, <1>3 DEF IAPInv, TypeOK, PaidIsVerified, AnswersReachTheirCall
<1>. QED
  BY <1>4, <1>5, <1>6, <1>7 DEF IAPInv

(* The response to a lookup: a payment, nothing, an exception or an answer *)
(* that there is no such product.                                          *)
LEMMA ReceivesProductsInv ==
  ASSUME IAPInv, NEW c \in Call, ReceivesProducts(c)
  PROVE  IAPInv'
<1>1. /\ c \in lookups /\ c \in UnderWay /\ asked[c] # Nil /\ queue[c] = "None"
      /\ verifying[c] = Nil /\ answers[c] = <<>> /\ c \notin finished
      /\ UNCHANGED <<asked, finished, receipt, kills>>
  BY DEF ReceivesProducts, IAPInv, Progress, UnderWay, TypeOK, Settled
<1>2. CASE /\ lookups' = lookups \ {c} /\ queue' = [queue EXCEPT ![c] = "Purchasing"]
           /\ UNCHANGED <<running, handle, productID, verifying, answers,
                          unsettled, lost>>
  <2>1. TypeOK'
    BY <1>1, <1>2 DEF IAPInv, TypeOK, TransactionState
  <2>2. \A d \in Call : Progress(d)'
    BY <1>1, <1>2 DEF IAPInv, TypeOK, Progress, InQueue
  <2>3. UnderWay' = UnderWay
    BY <1>1, <1>2 DEF UnderWay, InQueue, IAPInv, TypeOK
  <2>4. HandleInv' /\ PaidIsVerified' /\ AnswersReachTheirCall'
    BY <1>1, <1>2, <2>3 DEF IAPInv, TypeOK, HandleInv, PaidIsVerified,
       AnswersReachTheirCall
  <2>. QED
    BY <2>1, <2>2, <2>4 DEF IAPInv
<1>3. CASE /\ lookups' = lookups \ {c}
           /\ UNCHANGED <<running, handle, productID, verifying, unsettled, lost,
                          queue, answers>>
  BY <1>1, <1>3 DEF IAPInv, TypeOK, Progress, InQueue, UnderWay, HandleInv,
     PaidIsVerified, AnswersReachTheirCall
<1>4. CASE Ends /\ UNCHANGED <<queue, answers>>
  BY <1>1, <1>4, EndsInv DEF IAPInv, TypeOK
<1>5. CASE /\ lookups' = lookups \ {c} /\ Handles(c, "IDError", handle)
           /\ UNCHANGED <<running, handle, productID, queue, verifying, unsettled,
                          lost>>
  <2>1. /\ answers' \in [Call -> Seq(Told)] /\ Len(answers'[c]) = 1
        /\ answers'[c] # <<>>
        /\ \A d \in Call \ {c} : answers'[d] = answers[d]
    BY <1>1, <1>5, FirstAnswer DEF ResultType, IAPInv, TypeOK
  <2>2. TypeOK'
    BY <1>1, <1>5, <2>1 DEF IAPInv, TypeOK
  <2>3. ASSUME NEW d \in Call
        PROVE  Progress(d)'
    <3>1. CASE d = c
      BY <3>1, <1>1, <1>5, <2>1 DEF Progress, InQueue
    <3>2. CASE d # c
      BY <3>2, <1>1, <1>5, <2>1 DEF IAPInv, Progress, InQueue
    <3>. QED
      BY <3>1, <3>2
  <2>4. HandleInv'
    BY <1>1, <1>5 DEF IAPInv, HandleInv, UnderWay, InQueue
  <2>5. PaidIsVerified'
    BY <1>1, <1>5, <2>1 DEF IAPInv, TypeOK, PaidIsVerified
  <2>6. AnswersReachTheirCall'
    BY <1>1, <1>5, HandlesTold DEF ResultType
  <2>. QED
    BY <2>2, <2>3, <2>4, <2>5, <2>6 DEF IAPInv
<1>. QED
  BY <1>2, <1>3, <1>4, <1>5 DEF ReceivesProducts

(* A transaction that StoreKit tells of: verified and finished, finished   *)
(* only, or, without a receipt, left as it is when the process ends.       *)
LEMMA UpdatedTransactionInv ==
  ASSUME IAPInv, NEW c \in Call, UpdatedTransaction(c)
  PROVE  IAPInv'
<1>1. /\ running /\ queue[c] \in Settled /\ InQueue(c) /\ c \in UnderWay
      /\ c \notin finished /\ c \notin lookups
      /\ verifying[c] = Nil /\ answers[c] = <<>> /\ asked[c] # Nil
      /\ UNCHANGED <<asked, queue, receipt, kills>>
  BY DEF UpdatedTransaction, IAPInv, Progress, UnderWay, InQueue, Settled
<1>2. CASE /\ queue[c] = "Purchased"
           /\ verifying' = [verifying EXCEPT ![c] = "production"] /\ Finish(c)
           /\ UNCHANGED <<running, handle, productID, lookups, answers, unsettled,
                          lost>>
  <2>1. TypeOK'
    BY <1>1, <1>2 DEF IAPInv, TypeOK, Finish
  <2>2. ASSUME NEW d \in Call
        PROVE  Progress(d)'
    <3>1. CASE d = c
      BY <3>1, <1>1, <1>2 DEF IAPInv, TypeOK, Progress, InQueue, Finish
    <3>2. CASE d # c
      BY <3>2, <1>1, <1>2 DEF IAPInv, TypeOK, Progress, InQueue, Finish
    <3>. QED
      BY <3>1, <3>2
  <2>3. UnderWay' = UnderWay
    <3>1. \A d \in Call : d # c => /\ verifying'[d] = verifying[d]
                                   /\ InQueue(d)' <=> InQueue(d)
      BY <1>1, <1>2 DEF InQueue, IAPInv, TypeOK, Finish
    <3>2. verifying'[c] # Nil /\ lookups' = lookups
      BY <1>2 DEF IAPInv, TypeOK
    <3>. QED
      BY <3>1, <3>2, <1>1 DEF UnderWay
  <2>4. HandleInv' /\ AnswersReachTheirCall'
    BY <1>1, <1>2, <2>3 DEF IAPInv, HandleInv, AnswersReachTheirCall
  <2>5. PaidIsVerified'
    BY <1>1, <1>2 DEF IAPInv, TypeOK, PaidIsVerified, Finish
  <2>. QED
    BY <2>1, <2>2, <2>4, <2>5 DEF IAPInv
<1>3. CASE Ends /\ UNCHANGED <<finished, answers>>
  BY <1>1, <1>3, EndsInv DEF IAPInv, TypeOK
<1>4. CASE /\ queue[c] = "Restored" /\ Finish(c)
           /\ UNCHANGED <<running, handle, productID, lookups, verifying, answers,
                          unsettled, lost>>
  BY <1>1, <1>4 DEF IAPInv, TypeOK, Progress, InQueue, UnderWay, HandleInv,
     PaidIsVerified, AnswersReachTheirCall, Finish
<1>5. ASSUME NEW type \in ResultType, Handles(c, type, handle),
             queue[c] # "Purchased", Finish(c),
             UNCHANGED <<running, handle, productID, lookups, verifying,
                         unsettled, lost>>
      PROVE  IAPInv'
  <2>1. /\ answers' \in [Call -> Seq(Told)] /\ Len(answers'[c]) = 1
        /\ answers'[c] # <<>>
        /\ \A d \in Call \ {c} : answers'[d] = answers[d]
    BY <1>1, <1>5, FirstAnswer DEF IAPInv, TypeOK
  <2>2. TypeOK'
    BY <1>1, <1>5, <2>1 DEF IAPInv, TypeOK, Finish
  <2>3. ASSUME NEW d \in Call
        PROVE  Progress(d)'
    <3>1. CASE d = c
      BY <3>1, <1>1, <1>5, <2>1 DEF Progress, InQueue, Finish
    <3>2. CASE d # c
      BY <3>2, <1>1, <1>5, <2>1 DEF IAPInv, Progress, InQueue, Finish
    <3>. QED
      BY <3>1, <3>2
  <2>4. HandleInv'
    BY <1>1, <1>5 DEF IAPInv, HandleInv, UnderWay, InQueue, Finish
  <2>5. PaidIsVerified'
    BY <1>1, <1>5, <2>1 DEF IAPInv, TypeOK, PaidIsVerified, Finish
  <2>6. AnswersReachTheirCall'
    BY <1>1, <1>5, HandlesTold
  <2>. QED
    BY <2>2, <2>3, <2>4, <2>5, <2>6 DEF IAPInv
<1>. QED
  BY <1>1, <1>2, <1>3, <1>4, <1>5 DEF UpdatedTransaction, Complete, ResultType

(* An answer of a verifyReceipt server.                                    *)
LEMMA ServerAnswersInv ==
  ASSUME IAPInv, NEW c \in Call, ServerAnswers(c)
  PROVE  IAPInv'
<1>1. /\ verifying[c] # Nil /\ c \in finished /\ queue[c] = "Purchased"
      /\ c \in UnderWay /\ c \notin lookups
      /\ answers[c] = <<>> /\ asked[c] # Nil
      /\ UNCHANGED <<asked, queue, finished, receipt, kills>>
  BY DEF ServerAnswers, IAPInv, Progress, UnderWay, InQueue
<1>2. PICK a \in ServerAnswer : Verified(c, a)
  BY DEF ServerAnswers
<1>3. CASE a = "21007"
  <2>1. /\ verifying' = [verifying EXCEPT ![c] = "sandbox"]
        /\ UNCHANGED <<running, handle, productID, lookups, answers, unsettled,
                       lost>>
    BY <1>2, <1>3 DEF Verified
  <2>2. TypeOK'
    BY <1>1, <2>1 DEF IAPInv, TypeOK
  <2>3. \A d \in Call : Progress(d)'
    BY <1>1, <2>1 DEF IAPInv, TypeOK, Progress, InQueue
  <2>4. UnderWay' = UnderWay
    <3>1. \A d \in Call : verifying'[d] = Nil <=> verifying[d] = Nil
      BY <1>1, <2>1 DEF IAPInv, TypeOK
    <3>. QED
      BY <3>1, <1>1, <2>1 DEF UnderWay, InQueue
  <2>5. HandleInv' /\ PaidIsVerified' /\ AnswersReachTheirCall'
    BY <1>1, <2>1, <2>4 DEF IAPInv, TypeOK, HandleInv, PaidIsVerified,
       AnswersReachTheirCall
  <2>. QED
    BY <2>2, <2>3, <2>5 DEF IAPInv
<1>4. ASSUME NEW type \in ResultType \cup {"Silent"}, NEW h \in Call \cup {Nil},
             Handles(c, type, h), type # "Silent" => h = handle,
             verifying' = [verifying EXCEPT ![c] = Nil],
             UNCHANGED <<running, handle, productID, lookups, unsettled, lost>>
      PROVE  IAPInv'
  <2>1. /\ answers' \in [Call -> Seq(Told)] /\ Len(answers'[c]) = 1
        /\ answers'[c] = <<[type |-> type, to |-> h]>> /\ answers'[c] # <<>>
        /\ \A d \in Call \ {c} : answers'[d] = answers[d]
    BY <1>1, <1>4, FirstAnswer
  <2>2. TypeOK'
    BY <1>1, <1>4, <2>1 DEF IAPInv, TypeOK
  <2>3. ASSUME NEW d \in Call
        PROVE  Progress(d)'
    <3>1. CASE d = c
      BY <3>1, <1>1, <1>4, <2>1 DEF IAPInv, TypeOK, Progress, InQueue
    <3>2. CASE d # c
      BY <3>2, <1>1, <1>4, <2>1 DEF IAPInv, TypeOK, Progress, InQueue
    <3>. QED
      BY <3>1, <3>2
  <2>4. HandleInv'
    BY <1>1, <1>4 DEF IAPInv, TypeOK, HandleInv, UnderWay, InQueue
  <2>5. PaidIsVerified'
    BY <1>1, <1>4, <2>1 DEF IAPInv, TypeOK, PaidIsVerified
  <2>6. AnswersReachTheirCall'
    <3>1. CASE type = "Silent"
      BY <3>1, <2>1, <1>4 DEF IAPInv, AnswersReachTheirCall
    <3>2. CASE type # "Silent"
      BY <3>2, <1>1, <1>4, HandlesTold
    <3>. QED
      BY <3>1, <3>2
  <2>. QED
    BY <2>2, <2>3, <2>4, <2>5, <2>6 DEF IAPInv
<1>5. CASE a # "21007"
  <2>1. \E type \in ResultType \cup {"Silent"}, h \in Call \cup {Nil} :
          Handles(c, type, h) /\ (type # "Silent" => h = handle)
    <3>1. handle \in Call \cup {Nil}
      BY DEF IAPInv, TypeOK
    <3>. QED
      BY <3>1, <1>2, <1>5 DEF Verified, ServerAnswer, ResultType
  <2>2. /\ verifying' = [verifying EXCEPT ![c] = Nil]
        /\ UNCHANGED <<running, handle, productID, lookups, unsettled, lost>>
    BY <1>2, <1>5 DEF Verified
  <2>. QED
    BY <2>1, <2>2, <1>4
<1>. QED
  BY <1>3, <1>5

LEMMA NextInv == IAPInv /\ [Next]_vars => IAPInv'
<1>1. IAPInv /\ UNCHANGED vars => IAPInv'
  BY DEF IAPInv, TypeOK, Progress, InQueue, UnderWay, HandleInv, PaidIsVerified,
     AnswersReachTheirCall, vars
<1>. QED
  BY <1>1, KillInv, LaunchInv, ReceiptArrivesInv, StartIAPInv, ReceivesProductsInv,
     LookupFailsInv, SettlesInv, UpdatedTransactionInv, ServerAnswersInv DEF Next

LEMMA IAPInvHolds == IAPSpec => []IAPInv
  BY InitInv, NextInv, PTL DEF IAPSpec

-----------------------------------------------------------------------------
(* Type correctness of IAPManager.                                         *)
THEOREM IAPTypeOK == IAPSpec => []TypeOK
<1>1. IAPInv => TypeOK
  BY DEF IAPInv
<1>. QED
  BY <1>1, IAPInvHolds, PTL

(* A purchase that was paid for and taken out of StoreKit's queue is being *)
(* verified, answered, or lost with the process that verified it.          *)
THEOREM PaidVerified == IAPSpec => []PaidIsVerified
<1>1. IAPInv => PaidIsVerified
  BY DEF IAPInv
<1>. QED
  BY <1>1, IAPInvHolds, PTL

(* Nobody is told twice about one purchase.                                *)
THEOREM ToldOnce == IAPSpec => []OneAnswer
<1>1. IAPInv => OneAnswer
  BY DEF IAPInv, Progress, OneAnswer
<1>. QED
  BY <1>1, IAPInvHolds, PTL

(* An answer reaches the handle of its own call unless a later call or the *)
(* end of the process came in between.                                     *)
THEOREM ToldTheirCall == IAPSpec => []AnswersReachTheirCall
<1>1. IAPInv => AnswersReachTheirCall
  BY DEF IAPInv
<1>. QED
  BY <1>1, IAPInvHolds, PTL
=============================================================================
