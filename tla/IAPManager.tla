----------------------------- MODULE IAPManager -----------------------------
(***************************************************************************)
(* IAPManager, the purchase client that verifies a purchase with Apple's   *)
(* verifyReceipt servers itself.  It remembers one product and one handle, *)
(* those of the latest call of startIAPWithProductID, whatever purchases   *)
(* are under way; it finishes a transaction as soon as its verification    *)
(* has been sent; and nothing of it survives the end of the process, while *)
(* StoreKit keeps the transactions that were not finished.                 *)
(*                                                                         *)
(* StoreKit and the verifyReceipt servers are external.  Handlers run on   *)
(* the main thread, and the answers of the servers on a thread of their    *)
(* own, each as one step.                                                  *)
(***************************************************************************)
EXTENDS Integers, Sequences

CONSTANTS ProductID,   \* identifiers that callers pass
          Sold,        \* those the store knows
          Empty,       \* the empty (or nil) identifier
          MaxCalls,    \* bound: calls of startIAPWithProductID
          MaxKills,    \* bound: ends of the process other than by exceptions
          Nil

ASSUME SoldAssumption == Sold \subseteq ProductID
ASSUME EmptyAssumption == Empty \notin ProductID
ASSUME NilAssumption ==
  Nil \notin ProductID \cup {Empty, "production", "sandbox"}
ASSUME BoundsAssumption == MaxCalls \in Nat /\ MaxKills \in Nat

Call == 1 .. MaxCalls

VARIABLES
  asked,      \* the product of each call made
  running,    \* the process runs and the manager observes the payment queue
  handle,     \* _handle, named by its call
  productID,  \* _productID
  lookups,    \* calls whose SKProductsRequest is under way
  queue,      \* the state of each call's transaction in StoreKit's queue
  finished,   \* transactions taken out of the queue by finishTransaction
  receipt,    \* there is a file at appStoreReceiptURL
  verifying,  \* the server each transaction is being verified with
  answers,    \* history: what a handle was told about each call, and whose
  unsettled,  \* history: calls that were under way at a later call or when
              \* the process ended
  lost,       \* history: verifications that ended with the process
  kills

vars == <<asked, running, handle, productID, lookups, queue, finished, receipt, verifying,
          answers, unsettled, lost, kills>>

\* IAPResultSuccess is never used.
ResultType == {"Failed", "Cancle", "VerFailed", "VerSuccess", "NotArrow",
               "IDError"}
\* "Silent" is an answer of the server that no branch handles.
Told == [type : ResultType \cup {"Silent"}, to : Call \cup {Nil}]

Settled == {"Purchased", "Failed", "Cancelled", "Restored"}
TransactionState == {"None", "Purchasing", "Deferred"} \cup Settled

InQueue(c) == queue[c] # "None" /\ c \notin finished
UnderWay == {c \in Call : c \in lookups \/ InQueue(c) \/ verifying[c] # Nil}

TypeOK ==
  /\ asked \in [Call -> ProductID \cup {Empty, Nil}]
  /\ running \in BOOLEAN
  /\ handle \in Call \cup {Nil}
  /\ productID \in ProductID \cup {Nil}
  /\ lookups \in SUBSET Call
  /\ queue \in [Call -> TransactionState]
  /\ finished \in SUBSET {c \in Call : queue[c] \in Settled}
  /\ receipt \in BOOLEAN
  /\ verifying \in [Call -> {"production", "sandbox", Nil}]
  /\ answers \in [Call -> Seq(Told)]
  /\ unsettled \in SUBSET Call
  /\ lost \in SUBSET Call
  /\ kills \in 0 .. MaxKills
  /\ ~running => /\ handle = Nil /\ productID = Nil /\ lookups = {}
                 /\ \A c \in Call : verifying[c] = Nil

Init ==
  /\ asked = [c \in Call |-> Nil]
  /\ running = TRUE
  /\ handle = Nil
  /\ productID = Nil
  /\ lookups = {}
  /\ queue = [c \in Call |-> "None"]
  /\ finished = {}
  /\ receipt \in BOOLEAN
  /\ verifying = [c \in Call |-> Nil]
  /\ answers = [c \in Call |-> <<>>]
  /\ unsettled = {}
  /\ lost = {}
  /\ kills = 0

-----------------------------------------------------------------------------
\* handleActionWithType, for an answer about call c while h is the handle.
Handles(c, type, h) ==
  answers' = [answers EXCEPT ![c] = Append(@, [type |-> type, to |-> h])]

\* The process ends: what the manager holds is gone, StoreKit's queue stays.
Ends ==
  /\ running' = FALSE
  /\ handle' = Nil
  /\ productID' = Nil
  /\ lookups' = {}
  /\ verifying' = [c \in Call |-> Nil]
  /\ unsettled' = unsettled \cup UnderWay
  /\ lost' = lost \cup {c \in Call : verifying[c] # Nil}

Kill ==
  /\ running
  /\ kills < MaxKills
  /\ kills' = kills + 1
  /\ Ends
  /\ UNCHANGED <<asked, queue, finished, receipt, answers>>

\* The first use of shareIAPManager in a process.
Launch ==
  /\ ~running
  /\ running' = TRUE
  /\ UNCHANGED <<asked, handle, productID, lookups, queue, finished, receipt,
                 verifying, answers, unsettled, lost, kills>>

(* Mutant: the handle is kept only once the purchase is allowed to begin.  *)
KeepsHandleOfAllowed(c, p, allowed) ==
  handle' = IF allowed /\ p # Empty THEN c ELSE handle

\* startIAPWithProductID keeps the handle first, whatever follows.
KeepsHandle(c, p, allowed) == handle' = c

StartIAP(c, p, allowed) ==
  /\ running
  /\ asked[c] = Nil
  /\ \A d \in 1 .. (c - 1) : asked[d] # Nil
  /\ asked' = [asked EXCEPT ![c] = p]
  /\ KeepsHandle(c, p, allowed)
  /\ unsettled' = unsettled \cup UnderWay
  /\ \/ /\ p # Empty /\ allowed
        /\ productID' = p
        /\ lookups' = lookups \cup {c}
        /\ UNCHANGED answers
     \/ /\ p # Empty /\ ~allowed
        /\ Handles(c, "NotArrow", handle')
        /\ UNCHANGED <<productID, lookups>>
     \/ /\ p = Empty
        /\ Handles(c, "IDError", handle')
        /\ UNCHANGED <<productID, lookups>>
  /\ UNCHANGED <<running, queue, finished, receipt, verifying, lost, kills>>

-----------------------------------------------------------------------------
\* productsRequest:didReceiveResponse: looks for the product of the latest
\* call.  The response to an earlier call has another one: the payment is
\* then made with nil, which StoreKit ignores or raises an exception at.
ReceivesProducts(c) ==
  /\ c \in lookups
  /\ \/ /\ asked[c] \in Sold /\ asked[c] = productID
        /\ lookups' = lookups \ {c}
        /\ queue' = [queue EXCEPT ![c] = "Purchasing"]
        /\ UNCHANGED <<running, handle, productID, verifying, answers, unsettled,
                       lost>>
     \/ /\ asked[c] \in Sold /\ asked[c] # productID
        /\ \/ /\ lookups' = lookups \ {c}
              /\ UNCHANGED <<running, handle, productID, verifying, unsettled,
                             lost>>
           \/ Ends
        /\ UNCHANGED <<queue, answers>>
     \/ /\ asked[c] \notin Sold
        /\ lookups' = lookups \ {c}
        /\ Handles(c, "IDError", handle)
        /\ UNCHANGED <<running, handle, productID, queue, verifying, unsettled,
                       lost>>
  /\ UNCHANGED <<asked, finished, receipt, kills>>

\* The request fails, for which there is no delegate method, or it is freed
\* before it is answered, for the manager does not retain it.
LookupFails(c) ==
  /\ c \in lookups
  /\ lookups' = lookups \ {c}
  /\ UNCHANGED <<asked, running, handle, productID, queue, finished, receipt,
                 verifying, answers, unsettled, lost, kills>>

\* StoreKit and the user, with or without the application.
Settles(c) ==
  /\ \/ /\ queue[c] = "Purchasing"
        /\ \E s \in Settled \cup {"Deferred"} : queue' = [queue EXCEPT ![c] = s]
     \/ /\ queue[c] = "Deferred"
        /\ \E s \in {"Purchased", "Failed"} : queue' = [queue EXCEPT ![c] = s]
  /\ UNCHANGED <<asked, running, handle, productID, lookups, finished, receipt,
                 verifying, answers, unsettled, lost, kills>>

\* The receipt of the application is fetched.
ReceiptArrives ==
  /\ ~receipt
  /\ receipt' = TRUE
  /\ UNCHANGED <<asked, running, handle, productID, lookups, queue, finished,
                 verifying, answers, unsettled, lost, kills>>

-----------------------------------------------------------------------------
(* Mutant: every transaction that is not finished is.                      *)
FinishAll(c) == finished' = {d \in Call : queue[d] # "None"}

Finish(c) == finished' = finished \cup {c}

(* Mutant: the transaction is left to be finished after its verification.  *)
CompleteUnfinished(c) ==
  /\ receipt
  /\ verifying' = [verifying EXCEPT ![c] = "production"]
  /\ UNCHANGED <<running, handle, productID, lookups, unsettled, lost, finished,
                 answers>>

\* A purchased transaction: completeTransaction sends the receipt to the
\* production server, and the transaction is finished.  Without a receipt
\* the dictionary with it raises an exception before either.
Complete(c) ==
  \/ /\ receipt
     /\ verifying' = [verifying EXCEPT ![c] = "production"]
     /\ Finish(c)
     /\ UNCHANGED <<running, handle, productID, lookups, answers, unsettled, lost>>
  \/ /\ ~receipt
     /\ Ends
     /\ UNCHANGED <<finished, answers>>

\* paymentQueue:updatedTransactions: for one transaction.  Others than
\* these are left in the queue.
UpdatedTransaction(c) ==
  /\ running
  /\ c \notin finished
  /\ \/ queue[c] = "Purchased" /\ Complete(c)
     \/ /\ queue[c] \in {"Failed", "Cancelled", "Restored"}
        /\ Finish(c)
        /\ IF queue[c] = "Restored"
           THEN UNCHANGED answers
           ELSE Handles(c, IF queue[c] = "Failed" THEN "Failed" ELSE "Cancle",
                        handle)
        /\ UNCHANGED <<running, handle, productID, lookups, verifying, unsettled,
                       lost>>
  /\ UNCHANGED <<asked, queue, receipt, kills>>

-----------------------------------------------------------------------------
\* What the completion handler of verifyPurchase gets: no connection, no
\* JSON, or a status.  Only the production server answers 21007.
ServerAnswer == {"error", "noJSON", "0", "21007", "other"}

(* Mutant: 21007 is one of the statuses that nothing is done about.        *)
VerifiedInProduction(c, a) ==
  /\ verifying' = [verifying EXCEPT ![c] = Nil]
  /\ CASE a \in {"error", "noJSON"} -> Handles(c, "VerFailed", handle)
       [] a = "0" -> Handles(c, "VerSuccess", handle)
       [] a = "other" -> Handles(c, "Silent", Nil)
       [] a = "21007" -> UNCHANGED answers
  /\ UNCHANGED <<running, handle, productID, lookups, unsettled, lost>>

(* Mutant: a verification that could not connect is tried once more.       *)
VerifiedAgain(c, a) ==
  /\ verifying' = [verifying EXCEPT
       ![c] = IF a \in {"error", "21007"} /\ @ = "production" THEN "sandbox"
              ELSE Nil]
  /\ CASE a \in {"error", "noJSON"} -> Handles(c, "VerFailed", handle)
       [] a = "0" -> Handles(c, "VerSuccess", handle)
       [] a = "other" -> Handles(c, "Silent", Nil)
       [] a = "21007" -> UNCHANGED answers
  /\ UNCHANGED <<running, handle, productID, lookups, unsettled, lost>>

\* A status other than 0 and 21007 is told nobody.  21007 sends the receipt,
\* read again, to the sandbox server.
Verified(c, a) ==
  \/ /\ a # "21007"
     /\ verifying' = [verifying EXCEPT ![c] = Nil]
     /\ CASE a \in {"error", "noJSON"} -> Handles(c, "VerFailed", handle)
          [] a = "0" -> Handles(c, "VerSuccess", handle)
          [] a = "other" -> Handles(c, "Silent", Nil)
     /\ UNCHANGED <<running, handle, productID, lookups, unsettled, lost>>
  \/ /\ a = "21007"
     /\ verifying' = [verifying EXCEPT ![c] = "sandbox"]
     /\ UNCHANGED <<running, handle, productID, lookups, answers, unsettled, lost>>

ServerAnswers(c) ==
  /\ verifying[c] # Nil
  /\ \E a \in ServerAnswer : /\ a = "21007" => verifying[c] = "production"
                             /\ Verified(c, a)
  /\ UNCHANGED <<asked, queue, finished, receipt, kills>>

-----------------------------------------------------------------------------
Next ==
  \/ Kill \/ Launch \/ ReceiptArrives
  \/ \E c \in Call :
       \/ \E p \in ProductID \cup {Empty}, allowed \in BOOLEAN :
            StartIAP(c, p, allowed)
       \/ ReceivesProducts(c)
       \/ LookupFails(c)
       \/ Settles(c)
       \/ UpdatedTransaction(c)
       \/ ServerAnswers(c)

\* The application is started again and uses the manager, StoreKit tells it
\* of the transactions in its queue, and the requests to the servers have a
\* time-out of 20 s.
Fairness ==
  /\ WF_vars(Launch)
  /\ \A c \in Call : /\ WF_vars(UpdatedTransaction(c))
                     /\ WF_vars(ServerAnswers(c))

IAPSpec == Init /\ [][Next]_vars /\ Fairness

-----------------------------------------------------------------------------
(* A purchase that was paid for and is finished is no longer in StoreKit's *)
(* queue, so the manager alone must see to it: it is being verified, or    *)
(* the server has answered, or the process ended meanwhile and the         *)
(* purchase is lost, which is what finishing it early risks.               *)
PaidIsVerified ==
  \A c \in finished :
    queue[c] = "Purchased"
      => answers[c] # <<>> \/ verifying[c] # Nil \/ c \in lost

(* Nobody is told twice about one purchase, whatever StoreKit redelivers   *)
(* and the two servers answer.                                             *)
OneAnswer == \A c \in Call : Len(answers[c]) <= 1

(* What happened to a purchase is told the handle of its own call, unless  *)
(* a later call, or the end of the process, came while it was under way:   *)
(* then the handle of a later call may be told, or nobody.                 *)
AnswersReachTheirCall ==
  \A c \in Call : \A i \in DOMAIN answers[c] :
    LET told == answers[c][i]
    IN told.type # "Silent" /\ told.to # c
         => c \in unsettled /\ (told.to = Nil \/ told.to > c)

(* Every paid transaction is finished in the end, if there is a receipt.   *)
PaidIsFinished ==
  \A c \in Call : queue[c] = "Purchased" /\ receipt ~> c \in finished

(* "Whether the verification succeeds or not, the transaction is closed"   *)
(* (line 179), and an empty receipt is a failed verification, which the    *)
(* caller is told (line 235): receipt or not, a paid transaction is        *)
(* finished or its caller told, at the latest by a later process.          *)
PaidIsSettled ==
  \A c \in Call : queue[c] = "Purchased" ~> (c \in finished \/ answers[c] # <<>>)
=============================================================================
