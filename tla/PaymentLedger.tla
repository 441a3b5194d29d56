--------------------------- MODULE PaymentLedger ---------------------------
(***************************************************************************)
(* What the in-app purchase client promises about each transaction, with   *)
(* no keychain, queue, task, receipt or process in sight: once paid it is  *)
(* judged by the server before it is closed, that is finished for good     *)
(* with StoreKit, and it is neither forgotten nor reopened.  Only the      *)
(* clear-all test notification may write paid transactions off.            *)
(***************************************************************************)
CONSTANT Txn

VARIABLE ledger  \* how far each transaction has come

LedgerState == {"unpaid", "paid", "judged", "closed", "writtenOff"}

LedgerTypeOK == ledger \in [Txn -> LedgerState]

Init == ledger = [t \in Txn |-> "unpaid"]

\* The App Store charged the user.
Pay(t) ==
  /\ ledger[t] = "unpaid"
  /\ ledger' = [ledger EXCEPT ![t] = "paid"]

\* The client acted on the server's verdict, and closed the transaction in
\* the same step unless StoreKit did not list it.
Judge(t) ==
  /\ ledger[t] \in {"paid", "judged"}
  /\ \E outcome \in {"judged", "closed"} : ledger' = [ledger EXCEPT ![t] = outcome]

\* A judged transaction came back from StoreKit and was closed unverified.
Close(t) ==
  /\ ledger[t] = "judged"
  /\ ledger' = [ledger EXCEPT ![t] = "closed"]

WriteOff(S) ==
  /\ \A t \in S : ledger[t] \in {"paid", "judged"}
  /\ ledger' = [t \in Txn |-> IF t \in S THEN "writtenOff" ELSE ledger[t]]

Next ==
  \/ \E t \in Txn : Pay(t) \/ Judge(t) \/ Close(t)
  \/ \E S \in SUBSET Txn : WriteOff(S)

Spec == Init /\ [][Next]_ledger
=============================================================================
