----------------------- MODULE BLWalletKeyChainStore -----------------------
(***************************************************************************)
(* The keychain item in which BLWalletKeyChainStore keeps, for each user,  *)
(* the payment transactions that still wait for the server's verdict.      *)
(*                                                                         *)
(* The item is one archived dictionary, userid -> NSSet of archived        *)
(* BLPaymentTransactionModel, so its value is a function from users to     *)
(* sets of models.  Archiving is abstracted; what a model's isEqual: and   *)
(* the searches by transaction identifier tell apart is kept.  A user with *)
(* no entry and a user with an empty set are fetched alike: nil.           *)
(*                                                                         *)
(* Nothing here is concurrent: every caller runs on the main thread and    *)
(* the pthread mutex is never initialised (initWithService: is not the     *)
(* initialiser that keyChainStoreWithService: reaches), hence no lock.     *)
(***************************************************************************)
EXTENDS Integers

CONSTANTS User,           \* user identifiers
          Txn,            \* StoreKit transaction identifiers
          MaxReceipt,     \* bound: versions of the App Store receipt
          MaxVerifyCount  \* bound: modelVerifyCount saturates here

ASSUME MaxReceiptAssumption == MaxReceipt \in Nat
ASSUME MaxVerifyCountAssumption == MaxVerifyCount \in Nat \ {0}

\* A receipt is a version number: every purchase the App Store writes into
\* the receipt gives a new one.  NoReceipt stands for the missing file.
NoReceipt == 0
Receipt == NoReceipt..MaxReceipt
VerifyCount == 0..MaxVerifyCount

\* BLPaymentTransactionModel.  order is the receipt version whose md5 the
\* server's order was created for (orderNo and md5 are always saved
\* together), NoReceipt while there is no order.  valid is
\* isTransactionValidFromService.  Product and date are fixed by txn.
Model == [txn : Txn, count : VerifyCount, order : Receipt, valid : BOOLEAN]

NewModel(t) == [txn |-> t, count |-> 0, order |-> NoReceipt, valid |-> FALSE]

\* Mutant: counts down.
OneLess(n) == n - 1

\* The count written after one more failed upload.
OneMore(n) == IF n < MaxVerifyCount THEN n + 1 ELSE n

-----------------------------------------------------------------------------
Stored(kc, u, t) == \E m \in kc[u] : m.txn = t

\* The model an index search by transactionIdentifier stops at.
Matching(kc, u, t) == CHOOSE m \in kc[u] : m.txn = t

\* Mutant: persisted is taken for verified.
FlaggedWhenStored(kc, u, t) == Stored(kc, u, t)

\* paymentTransactionDidFinishFromService...: is t stored with the flag set?
FlaggedValid(kc, u, t) == \E m \in kc[u] : m.txn = t /\ m.valid

\* isEqualToModel: same identifier, product and md5.
SameModel(m, n) == m.txn = n.txn /\ m.order = n.order

\* Mutant: the existing models are overwritten.
SaveModelsOnly(kc, u, M) == [kc EXCEPT ![u] = M]

\* bl_savePaymentTransactionModels: the new models, and the existing ones
\* that are not equal to a new one.
SaveModels(kc, u, M) ==
  [kc EXCEPT ![u] = M \cup {e \in @ : \A m \in M : ~SameModel(e, m)}]

\* bl_deletePaymentTransactionModel...: the first match goes.
DeleteModel(kc, u, t) ==
  IF Stored(kc, u, t) THEN [kc EXCEPT ![u] = @ \ {Matching(kc, u, t)}] ELSE kc

\* The three updates find the first match, change it and write it back.
Replace(kc, u, t, m) ==
  IF Stored(kc, u, t)
  THEN [kc EXCEPT ![u] = (@ \ {Matching(kc, u, t)}) \cup {m}]
  ELSE kc

SetVerifyCount(kc, u, t, n) ==
  Replace(kc, u, t, [Matching(kc, u, t) EXCEPT !.count = n])

\* Mutant: saving an order marks the transaction as verified, too.
SetOrderAndValid(kc, u, t, r) ==
  Replace(kc, u, t, [Matching(kc, u, t) EXCEPT !.order = r, !.valid = TRUE])

SetOrder(kc, u, t, r) ==
  Replace(kc, u, t, [Matching(kc, u, t) EXCEPT !.order = r])

SetValid(kc, u, t) ==
  Replace(kc, u, t, [Matching(kc, u, t) EXCEPT !.valid = TRUE])

DeleteAllModels(kc, u) == [kc EXCEPT ![u] = {}]

\* Every write removes the whole item and then sets it anew: this is what
\* a process that dies in between leaves, for every user.
ItemRemoved == [u \in User |-> {}]
=============================================================================
