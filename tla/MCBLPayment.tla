---------------------------- MODULE MCBLPayment ----------------------------
(* BLPaymentManager on small instances. *)
EXTENDS BLPaymentManager, TLC

Symmetry == Permutations(Txn) \cup Permutations(User) \cup Permutations(Slot)
=============================================================================
