----------------------------- MODULE ValueList -----------------------------
(***************************************************************************)
(* What the users of Array (Array.h) rely on: a list of values with        *)
(* insertion and removal at any index and a greatest length.  The list is  *)
(* promised only until it is broken: a write outside the array's memory    *)
(* ends every promise until the array is reset.                            *)
(***************************************************************************)
EXTENDS SequencesExt

CONSTANTS Value, Capacity

VARIABLES items, broken

listVars == <<items, broken>>

ListInit == items = <<>> /\ broken = FALSE

(* A value enters at a position, the later ones move up.                   *)
InsertItem == \E v \in Value, p \in 1 .. Len(items) + 1 :
  /\ ~broken /\ ~broken'
  /\ Len(items) < Capacity
  /\ items' = InsertAt(items, p, v)

(* A value leaves, the later ones move down.                               *)
RemoveItem == \E p \in 1 .. Len(items) :
  /\ ~broken /\ ~broken'
  /\ items' = RemoveAt(items, p)

ResetItems == items' = <<>> /\ ~broken'

(* Nothing is promised of a broken list.                                   *)
Broken == broken'

ListNext == InsertItem \/ RemoveItem \/ ResetItems \/ Broken

ListSpec == ListInit /\ [][ListNext]_listVars
=============================================================================
