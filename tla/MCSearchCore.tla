---------------------------- MODULE MCSearchCore ----------------------------
(* SearchCore on a small alphabet: an has the reading "an", na the readings *)
(* "na", "a" and "nan", and the keypad gives two letters one digit.        *)
EXTENDS SearchCore

CONSTANTS an, na, la, lb, ln, d2, d6, no

MCPinYin == an :> << <<la, ln>> >> @@ na :> << <<ln, la>>, <<la>>, <<ln, la, ln>> >>

MCKeypad == la :> d2 @@ lb :> d2 @@ ln :> d6

MCContact ==
  { [id |-> 1, name |-> <<an, Space, na>>, phones |-> <<>>],
    [id |-> 1, name |-> <<lb, no>>, phones |-> << <<d2, d6>> >>],
    [id |-> 2, name |-> <<an>>, phones |-> << <<d6>>, <<d2, d2, d2, d6>> >>],
    [id |-> 3, name |-> <<na, d2, no>>, phones |-> << <<d6, d2, Space, d2>> >>] }

MCText ==
  { <<>>, <<Space>>, <<la>>, <<la, ln>>, <<la, ln, ln, la>>,
    <<d6, Space, d2>>, <<d2, d2, d6>>, <<an, ln>>, <<no>>, <<no, no>> }
=============================================================================
