------------------------------ MODULE SendOnce ------------------------------
(***************************************************************************)
(* What the rate-limit notifications promise: an event is mailed in one    *)
(* go, to a set of recipients, and never again, "so a breach detected on   *)
(* every run emails the project exactly once per period and kind".         *)
(***************************************************************************)
EXTENDS Naturals

CONSTANTS Rows, Users
VARIABLE mailings      \* [Rows -> [Users -> Nat]]: send attempts per event

Nobody == [u \in Users |-> 0]
Mailing(to) == [u \in Users |-> IF u \in to THEN 1 ELSE 0]

Init == mailings = [row \in Rows |-> Nobody]

Mail(row, to) ==
  /\ mailings[row] = Nobody
  /\ mailings' = [mailings EXCEPT ![row] = Mailing(to)]

Next == \E row \in Rows, to \in SUBSET Users : Mail(row, to)

Spec == Init /\ [][Next]_mailings
=============================================================================
