--------------------------- MODULE MCChefsResubmit ---------------------------
(***************************************************************************)
(* Two executions that wait twice each and two callbacks at a time.        *)
(***************************************************************************)
EXTENDS ChefsResubmit

CONSTANTS e1, e2, c1, c2

MCExecutions == {e1, e2}
MCCallbacks == {c1, c2}
=============================================================================
