------------------------ MODULE MCLimitNotification ------------------------
(***************************************************************************)
(* One project, one week and one year, and two dispatches, which race for  *)
(* the same rows or come one after the other.                               *)
(***************************************************************************)
EXTENDS LimitNotification

CONSTANTS i1, i2, p1, u1, a1

MCDispatches == {i1, i2}
MCProjects == {p1}
MCUsers == {u1, a1}
MCAdmins == {a1}
MCMemberChoices == { {}, {u1} }
MCWeeks == {202552}
MCYears == {2025}
MCKeyPairs == { [t \in PeriodType |-> IF t = "weekly" THEN 202552 ELSE 2025] }
Seen(c, l) == [count |-> c, limit |-> l]
MCObservations == { Seen(4, 5), Seen(2, 2) }
============================================================================
