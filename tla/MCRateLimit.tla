---------------------------- MODULE MCRateLimit ----------------------------
(***************************************************************************)
(* One project, a workflow in it and one in none, two executions at a      *)
(* time, and the rollover from 28 December 2025 to 1 January 2026, into a  *)
(* week (2026-W01) that belongs to both years.                             *)
(***************************************************************************)
EXTENDS RateLimit, TLC

CONSTANTS s1, s2, w1, w2, p1

MCSlots == {s1, s2}
MCProjects == {p1}
MCWorkflows == {w1, w2}
MCSharedWith == [w \in MCWorkflows |-> IF w = w1 THEN MCProjects ELSE {}]
MCKindOf == [p \in MCProjects |-> "team"]
MCDeployments == { {"main", "worker"}, {"main"} }

MCWeeks == {202552, 202601}
MCYears == {2025, 2026}
MCWeekOf == [d \in 0..1 |-> IF d = 0 THEN 202552 ELSE 202601]
MCYearOf == [d \in 0..1 |-> IF d = 0 THEN 2025 ELSE 2026]
MCWeeksOverlapping ==
  [y \in MCYears |-> IF y = 2025 THEN {202552, 202601} ELSE {202601}]

\* The calendar above is the one Period computes for the two dates.
P == INSTANCE Period
Date(d) == IF d = 0 THEN 739612 ELSE 739616

ASSUME DatesAssumption ==
  /\ \A d \in 0..1 : /\ MCWeekOf[d] = P!WeeklyPeriodKey(Date(d))
                      /\ MCYearOf[d] = P!YearlyPeriodKey(Date(d))
  /\ \A y \in MCYears :
       MCWeeksOverlapping[y] = MCWeeks \cap P!WeeklyPeriodKeysOverlapping(y)

Limits(w, y) == [t \in PeriodType |-> IF t = "weekly" THEN w ELSE y]
Custom(w, y, stop) ==
  [usesDefaults |-> FALSE, limits |-> Limits(w, y), stop |-> stop]
MCLimitBodies ==
  { Unconfigured, Custom(1, NoLimit, "soft_stop") }
MCDefaultsBodies ==
  { [k \in Kind |-> Limits(1, y)] : y \in {1, NoLimit} }
MCAmounts == {1, 2}
MCInitialTopups ==
  { { [id |-> -1, project |-> p1, week |-> 202601, amount |-> 1] } }

MCSymmetry == Permutations(MCSlots)
============================================================================
