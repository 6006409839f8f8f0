--------------------------- MODULE PeriodRollover ---------------------------
(***************************************************************************)
(* The local calendar day advancing under the period keys of Period: what  *)
(* enforcement, top-ups and the announced reset dates rely on when a week  *)
(* or a year rolls over.                                                   *)
(***************************************************************************)
EXTENDS Period, FiniteSets

CONSTANTS FirstDate, LastDate,   \* the days considered (bound)
          HorizonWeeks           \* MAX_TOPUP_HORIZON_WEEKS

ASSUME RolloverAssumption ==
  /\ FirstDate \in Nat /\ LastDate \in Nat
  /\ 732 <= FirstDate /\ FirstDate <= LastDate    \* from the third year on
  /\ HorizonWeeks \in Nat \ {0}

VARIABLE date

Start == date = FirstDate

Midnight == date < LastDate /\ date' = date + 1

Rollover == Start /\ [][Midnight]_date

-----------------------------------------------------------------------------
(***************************************************************************)
(* ISO 8601 as it is worded: a week belongs to the year that holds four of *)
(* its days or more, and is numbered among the weeks of that year.         *)
(***************************************************************************)
Monday(day) == day - (day % 7)

Week(day) == Monday(day)..(Monday(day) + 6)

Holds(year, day) == Cardinality({ d \in Week(day) : FullYear(d) = year }) >= 4

(***************************************************************************)
(* The weekly key names the ISO year and the ISO week of the day           *)
(* (getIsoWeek derives both from two Thursdays).                           *)
(***************************************************************************)
WeekIsIso ==
  \E year \in (FullYear(date) - 1)..(FullYear(date) + 1) :
    /\ Holds(year, date)
    /\ WeeklyPeriodKey(date) =
         100 * year + Cardinality({ k \in 0..52 : Holds(year, date - 7 * k) })

(***************************************************************************)
(* A week's top-ups raise a year's limit exactly when a day of the week is *)
(* charged to that year: the two gates of a run stay consistent across     *)
(* January 1 (listWeeklyPeriodKeysOverlappingYearlyPeriod).                *)
(***************************************************************************)
RaisedWhereCounted ==
  \A year \in (FullYear(date) - 1)..(FullYear(date) + 1) :
    WeeklyPeriodKey(date) \in WeeklyPeriodKeysOverlapping(year)
      <=> \E day \in Week(date) : YearlyPeriodKey(day) = year

(***************************************************************************)
(* A counter resets on the day announced and on no other: the key changes  *)
(* with the day exactly when that day is the reset date that every earlier *)
(* day of the period announced.                                            *)
(***************************************************************************)
ResetsAreSharp ==
  [][/\ WeeklyPeriodKey(date') # WeeklyPeriodKey(date) <=> date' = NextWeeklyReset(date)
     /\ WeeklyPeriodKey(date') = WeeklyPeriodKey(date)
          => NextWeeklyReset(date') = NextWeeklyReset(date)
     /\ YearlyPeriodKey(date') # YearlyPeriodKey(date) <=> date' = NextYearlyReset(date)
     /\ YearlyPeriodKey(date') = YearlyPeriodKey(date)
          => NextYearlyReset(date') = NextYearlyReset(date)]_date

(***************************************************************************)
(* Keys order as days do (deleteProjectTopup compares them), and the weeks *)
(* offered for a top-up start with the current one and move on one week at *)
(* a time, skipping none at the turn of a year.                            *)
(***************************************************************************)
KeysFollowDays ==
  [][LET offered == UpcomingWeeklyPeriodKeys(HorizonWeeks, date) IN
     /\ offered[1] = WeeklyPeriodKey(date)
     /\ \A k \in 1..(HorizonWeeks - 1) : offered[k] < offered[k + 1]
     /\ LET next == UpcomingWeeklyPeriodKeys(HorizonWeeks, date') IN
        IF WeeklyPeriodKey(date') = WeeklyPeriodKey(date)
        THEN next = offered
        ELSE SubSeq(next, 1, HorizonWeeks - 1) = Tail(offered)]_date
=============================================================================
