------------------------------- MODULE Period -------------------------------
(***************************************************************************)
(* The period keys of rate limiting (external-hooks api/helpers/period.ts) *)
(* as pure date arithmetic.  A day is the number of days since 0001-01-01, *)
(* a Monday of the proleptic Gregorian calendar JavaScript's Date uses;    *)
(* getLocalDate and the UTC-midnight anchors are the identity on it.  The  *)
(* weekly key 'YYYY-Www' is the number YYYYww: the code compares keys as   *)
(* strings, and four-digit years with padded weeks order as these numbers. *)
(***************************************************************************)
EXTENDS Integers, Sequences

(***************************************************************************)
(* The calendar, as Date.UTC and getUTCFullYear compute it.                *)
(***************************************************************************)
Jan1(year) ==
  365 * (year - 1) + ((year - 1) \div 4) - ((year - 1) \div 100) + ((year - 1) \div 400)

Dec31(year) == Jan1(year + 1) - 1

FullYear(day) ==
  CHOOSE year \in (day \div 366 + 1)..(day \div 365 + 1) : day \in Jan1(year)..Dec31(year)

(***************************************************************************)
(* ISO weeks: the Thursday of its week decides a day's year.               *)
(***************************************************************************)
UTCDay(day) == (day + 1) % 7

IsoDayOfWeek(day) == IF UTCDay(day) = 0 THEN 7 ELSE UTCDay(day)

Thursday(day) == day + (4 - IsoDayOfWeek(day))

\* (Mutant: the year of the day itself, as a date formatter gives it.)
CalendarYear(day) == FullYear(day)

IsoYear(day) == FullYear(Thursday(day))

IsoWeek(day) == 1 + ((Thursday(day) - Thursday(Jan1(IsoYear(day)) + 3)) \div 7)

\* (Mutant: without padStart, when 'YYYY-W9' orders after 'YYYY-W10'.)
UnpaddedKey(isoYear, week) == 100 * isoYear + (IF week < 10 THEN 10 * week ELSE week)

WeeklyKey(isoYear, week) == 100 * isoYear + week

WeeklyPeriodKey(day) == WeeklyKey(IsoYear(day), IsoWeek(day))

YearlyPeriodKey(day) == FullYear(day)

(***************************************************************************)
(* When counters reset, which weeks may be topped up, and which weeks      *)
(* raise a year's limit.                                                   *)
(***************************************************************************)
WeekStart(day) == day - (IsoDayOfWeek(day) - 1)

\* (Mutant: weeks start on Sunday.)
DaysSinceSunday(day) == UTCDay(day)

DaysSinceMonday(day) == (UTCDay(day) + 6) % 7

NextWeeklyReset(day) == day + (7 - DaysSinceMonday(day))

NextYearlyReset(day) == Jan1(FullYear(day) + 1)

UpcomingWeeklyPeriodKeys(count, day) ==
  [k \in 1..count |-> WeeklyPeriodKey(WeekStart(day) + 7 * (k - 1))]

\* The Mondays of the weeks that overlap a period.
\* (Mutant: that begin in it.)
WholeWeeksFrom(first, last) ==
  { monday \in { WeekStart(first + 6) + 7 * k : k \in 0..53 } : monday <= last }

MondaysFrom(first, last) ==
  { monday \in { WeekStart(first) + 7 * k : k \in 0..53 } : monday <= last }

WeeklyPeriodKeysOverlapping(year) ==
  { WeeklyPeriodKey(monday) : monday \in MondaysFrom(Jan1(year), Dec31(year)) }
=============================================================================
