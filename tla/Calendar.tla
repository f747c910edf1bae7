------------------------------ MODULE Calendar ------------------------------
(***************************************************************************)
(* The dates of the finance engine: backend/internal/domain/dates.go and   *)
(* the schedule arithmetic of recurrence.go.                               *)
(*                                                                         *)
(* The code keeps a date as the string YYYY-MM-DD and compares strings;    *)
(* the model keeps the number yyyymmdd, whose order is the same.  A Unix   *)
(* time is one of four instants of its day: 4 * date is midnight and       *)
(* 4 * date + 3 the last second, so the order of instants and the day of   *)
(* an instant are those of the code.                                       *)
(***************************************************************************)
EXTENDS Integers, Sequences

YearOf(d) == d \div 10000
MonthOf(d) == (d \div 100) % 100
DayOfMonth(d) == d % 100
Date(y, m, d) == y * 10000 + m * 100 + d

Midnight(d) == 4 * d
DayClose(d) == 4 * d + 3
DayOf(instant) == instant \div 4

LeapYear(y) == (y % 4 = 0 /\ y % 100 # 0) \/ y % 400 = 0

(* Day 0 of the next month, as Go's time.Date normalises it. *)
DaysInMonth(y, m) ==
  CASE m = 2 -> IF LeapYear(y) THEN 29 ELSE 28
    [] m \in {4, 6, 9, 11} -> 30
    [] OTHER -> 31

(* Days since 1970-01-01 of a civil date. *)
DaysFromCivil(d) ==
  LET early == MonthOf(d) <= 2
      y == IF early THEN YearOf(d) - 1 ELSE YearOf(d)
      m == IF early THEN MonthOf(d) + 12 ELSE MonthOf(d)
      yoe == y % 400
      doy == (153 * (m - 3) + 2) \div 5 + DayOfMonth(d) - 1
  IN  (y \div 400) * 146097 + yoe * 365 + yoe \div 4 - yoe \div 100 + doy - 719468

DaysBetween(left, right) == DaysFromCivil(right) - DaysFromCivil(left)

(* The year of the projection a date falls in, counted in blocks of 365    *)
(* days from its start.                                                    *)
ProjectionYearIndex(start, d) == DaysBetween(start, d) \div 365

(* The same day of a later month, or that month's last day. *)
ClampedDate(y, m, day) == Date(y, m, IF day > DaysInMonth(y, m) THEN DaysInMonth(y, m) ELSE day)

AddMonthsClamped(d, n) ==
  LET index == MonthOf(d) - 1 + n
  IN  ClampedDate(YearOf(d) + index \div 12, (index % 12) + 1, DayOfMonth(d))

AddYearsClamped(d, n) == AddMonthsClamped(d, n * 12)

(* time.AddDate with days only: the civil date a number of days later. *)
MarchDate(y, month, doy) ==
  Date(IF month < 10 THEN y ELSE y + 1, IF month < 10 THEN month + 3 ELSE month - 9, doy - (153 * month + 2) \div 5 + 1)
DayOfMarchYear(y, doy) == MarchDate(y, (5 * doy + 2) \div 153, doy)
DayOfEraYear(era, yoe, doe) == DayOfMarchYear(era * 400 + yoe, doe - (365 * yoe + yoe \div 4 - yoe \div 100))
DayOfEra(era, doe) == DayOfEraYear(era, (doe - doe \div 1460 + doe \div 36524 - doe \div 146096) \div 365, doe)
CivilFromDays(z) == DayOfEra(z \div 146097, z % 146097)
AddDays(d, n) == CivilFromDays(DaysFromCivil(d) + n + 719468)

Frequencies == {"daily", "weekly", "monthly", "quarterly", "annual"}

(* How an annual rate becomes the rate of one occurrence. *)
FrequencyDivisor(freq) ==
  CASE freq = "daily" -> 365
    [] freq = "weekly" -> 52
    [] freq = "monthly" -> 12
    [] freq = "quarterly" -> 4
    [] OTHER -> 1

(* The date of a schedule n whole periods after its start: months are      *)
(* added to the start, never to the date before.                           *)
AdvanceDate(d, freq, n) ==
  IF freq \in {"daily", "weekly"} THEN AddDays(d, (IF freq = "weekly" THEN 7 ELSE 1) * n)
  ELSE AddMonthsClamped(d, n * (CASE freq = "monthly" -> 1 [] freq = "quarterly" -> 3 [] freq = "annual" -> 12))

(* No schedule has more periods than this between its start and a date:    *)
(* the loops of the code stop at the first date past the end.              *)
PeriodsUntil(rule, last) ==
  LET days == DaysBetween(rule.start, last)
      period == CASE rule.freq = "daily" -> 1
                  [] rule.freq = "weekly" -> 7
                  [] rule.freq = "monthly" -> 28
                  [] rule.freq = "quarterly" -> 89
                  [] OTHER -> 365
  IN  IF days < 0 THEN {} ELSE 0 .. days \div period

EffectiveEnd(rule, last) == IF rule.end # 0 /\ rule.end < last THEN rule.end ELSE last

(* Every date of a schedule up to and including last. *)
DatesUntil(rule, end) ==
  {d \in {AdvanceDate(rule.start, rule.freq, n) : n \in PeriodsUntil(rule, end)} : d <= end}

RuleScheduleDates(rule, last) == DatesUntil(rule, EffectiveEnd(rule, last))

(* One date tested without expanding the schedule before it. *)
RuleOccursOn(rule, d) ==
  /\ d >= rule.start
  /\ rule.end = 0 \/ d <= rule.end
  /\ \E n \in PeriodsUntil(rule, d) : AdvanceDate(rule.start, rule.freq, n) = d
=============================================================================
