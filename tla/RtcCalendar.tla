------------------------------ MODULE RtcCalendar ------------------------------
(***************************************************************************)
(* The calendar of the clock driver (wj_rtc.c): which times it accepts,    *)
(* and its two conversions between a date and the days since 1.1.1970.  A  *)
(* walk over the days, one date after the other, is what they are checked  *)
(* against.                                                                *)
(***************************************************************************)
EXTENDS Integers

CONSTANT LastYear   \* the walk ends with this year

ASSUME CalendarAssumption == LastYear \in 1970..2099

VARIABLES
  date,   \* the date the walk has come to; months count from 0
  day     \* how many days it has come

calvars == <<date, day>>

-----------------------------------------------------------------------------
(* What the driver computes.                                               *)

\* clock_isleapyear.
Leap(y) == IF y % 400 = 0 THEN TRUE ELSE y % 100 # 0 /\ y % 4 = 0

\* g_noleap_daysbeforemonth, and the leap day before the months after February.
NoLeapDaysBefore ==
  [m \in 0..12 |-> CASE m = 0 -> 0 [] m = 1 -> 31 [] m = 2 -> 59 [] m = 3 -> 90 [] m = 4 -> 120
                     [] m = 5 -> 151 [] m = 6 -> 181 [] m = 7 -> 212 [] m = 8 -> 243
                     [] m = 9 -> 273 [] m = 10 -> 304 [] m = 11 -> 334 [] m = 12 -> 365]
DaysBeforeMonth(m, leap) == NoLeapDaysBefore[m] + (IF m >= 2 /\ leap THEN 1 ELSE 0)

\* leap_year and noleap_year.
MonthDays(m, leap) ==
  IF m = 1 THEN IF leap THEN 29 ELSE 28
  ELSE IF m \in {3, 5, 8, 10} THEN 30 ELSE 31

\* wj_check_tm_ok, for the date; the time of day is 0..23, 0..59, 0..59.
Dates == [y : 1970..2099, m : 0..11, d : 1..31]
DateOk(c) == c.d <= MonthDays(c.m, Leap(c.y))

\* Mutant: the leap day of a year is counted from its first day.
MutDaysOf(c) == (c.y - 1970) * 365 + (c.y - 1968) \div 4 + DaysBeforeMonth(c.m, Leap(c.y)) + c.d - 1
\* clock_calendar2utc: a leap day every fourth year.
DaysOf(c) == (c.y - 1970) * 365 + (c.y - 1969) \div 4 + DaysBeforeMonth(c.m, Leap(c.y)) + c.d - 1

\* clock_utc2calendar: the year by four years at once, then "the next 0-3 years"
\* one by one: the days left, and the years passed since 1970 ...
NextYear(p) ==
  LET size == IF Leap(p[2] + 1970) THEN 366 ELSE 365
  IN  IF p[1] >= size THEN <<p[1] - size, p[2] + 1>> ELSE p
YearFrom(days, four) == NextYear(NextYear(NextYear(<<days % four, 4 * (days \div four)>>)))
MutYearOf(days) == YearFrom(days, 4 * 365)
YearOf(days)    == YearFrom(days, 4 * 365 + 1)

\* ... then the month by halving: it is one of s[1]..s[2], until these are one.
Halved(s, left, leap) ==
  LET mid == (s[1] + s[2]) \div 2
  IN  IF s[1] >= s[2] THEN s
      ELSE IF DaysBeforeMonth(mid + 1, leap) <= left THEN <<mid + 1, s[2]>>
      ELSE IF DaysBeforeMonth(mid, leap) <= left THEN <<mid, mid>>
      ELSE <<s[1], mid - 1>>
MonthOf(left, leap) == Halved(Halved(Halved(<<0, 11>>, left, leap), left, leap), left, leap)[1]

DateOf(days) ==
  LET yr == YearOf(days)
      y == yr[2] + 1970
      m == MonthOf(yr[1], Leap(y))
  IN  [y |-> y, m |-> m, d |-> yr[1] - DaysBeforeMonth(m, Leap(y)) + 1]

\* mktime and gmtime_r: the days and the time of day.
SecondsOf(c, h, mi, s) == ((DaysOf(c) * 24 + h) * 60 + mi) * 60 + s
TimeOfDay(t) == <<(t % 86400) \div 3600, (t % 3600) \div 60, t % 60>>

-----------------------------------------------------------------------------
(* The walk: every fourth year is a leap year, but for 2100.               *)

TrueMonth(y, m) == CASE m = 1 -> IF y % 4 = 0 THEN 29 ELSE 28
                     [] m \in {3, 5, 8, 10} -> 30
                     [] OTHER -> 31

Tomorrow(c) ==
  IF c.d < TrueMonth(c.y, c.m) THEN [c EXCEPT !.d = @ + 1]
  ELSE IF c.m < 11 THEN [c EXCEPT !.m = @ + 1, !.d = 1]
  ELSE [y |-> c.y + 1, m |-> 0, d |-> 1]

CalInit == date = [y |-> 1970, m |-> 0, d |-> 1] /\ day = 0

CalNext == /\ Tomorrow(date).y <= LastYear
           /\ date' = Tomorrow(date) /\ day' = day + 1

CalSpec == CalInit /\ [][CalNext]_calvars

-----------------------------------------------------------------------------
(* What must hold.                                                         *)

\* mktime is right: each date of the calendar is accepted, and its number of
\* days is the number of days walked.
DaysRight == DateOk(date) /\ DaysOf(date) = day

\* gmtime_r is its inverse: the date computed from the days is the date of the
\* calendar, so that the year loop and the halving of the months end right.
DateRight == DateOf(day) = date

\* Both conversions agree with the calendar on every day.
CalendarRight == DaysRight /\ DateRight
================================================================================
