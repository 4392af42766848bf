------------------------------- MODULE Times -------------------------------
(***************************************************************************)
(* Calendar time of the C library: time, gmtime and mktime, strftime and   *)
(* strptime.  time_t has 32 bits.  The clock walks day by day, beside a    *)
(* calendar `date' that is only ever moved to the next day, as a wall      *)
(* calendar is; gmtime's static buffer, and a text, are the guest's.       *)
(* A character is a number: a digit is itself, Colon and Space are two     *)
(* more, and the letters of names are numbered from Letters on.            *)
(***************************************************************************)
EXTENDS Integers, Sequences, FiniteSets, SequencesExt

CONSTANTS
  Starts,     \* dates the walk starts from: [day, year, mon, mday, yday, wday], day since 1970
  Days,       \* days of a walk
  Seconds,    \* seconds of the day that the guest asks about
  Layouts,    \* formats: sequences of specifiers and literals
  Sizes       \* sizes of the text buffer

VARIABLES
  date,       \* today
  left,       \* days left to walk
  sec,        \* the second of today
  gmtime_tmp, \* the struct tm of gmtime, a sequence of none or one
  stamp,      \* what mktime made of it, likewise
  text,       \* what strftime wrote, without the NUL
  layout, length,  \* its format, and the length it returned; -1 when none
  scanned,    \* what strptime made of the text: [tm, ok], a sequence of none or one
  panic
vars == <<date, left, sec, gmtime_tmp, stamp, text, layout, length, scanned, panic>>

Colon == 10
Space == 11
Letters == 100
DaySeconds == 86400

-----------------------------------------------------------------------------
\* The wall calendar
WallLeap(y) == (y % 4 = 0 /\ y % 100 # 0) \/ y % 400 = 0
WallMonth(y, m) == IF m = 1 THEN (IF WallLeap(y) THEN 29 ELSE 28) ELSE IF m \in {3, 5, 8, 10} THEN 30 ELSE 31
Tomorrow(d) ==
  LET last == d.mday = WallMonth(d.year, d.mon)
      newyear == last /\ d.mon = 11
  IN  [day |-> d.day + 1, year |-> d.year + (IF newyear THEN 1 ELSE 0),
       mon |-> IF newyear THEN 0 ELSE IF last THEN d.mon + 1 ELSE d.mon, mday |-> IF last THEN 1 ELSE d.mday + 1,
       yday |-> IF newyear THEN 0 ELSE d.yday + 1, wday |-> (d.wday + 1) % 7]
Now == date.day * DaySeconds + sec

Init ==
  /\ date \in Starts /\ left = Days /\ sec \in Seconds
  /\ gmtime_tmp = <<>> /\ stamp = <<>> /\ text = <<>> /\ layout = <<>> /\ length = -1 /\ scanned = <<>> /\ panic = FALSE
tick ==
  /\ left > 0 /\ ~panic /\ date' = Tomorrow(date) /\ left' = left - 1
  /\ gmtime_tmp' = <<>> /\ stamp' = <<>> /\ text' = <<>> /\ layout' = <<>> /\ length' = -1 /\ scanned' = <<>>
  /\ UNCHANGED <<sec, panic>>

-----------------------------------------------------------------------------
\* The 400-year cycle of the calendar, by tables of the first day of each year and month
is_leap_year(year) == year % 4 = 0 /\ (year % 100 # 0 \/ year % 400 = 0)
CYCLE_YEARS == 400
LeapsIn(S) == Cardinality({y \in S : is_leap_year(y)})
year_to_day(y) == 365 * y + LeapsIn(0..y - 1)
CYCLE_DAYS == 400 * 365 + 97
DAYS_IN_MONTH == <<31, 28, 31, 30, 31, 30, 31, 31, 30, 31, 30, 31>>
month_to_day[leap \in BOOLEAN, m \in 0..12] ==
  IF m = 0 THEN 0 ELSE month_to_day[leap, m - 1] + DAYS_IN_MONTH[m] + (IF leap /\ m = 2 THEN 1 ELSE 0)

\* timestamp_to_calendar_date; the last year and month whose first
\* day is not after it
HourMinSec(s) == [hour |-> s \div 3600, min |-> (s % 3600) \div 60, sec |-> s % 60]
YearOf(d) == CHOOSE y \in d \div 366 .. d \div 365 : year_to_day(y) <= d /\ d < year_to_day(y + 1)
MonthOf(leap, d) == CHOOSE m \in 0..11 : month_to_day[leap, m] <= d /\ d < month_to_day[leap, m + 1]
YearAndDay(cycle, d, y) == [year |-> 2000 + cycle * CYCLE_YEARS + y, yday |-> d - year_to_day(y), leap |-> is_leap_year(y)]
Calendar(y, m, days, s) ==
  [year |-> y.year - 1900, mon |-> m, mday |-> y.yday - month_to_day[y.leap, m] + 1, yday |-> y.yday,
   wday |-> (4 + days) % 7] @@ HourMinSec(s)
timestamp_to_calendar_date(t) ==
  LET days == t \div DaySeconds
      y2k == days - 10957
      d == y2k % CYCLE_DAYS
      y == YearAndDay(y2k \div CYCLE_DAYS, d, YearOf(d))
  IN  Calendar(y, MonthOf(y.leap, y.yday), days, t % DaySeconds)

\* calendar_date_to_timestamp: year by year from 1970, either way.  tm_yday and tm_wday are not looked at
DaysTo(year) == IF year >= 1970 THEN 365 * (year - 1970) + LeapsIn(1970..year - 1) ELSE -(365 * (1970 - year) + LeapsIn(year..1969))
calendar_date_to_timestamp(tm) ==
  (DaysTo(tm.year + 1900) + month_to_day[is_leap_year(tm.year + 1900), tm.mon] + tm.mday - 1) * DaySeconds
    + tm.hour * 3600 + tm.min * 60 + tm.sec

\* time, then gmtime or localtime, which are the same here
gmtime ==
  /\ ~panic /\ gmtime_tmp' = <<timestamp_to_calendar_date(Now)>>
  /\ UNCHANGED <<date, left, sec, stamp, text, layout, length, scanned, panic>>
mktime ==
  /\ ~panic /\ gmtime_tmp # <<>> /\ stamp' = <<calendar_date_to_timestamp(gmtime_tmp[1])>>
  /\ UNCHANGED <<date, left, sec, gmtime_tmp, text, layout, length, scanned, panic>>

-----------------------------------------------------------------------------
\* strftime, by specifier; anything else stands for itself
Two(n) == <<n \div 10, n % 10>>
Name(n) == [i \in 1..3 |-> Letters + 3 * n + i]
Hour12(h) == IF h % 12 = 0 THEN 12 ELSE h % 12
Field(tm, f) ==
  CASE f = "m" -> Two(tm.mon + 1) [] f = "d" -> Two(tm.mday) [] f = "H" -> Two(tm.hour) [] f = "M" -> Two(tm.min)
    [] f = "S" -> Two(tm.sec) [] f = "I" -> Two(Hour12(tm.hour)) [] f = "p" -> <<IF tm.hour < 12 THEN Letters ELSE Letters + 1>>
    [] f = "a" -> Name(tm.wday) [] f = "b" -> Name(7 + tm.mon)
    [] f = "Y" -> Two((tm.year + 1900) \div 100) \o Two((tm.year + 1900) % 100)
    [] f = ":" -> <<Colon>> [] f = " " -> <<Space>>
Formatted(tm, fmt) == FlattenSeq([i \in DOMAIN fmt |-> Field(tm, fmt[i])])
\* What does not fit with its NUL is cut off, and the length is that of the whole; no size is a panic
Cut(s, max) == SubSeq(s, 1, IF max - 1 < Len(s) THEN max - 1 ELSE Len(s))
strftime(fmt, max) ==
  /\ ~panic /\ gmtime_tmp # <<>> /\ layout = <<>>
  /\ panic' = (max = 0) /\ layout' = fmt
  /\ \E s \in {Formatted(gmtime_tmp[1], fmt)} : length' = Len(s) /\ text' = Cut(s, max)
  /\ UNCHANGED <<date, left, sec, gmtime_tmp, stamp, scanned>>

\* strptime by specifier over [at, tm, ok]: where in the text, and what it made of it
Digit(s, i) == i <= Len(s) /\ s[i] < Colon
Skipped(s, i) == IF i <= Len(s) /\ s[i] = Space THEN i + 1 ELSE i
Parse2(p, s, f) ==
  IF Digit(s, p.at) /\ Digit(s, p.at + 1)
  THEN [p EXCEPT !.at = @ + 2, !.tm[f] = 10 * s[p.at] + s[p.at + 1]]
  ELSE [p EXCEPT !.ok = FALSE]
ParseStep(s, p, f) ==
  CASE ~p.ok -> p
    [] f = " " -> [p EXCEPT !.at = Skipped(s, @)]
    [] f = ":" -> IF p.at <= Len(s) /\ s[p.at] = Colon THEN [p EXCEPT !.at = @ + 1] ELSE [p EXCEPT !.ok = FALSE]
    [] f = "H" -> Parse2(p, s, "hour") [] f = "M" -> Parse2(p, s, "min") [] f = "S" -> Parse2(p, s, "sec")
ParsesBack(fmt) == \A i \in DOMAIN fmt : fmt[i] \in {"H", "M", "S", ":", " "}
strptime(tm) ==
  /\ ~panic /\ length >= 0 /\ ParsesBack(layout) /\ scanned = <<>>
  /\ scanned' = <<FoldLeft(LAMBDA p, f : ParseStep(text, p, f), [at |-> 1, tm |-> tm, ok |-> TRUE], layout)>>
  /\ UNCHANGED <<date, left, sec, gmtime_tmp, stamp, text, layout, length, panic>>

Next ==
  \/ tick \/ gmtime \/ mktime
  \/ \E fmt \in Layouts, max \in Sizes : left = 0 /\ strftime(fmt, max)
  \/ strptime([hour |-> 99, min |-> 99, sec |-> 99])
Spec == Init /\ [][Next]_vars

-----------------------------------------------------------------------------
\* gmtime gives the date of the wall calendar on every day of the walk, across leap days,
\* turns of the year, the epoch and the ends of a 32 bit time_t; mktime gives the time back;
\* what strftime wrote fits the buffer, NUL included, and strptime reads from it the same
\* hour, minute and second, or fails, and never a part of a cut number
Wall == [year |-> date.year - 1900, mon |-> date.mon, mday |-> date.mday, yday |-> date.yday, wday |-> date.wday,
         hour |-> sec \div 3600, min |-> (sec \div 60) % 60, sec |-> sec % 60]
CalendarTrue ==
  /\ gmtime_tmp # <<>> => \A f \in DOMAIN Wall : gmtime_tmp[1][f] = Wall[f]
  /\ stamp # <<>> => stamp[1] = Now
  /\ length >= 0 /\ ~panic => \E max \in Sizes : Len(text) < max /\ (Len(text) < max - 1 => Len(text) = length)
  /\ scanned # <<>> =>
       /\ \A f \in {"hour", "min", "sec"} : scanned[1].tm[f] \in {99, Wall[f]}
       /\ Len(text) = length => scanned[1].ok
       /\ scanned[1].ok => scanned[1].at = length + 1
=============================================================================
