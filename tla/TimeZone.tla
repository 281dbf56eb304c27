------------------------------- MODULE TimeZone -------------------------------
(***************************************************************************)
(* fishnet/base/date.{h,cc} and time_zone.{h,cc}: days and dates, seconds and   *)
(* broken-down times, and the local times of a zone; with the logger that       *)
(* stamps its lines with them (logging.cc), one thread of it.                   *)
(***************************************************************************)
EXTENDS Integers, Sequences

CONSTANTS
  DaysBefore, DaysAfter,\* bounds on the days visited, before and after 1970-01-01
  ZoneFiles,            \* of the zones the logger is given: localtimes and transitions
  Times,                \* seconds since the Epoch at which a line is logged
  MaxZoneChanges        \* bound on calls of setTimeZone()

VARIABLES
  day,                  \* days since 1970-01-01
  date, wday,           \* history: its [year, month, day], its day of the week
  now,                  \* the second of the last line since the Epoch, 0 before the first
  g_logTimeZone,        \* a zone, or NoZone: not valid()
  cache,                \* [t_lastSecond, t_time]
  stamp,                \* <<[t_time, zulu: with a Z]>> of the last line since setTimeZone()
  changes,              \* number of setTimeZone()
  inForce               \* history: the zones since the lines have this second

(* The division of C truncates. *)
Quot(a, b) == IF a >= 0 THEN a \div b ELSE -((-a) \div b)
Rem(a, b)  == a - b * Quot(a, b)

getJulianDayNumber(year, month, dd) ==
  LET a == (14 - month) \div 12
      y == year + 4800 - a
      m == month + 12 * a - 3
  IN dd + (153 * m + 2) \div 5 + y * 365 + y \div 4 - y \div 100 + y \div 400 - 32045

getYearMonthDay(julianDayNumber) ==
  LET a == julianDayNumber + 32044
      b == (4 * a + 3) \div 146097
      c == a - (b * 146097) \div 4
      d == (4 * c + 3) \div 1461
      e == c - (1461 * d) \div 4
      m == (5 * e + 2) \div 153
  IN [day |-> e - (153 * m + 2) \div 5 + 1, month |-> m + 3 - 12 * (m \div 10),
      year |-> b * 100 + d - 4800 + m \div 10]

kJulianDayOf1970_01_01 == getJulianDayNumber(1970, 1, 1)
kSecondsPerDay == 24 * 60 * 60

weekDay(julianDayNumber) == (julianDayNumber + 1) % 7

(* gmtime(3) too.  Days before 1970 have negative seconds. *)
toUtcTime_Truncated(seconds) ==
  LET s == Rem(seconds, kSecondsPerDay)
      j == Quot(seconds, kSecondsPerDay) + kJulianDayOf1970_01_01
  IN [date |-> getYearMonthDay(j), wday |-> weekDay(j),
      hour |-> s \div 3600, min |-> (s \div 60) % 60, sec |-> s % 60]

toUtcTime(seconds) ==
  LET r == Rem(seconds, kSecondsPerDay)
      s == IF r < 0 THEN r + kSecondsPerDay ELSE r
      d == IF r < 0 THEN Quot(seconds, kSecondsPerDay) - 1 ELSE Quot(seconds, kSecondsPerDay)
      j == d + kJulianDayOf1970_01_01
  IN [date |-> getYearMonthDay(j), wday |-> weekDay(j),
      hour |-> s \div 3600, min |-> (s \div 60) % 60, sec |-> s % 60]

(* timegm(3) too *)
fromUtcTime(tm) ==
  (getJulianDayNumber(tm.date.year, tm.date.month, tm.date.day) - kJulianDayOf1970_01_01)
    * kSecondsPerDay + tm.hour * 3600 + tm.min * 60 + tm.sec

-----------------------------------------------------------------------------
(* A zone: its transitions in order, [gmttime, localtime], and its localtimes,
   [gmtOffset, isDst]: the first of them, and one from each transition on *)
Zone(localtimes, gmttimes) ==
  [localtimes |-> localtimes,
   transitions |-> [i \in 1..Len(gmttimes) |->
                      [gmttime |-> gmttimes[i], localtime |-> gmttimes[i] + localtimes[i + 1].gmtOffset]]]

Zones == {Zone(file[1], file[2]) : file \in ZoneFiles}

(* lower_bound() by the field Comp compares, and the step back to the last transition
   not after the sentry *)
findLocaltime(zone, comp, sentry) ==
  LET passed == {i \in DOMAIN zone.transitions : zone.transitions[i][comp] <= sentry}
  IN zone.localtimes[1 + (CHOOSE i \in passed \cup {0} : \A j \in passed : j <= i)]

toLocalTime(zone, seconds) ==
  LET local == findLocaltime(zone, "gmttime", seconds)
  IN [utc |-> toUtcTime(seconds + local.gmtOffset), isdst |-> local.isDst]

fromLocalTime_Standard(zone, tm) ==
  LET seconds == fromUtcTime(tm.utc)
  IN seconds - findLocaltime(zone, "localtime", seconds).gmtOffset

(* The second time an hour is shown it is standard time: a daylight saving time that
   looks like it is an hour earlier. *)
fromLocalTime(zone, tm) ==
  LET seconds == fromUtcTime(tm.utc)
      offset  == findLocaltime(zone, "localtime", seconds).gmtOffset
      try     == toLocalTime(zone, seconds - offset)
  IN IF tm.isdst /\ ~try.isdst /\ try.utc.hour = tm.utc.hour /\ try.utc.min = tm.utc.min
     THEN seconds - 3600 - offset ELSE seconds - offset

-----------------------------------------------------------------------------
(* The Gregorian calendar, a day at a time *)
Leap(y) == y % 4 = 0 /\ (y % 100 # 0 \/ y % 400 = 0)
DaysIn(y, m) == IF m = 2 THEN (IF Leap(y) THEN 29 ELSE 28) ELSE IF m \in {4, 6, 9, 11} THEN 30 ELSE 31

Tomorrow(d) ==
  IF d.day < DaysIn(d.year, d.month) THEN [d EXCEPT !.day = @ + 1]
  ELSE IF d.month < 12 THEN [d EXCEPT !.day = 1, !.month = @ + 1]
  ELSE [year |-> d.year + 1, month |-> 1, day |-> 1]

Yesterday(d) ==
  IF d.day > 1 THEN [d EXCEPT !.day = @ - 1]
  ELSE IF d.month > 1 THEN [d EXCEPT !.day = DaysIn(d.year, d.month - 1), !.month = @ - 1]
  ELSE [year |-> d.year - 1, month |-> 12, day |-> 31]

DateInit == day = 0 /\ date = [year |-> 1970, month |-> 1, day |-> 1] /\ wday = 4

NextDay == /\ 0 <= day /\ day < DaysAfter
           /\ day' = day + 1 /\ date' = Tomorrow(date) /\ wday' = (wday + 1) % 7

PreviousDay ==
  /\ -DaysBefore < day /\ day <= 0
  /\ day' = day - 1 /\ date' = Yesterday(date) /\ wday' = (wday + 6) % 7

(* The seconds of a day at which its times are checked *)
SecondsOfDay == {0, 1, 3599, 43200, 86340, 86399}

(* Every day has its date, whichever way it is computed, and its day of the week; every
   second has its broken-down time and back, before 1970 too (|day| < 24855: 32 bits). *)
CalendarExact ==
  LET j == day + kJulianDayOf1970_01_01 IN
  /\ getYearMonthDay(j) = date /\ weekDay(j) = wday
  /\ getJulianDayNumber(date.year, date.month, date.day) = j
  /\ -24855 < day /\ day < 24855 =>
       \A s \in SecondsOfDay :
         LET tm == toUtcTime(day * kSecondsPerDay + s) IN
         /\ tm.date = date /\ tm.wday = wday
         /\ tm.hour * 3600 + tm.min * 60 + tm.sec = s /\ tm.min < 60 /\ tm.sec < 60
         /\ fromUtcTime(tm) = day * kSecondsPerDay + s

-----------------------------------------------------------------------------
NoZone == Zone(<<>>, <<>>)

StampInit ==
  /\ now = 0 /\ g_logTimeZone \in Zones \cup {NoZone}
  /\ cache = [t_lastSecond |-> 0, t_time |-> <<>>] /\ stamp = <<>>
  /\ changes = 0 /\ inForce = {g_logTimeZone}

(* What the text has of a broken-down time: not whether it is daylight saving time *)
Shown(tm) == [date |-> tm.date, hour |-> tm.hour, min |-> tm.min, sec |-> tm.sec]

Broken(zone, seconds) ==
  IF zone = NoZone THEN [utc |-> toUtcTime(seconds), isdst |-> FALSE] ELSE toLocalTime(zone, seconds)

t_time(zone, seconds) == Shown(Broken(zone, seconds).utc)

formatTime_Later(seconds) ==
  /\ cache' = IF seconds > cache.t_lastSecond
              THEN [t_lastSecond |-> seconds, t_time |-> t_time(g_logTimeZone, seconds)] ELSE cache
  /\ stamp' = <<[t_time |-> cache'.t_time, zulu |-> g_logTimeZone = NoZone]>>

formatTime(seconds) ==
  /\ cache' = IF seconds # cache.t_lastSecond
              THEN [t_lastSecond |-> seconds, t_time |-> t_time(g_logTimeZone, seconds)] ELSE cache
  /\ stamp' = <<[t_time |-> cache'.t_time, zulu |-> g_logTimeZone = NoZone]>>

(* A line is logged; the clock may have been set back. *)
Log(seconds) ==
  /\ now' = seconds /\ formatTime(seconds)
  /\ inForce' = IF seconds = now THEN inForce ELSE {g_logTimeZone}
  /\ UNCHANGED <<g_logTimeZone, changes>>

setTimeZone(tz) ==
  /\ changes < MaxZoneChanges
  /\ g_logTimeZone' = tz /\ changes' = changes + 1
  /\ inForce' = inForce \cup {tz} /\ stamp' = <<>>
  /\ UNCHANGED <<now, cache>>

StampNext == (\E t \in Times : Log(t)) \/ (\E tz \in Zones \cup {NoZone} : setTimeZone(tz))

(* The second a text stands for in a zone, if it is known to be daylight saving time or not *)
ReadAs(zone, text, isdst) ==
  IF zone = NoZone THEN fromUtcTime(text) ELSE fromLocalTime(zone, [utc |-> text, isdst |-> isdst])

(* Two seconds an hour apart, of which only one is daylight saving time *)
ShownTwice(zone, s, t) ==
  s - t \in {-3600, 3600} /\ Broken(zone, s).isdst # Broken(zone, t).isdst

(* The stamp of a line tells its second: fromLocalTime() takes it back, given whether it
   is daylight saving time, which the text does not say, so that another second has the
   same text only in the hour that is shown twice.  The zone is the one in force or, as
   long as the lines have the same second, one that was in force since the first of
   them; the Z is always that of the zone in force. *)
StampExact ==
  stamp # <<>> =>
    /\ stamp[1].zulu = (g_logTimeZone = NoZone)
    /\ \E zone \in inForce :
         /\ ReadAs(zone, stamp[1].t_time, Broken(zone, now).isdst) = now
         /\ \A t \in Times \ {now} : t_time(zone, t) = stamp[1].t_time => ShownTwice(zone, now, t)
=============================================================================
